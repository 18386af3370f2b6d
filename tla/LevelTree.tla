----------------------------- MODULE LevelTree ------------------------------
(***************************************************************************)
(* The files of one open leveldb database as flushes, compactions, reads   *)
(* and snapshots change them, with every operation of VersionSet at work.  *)
(* One background thread runs the flushes and the compactions and writers  *)
(* hold the mutex when they apply, so each is one step here; DBImpl models *)
(* the steps they are made of.                                             *)
(***************************************************************************)
EXTENDS VersionSet

CONSTANTS Keys,          \* user keys
          MaxSequence,   \* writes made
          MaxSnapshots,  \* snapshots taken
          UseSnapshots,  \* whether clients take snapshots: a subset of BOOLEAN
          MaxFiles       \* file numbers handed out

VARIABLES mem,           \* mem_: entries not yet in a file
          files,         \* current_->files_
          tables,        \* the entries of every table written
          pointer,       \* compact_pointer_
          seeks,         \* FileMetaData::allowed_seeks of every file
          toCompact,     \* file_to_compact_ and its level
          snapshots,     \* snapshots_: the sequence numbers held
          history,       \* every entry ever written
          snapshotting   \* chosen once: does this client take snapshots?

vars == <<mem, files, tables, pointer, seeks, toCompact, snapshots, history, snapshotting>>

LastSequence == Cardinality(history)
NewFileNumber == Cardinality(DOMAIN tables) + 1

Init ==
  /\ mem = {} /\ files = EmptyFiles /\ tables = <<>>
  /\ pointer = [level \in Levels |-> NULL]
  /\ seeks = <<>> /\ toCompact = NULL
  /\ snapshots = {} /\ history = {}
  /\ snapshotting \in UseSnapshots

(* Put and Delete. *)
Write(u, t) ==
  /\ LastSequence < MaxSequence
  /\ LET e == InternalKey(u, LastSequence + 1, t)
     IN  /\ mem' = mem \cup {e}
         /\ history' = history \cup {e}
  /\ UNCHANGED <<files, tables, pointer, seeks, toCompact, snapshots, snapshotting>>

GetSnapshot ==
  /\ snapshotting
  /\ Cardinality(snapshots) < MaxSnapshots
  /\ snapshots' = snapshots \cup {LastSequence}
  /\ UNCHANGED <<mem, files, tables, pointer, seeks, toCompact, history, snapshotting>>

ReleaseSnapshot(s) ==
  /\ s \in snapshots
  /\ snapshots' = snapshots \ {s}
  /\ UNCHANGED <<mem, files, tables, pointer, seeks, toCompact, history, snapshotting>>

(* Oldest snapshot a compaction has to keep readable. *)
SmallestSnapshot == IF snapshots = {} THEN LastSequence ELSE Min(snapshots)

(* LogAndApply: a new version, with no file marked for compaction by       *)
(* seeks, and a fresh allowance of seeks for the files the edit adds.      *)
LogAndApply(edit, newTables) ==
  LET all == tables \o newTables
      added == {a[2] : a \in edit.added}
  IN  /\ tables' = all
      /\ files' = SaveTo(files, <<edit>>)
      /\ pointer' = Pointers(pointer, <<edit>>)
      /\ toCompact' = NULL
      /\ seeks' = [n \in DOMAIN all |->
                     IF \E f \in added : f.number = n
                     THEN AllowedSeeks(CHOOSE f \in added : f.number = n)
                     ELSE seeks[n]]

(* CompactMemTable. *)
Flush ==
  /\ mem # {}
  /\ NewFileNumber <= MaxFiles
  /\ \E f \in {File(NewFileNumber, mem)} :
     \E level \in {PickLevelForMemTableOutput(files, f.smallest.user, f.largest.user)} :
       LogAndApply(AddFile(NoEdit, level, f), <<mem>>)
  /\ mem' = {}
  /\ UNCHANGED <<snapshots, history, snapshotting>>

(* Run the compaction c: DoCompactionWork and InstallCompactionResults. *)
Work(c) ==
  LET base == Cardinality(DOMAIN tables)
  IN  \E outs \in {CompactedTables(c, files, tables, SmallestSnapshot)} :
        /\ base + Len(outs) <= MaxFiles
        /\ LogAndApply(InstallEdit(c, {File(base + i, outs[i]) : i \in DOMAIN outs}), outs)

(* BackgroundCompaction without a manual request. *)
Compact ==
  /\ NeedsCompaction(files, toCompact)
  /\ \E c \in {PickCompaction(files, pointer, toCompact)} :
       IF IsTrivialMove(c) THEN LogAndApply(TrivialMoveEdit(c), <<>>) ELSE Work(c)
  /\ UNCHANGED <<mem, snapshots, history, snapshotting>>

MaxLevelWithFiles(lo, hi) ==
  Max({1} \cup {level \in Levels \ {0} : OverlapInLevel(files, level, lo, hi)})

(* BackgroundCompaction for a manual request over lo..hi. *)
CompactManually(level, lo, hi) ==
  /\ level < MaxLevelWithFiles(lo, hi)
  /\ \E c \in {CompactRange(files, level, lo, hi)} : c # NULL /\ Work(c)
  /\ UNCHANGED <<mem, snapshots, history, snapshotting>>

(* A read of u at snapshot s that has to search the files; UpdateStats     *)
(* charges the seek.                                                       *)
ChargeSeek(target) ==
  /\ target # NULL
  /\ LET n == target[2].number
     IN  /\ seeks' = [seeks EXCEPT ![n] = IF @ = 0 THEN 0 ELSE @ - 1]
         /\ toCompact' = IF seeks[n] <= 1 /\ toCompact = NULL THEN target ELSE toCompact
  /\ UNCHANGED <<mem, files, tables, pointer, snapshots, history, snapshotting>>

Readable == {LastSequence} \cup snapshots

Visible(entries, u, s) == {e \in entries : e.user = u /\ e.seq <= s}
Newest(entries) ==
  IF entries = {} THEN NULL ELSE CHOOSE e \in entries : \A x \in entries : x.seq <= e.seq

(* DBImpl::Get: the memtable first, then the files. *)
Get(u, s) ==
  LET m == TableGet(mem, LookupKey(u, s))
  IN  IF m # NULL THEN m ELSE VersionGet(files, tables, u, s).entry

Read(u, s) ==
  /\ TableGet(mem, LookupKey(u, s)) = NULL
  /\ ChargeSeek(VersionGet(files, tables, u, s).seekFile)

(* An iterator samples the entries it passes (RecordReadSample). *)
Sample(e) == ChargeSeek(SampledSeek(files, e))

Next ==
  \/ \E u \in Keys, t \in {kTypeDeletion, kTypeValue} : Write(u, t)
  \/ GetSnapshot
  \/ \E s \in snapshots : ReleaseSnapshot(s)
  \/ Flush
  \/ Compact
  \/ \E level \in 0..kNumLevels - 2, lo \in Keys \cup {NULL}, hi \in Keys \cup {NULL} :
       CompactManually(level, lo, hi)
  \/ \E u \in Keys, s \in Readable : Read(u, s)
  \/ \E e \in history : Sample(e)

Spec == Init /\ [][Next]_vars

-----------------------------------------------------------------------------
(* What a read returns: a value, or nothing for a deletion or no entry. *)
ValueOf(e) == IF e = NULL \/ e.type = kTypeDeletion THEN NULL ELSE e.seq

(* A read at the end of the history or at a held snapshot returns the      *)
(* newest write it may see, whatever was flushed, moved between levels,    *)
(* merged or dropped since (Version::Get, DoCompactionWork).               *)
ReadsSeeHistory ==
  \A u \in Keys, s \in Readable :
    ValueOf(Get(u, s)) = ValueOf(Newest(Visible(history, u, s)))

(* The levels below the first are disjoint in the order of internal keys:  *)
(* the binary search of FindFile, and the assertion of MaybeAddFile, rest  *)
(* on it.                                                                  *)
LevelsDisjoint ==
  \A level \in Levels \ {0} : \A f, g \in files[level] :
    f.number # g.number =>
      Before(f.largest, g.smallest) \/ Before(g.largest, f.smallest)

(* "Entries never hop across levels", so that data found in a smaller      *)
(* level makes the later ones irrelevant (the comment of Version::Get).    *)
LevelsAgeDownwards ==
  \A l, m \in Levels : \A f \in files[l], g \in files[m] :
    l < m => \A e \in tables[f.number], x \in tables[g.number] :
               e.user = x.user => e.seq > x.seq

=============================================================================
