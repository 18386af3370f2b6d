------------------------------- MODULE Repair -------------------------------
(***************************************************************************)
(* RepairDB (db/repair.cc) over the files of a database that was closed or *)
(* crashed: each log becomes a table, every table is scanned, a damaged    *)
(* one is copied as far as it can be read, and a new MANIFEST puts all     *)
(* tables in level 0.  Files that are no longer needed move to lost/.  A   *)
(* step is one call of Env, or several of which only the last changes      *)
(* something; any call may fail, the process may die between two of them,  *)
(* and the repair may be run again.                                        *)
(***************************************************************************)
EXTENDS DBFormat, Sequences

CONSTANTS Users, Writes,           \* user keys, and how many writes were made
          OldTables, OldLogs,      \* numbers of the files there may be
          Garbage,                 \* entries that a damaged file may seem to hold
          MaxDamaged,              \* bound: writes whose entry is damaged
          MaxTrouble               \* bound: runs given up or repeated, and failed calls

(* Numbers of files are positive, and no two files share one; what is read *)
(* as a sequence number has no more bits than one.                         *)
ASSUME RepairAssumption ==
  /\ kMaxSequenceNumber \in Nat /\ Writes \in 0..kMaxSequenceNumber
  /\ OldTables \subseteq Nat \ {0} /\ OldLogs \subseteq Nat \ {0}
  /\ OldTables \cap OldLogs = {}
  /\ \A e \in Garbage : e.seq \in 0..kMaxSequenceNumber

VARIABLES dir,     \* logs and tables by number, MANIFESTs, what CURRENT names
          lost,    \* the files in dbname/lost, by name
          rep,     \* the fields of the Repairer, and where it is
          began,   \* the entries that could be read at the start
          crashes, \* how often the repair was run again
          faults   \* the calls that failed

vars == <<dir, lost, rep, began, crashes, faults>>

With(f, n, v) == [m \in DOMAIN f \cup {n} |-> IF m = n THEN v ELSE f[m]]
Without(f, n) == [m \in DOMAIN f \ {n} |-> f[m]]

(* What a reader of a file gets, and whether it then reports an error.     *)
(* Neither the logs nor, without paranoid_checks, the tables are read with *)
(* checksums: a damaged file may seem to hold entries nobody wrote.  The   *)
(* records of a log that are not batches are skipped without an error.     *)
Holding(entries, damaged) == [entries |-> entries, damaged |-> damaged]
Unfinished == Holding({}, TRUE)

Start == [pc |-> "find", logs |-> <<>>, numbers |-> <<>>, manifests |-> {}, next |-> 1,
          found |-> {}, copy |-> 0, number |-> 0, max |-> 0, copied |-> {}]

(* Writes went to the files in the order of their numbers, tables first;   *)
(* records of a log and blocks of a table may be damaged.                  *)
Init ==
  \E user \in [1..Writes -> Users], file \in [1..Writes -> OldTables \cup OldLogs] :
  \E bad \in {b \in SUBSET (1..Writes) : Cardinality(b) <= MaxDamaged} :
  \E seems \in [{file[s] : s \in bad} -> SUBSET Garbage] :
  \E broken \in SUBSET (DOMAIN seems \cap OldTables) :
    LET entry(s) == InternalKey(user[s], s, kTypeValue)
        good(n) == {entry(s) : s \in {x \in 1..Writes \ bad : file[x] = n}}
        holding(n) == Holding(good(n) \cup (IF n \in DOMAIN seems THEN seems[n] ELSE {}),
                              n \in broken)
        used == {file[s] : s \in 1..Writes}
    IN  /\ \A s, t \in 1..Writes : s < t => file[s] <= file[t]
        /\ dir = [logs |-> [n \in OldLogs \cap used |-> holding(n)],
                  tables |-> [n \in OldTables \cap used |-> holding(n)],
                  manifests |-> {3}, current |-> 3, tmp |-> NULL, edit |-> NULL]
        /\ began = {entry(s) : s \in 1..Writes \ bad}
        /\ lost = <<>> /\ rep = Start /\ crashes = 0 /\ faults = 0

Orders(S) == {s \in [1..Cardinality(S) -> S] : \A i, j \in DOMAIN s : s[i] = s[j] => i = j}

(* So many calls fail in a step. *)
Failing(k) == crashes + faults + k <= MaxTrouble /\ faults' = faults + k

(* FindFiles: GetChildren lists the directory in any order, or the repair  *)
(* ends.  The numbers of the manifests do not count, that of the temporary *)
(* file does.                                                              *)
FindFiles ==
  /\ rep.pc = "find"
  /\ LET numbers == DOMAIN dir.logs \cup DOMAIN dir.tables
                    \cup (IF dir.tmp = NULL THEN {} ELSE {1})
         largest == CHOOSE n \in numbers \cup {0} : \A m \in numbers : m <= n
     IN  \/ /\ Failing(0)
            /\ \E logs \in Orders(DOMAIN dir.logs), tables \in Orders(DOMAIN dir.tables) :
                 rep' = [Start EXCEPT !.pc = "convert", !.logs = logs, !.numbers = tables,
                                      !.manifests = dir.manifests, !.next = 1 + largest]
         \/ Failing(1) /\ rep' = [rep EXCEPT !.pc = "failed"]
  /\ UNCHANGED <<dir, lost, began, crashes>>

(* ConvertLogToTable: what can be read of a log becomes a table, under the *)
(* next number; opening the log or reading it on may fail.  BuildTable     *)
(* deletes what it could not finish, or that fails as well.                *)
Convert(read) ==
  /\ dir' = IF read = {} THEN dir
            ELSE [dir EXCEPT !.tables = With(@, rep.next, Holding(read, FALSE))]
  /\ rep' = [rep EXCEPT !.pc = "archive", !.next = @ + 1,
               !.numbers = IF read = {} THEN @ ELSE Append(@, rep.next)]

ConvertLogToTable ==
  /\ rep.pc = "convert" /\ rep.logs # <<>>
  /\ LET entries == dir.logs[Head(rep.logs)].entries
     IN  \/ Failing(0) /\ Convert(entries)
         \/ Failing(1) /\ \E read \in SUBSET entries : Convert(read)
         \/ /\ Failing(1) /\ dir' = dir
            /\ \E opened \in {0, 1} :
                 rep' = [rep EXCEPT !.pc = "archive", !.next = @ + opened]
         \/ /\ Failing(2)
            /\ \E left \in {Unfinished, Holding(entries, FALSE)} :
                 dir' = [dir EXCEPT !.tables = With(@, rep.next, left)]
            /\ rep' = [rep EXCEPT !.pc = "archive", !.next = @ + 1]
  /\ UNCHANGED <<lost, began, crashes>>

(* ArchiveFile renames a file into lost/, over one that has its name.  A   *)
(* failure is only logged.                                                 *)
ArchiveTable(failed, n) ==
  \/ /\ Failing(failed)
     /\ lost' = With(lost, <<"table", n>>, dir.tables[n])
     /\ dir' = [dir EXCEPT !.tables = Without(@, n)]
  \/ Failing(failed + 1) /\ UNCHANGED <<dir, lost>>

(* A log is archived even when its conversion failed.                      *)
ArchiveLog ==
  /\ rep.pc = "archive"
  /\ \/ /\ Failing(0)
        /\ lost' = With(lost, <<"log", Head(rep.logs)>>, dir.logs[Head(rep.logs)])
        /\ dir' = [dir EXCEPT !.logs = Without(@, Head(rep.logs))]
     \/ Failing(1) /\ UNCHANGED <<dir, lost>>
  /\ rep' = [rep EXCEPT !.pc = "convert", !.logs = Tail(@)]
  /\ UNCHANGED <<began, crashes>>

LargestSequence(entries) ==
  LET seqs == {0} \cup {e.seq : e \in entries} IN CHOOSE s \in seqs : \A t \in seqs : t <= s

TableInfo(n, max) == [number |-> n, max |-> max]

NextTable(found) == [rep EXCEPT !.pc = "convert", !.numbers = Tail(@), !.found = found,
                                !.number = 0, !.copy = 0, !.max = 0, !.copied = {}]

(* RepairTable opens the copy, or gives the table up.                      *)
RepairTable(failed, n, seen) ==
  \/ /\ Failing(failed)
     /\ rep' = [rep EXCEPT !.pc = "src", !.copy = rep.next, !.next = @ + 1, !.number = n,
                           !.max = LargestSequence(seen)]
     /\ dir' = [dir EXCEPT !.tables = With(@, rep.next, Unfinished)]
  \/ /\ Failing(failed + 1)
     /\ rep' = [NextTable(rep.found) EXCEPT !.next = @ + 1]
     /\ dir' = dir

(* ExtractMetaData and ScanTable: a table that is read to its end without  *)
(* an error is kept as it is, another is repaired, and one whose size is   *)
(* not to be had is archived.                                              *)
ScanTable ==
  /\ rep.pc = "convert" /\ rep.logs = <<>> /\ rep.numbers # <<>>
  /\ LET n == Head(rep.numbers)
         t == dir.tables[n]
     IN  \/ /\ ~t.damaged /\ Failing(0)
            /\ rep' = NextTable(rep.found \cup {TableInfo(n, LargestSequence(t.entries))})
            /\ UNCHANGED <<dir, lost>>
         \/ t.damaged /\ RepairTable(0, n, t.entries) /\ UNCHANGED lost
         \/ \E seen \in SUBSET t.entries : RepairTable(1, n, seen) /\ UNCHANGED lost
         \/ ArchiveTable(1, n) /\ rep' = NextTable(rep.found)
  /\ UNCHANGED <<began, crashes>>

\* Mutant of ArchiveSource: the damaged table is deleted.
ArchiveSource_Deletes ==
  /\ rep.pc = "src" /\ Failing(0)
  /\ dir' = [dir EXCEPT !.tables = Without(@, rep.number)]
  /\ rep' = [rep EXCEPT !.pc = "copy", !.copied = dir.tables[rep.number].entries]
  /\ UNCHANGED <<lost, began, crashes>>

(* The entries that can still be read are added to the copy's builder, and *)
(* the source is archived ...                                              *)
ArchiveSource ==
  /\ rep.pc = "src"
  /\ \E failed \in {0, 1}, read \in SUBSET dir.tables[rep.number].entries :
       /\ failed = 0 => read = dir.tables[rep.number].entries
       /\ ArchiveTable(failed, rep.number)
       /\ rep' = [rep EXCEPT !.pc = "copy", !.copied = read]
  /\ UNCHANGED <<began, crashes>>

(* ... the copy is finished and closed, or abandoned without an entry; it  *)
(* is deleted when a call fails, or that fails as well ...                 *)
DropCopy ==
  /\ \/ Failing(1) /\ dir' = [dir EXCEPT !.tables = Without(@, rep.copy)]
     \/ Failing(2) /\ dir' = dir
  /\ rep' = NextTable(rep.found)

FinishCopy ==
  /\ rep.pc = "copy"
  /\ \/ /\ rep.copied # {} /\ Failing(0)
        /\ dir' = [dir EXCEPT !.tables = With(@, rep.copy, Holding(rep.copied, FALSE))]
        /\ rep' = [rep EXCEPT !.pc = "rename"]
     \/ rep.copied = {} /\ Failing(0) /\ dir' = dir /\ rep' = NextTable(rep.found)
     \/ DropCopy
  /\ UNCHANGED <<lost, began, crashes>>

(* ... and renamed over the source.  What the scan saw says how far its    *)
(* sequence numbers go.                                                    *)
RenameCopy ==
  /\ rep.pc = "rename"
  /\ \/ /\ Failing(0)
        /\ dir' = [dir EXCEPT !.tables = With(Without(@, rep.copy), rep.number, @[rep.copy])]
        /\ rep' = NextTable(rep.found \cup {TableInfo(rep.number, rep.max)})
     \/ DropCopy
  /\ UNCHANGED <<lost, began, crashes>>

Installed == [log |-> 0, next |-> rep.next, files |-> {t.number : t \in rep.found},
              last |-> LargestSequence({[seq |-> t.max] : t \in rep.found})]

(* WriteDescriptor: a temporary file with one edit, which is deleted when  *)
(* it cannot be written, or that fails as well ...                         *)
WriteTemporary ==
  /\ rep.pc = "convert" /\ rep.logs = <<>> /\ rep.numbers = <<>>
  /\ \/ /\ Failing(0)
        /\ dir' = [dir EXCEPT !.tmp = Installed]
        /\ rep' = [rep EXCEPT !.pc = "manifests"]
     \/ /\ Failing(1) /\ dir' \in {dir, [dir EXCEPT !.tmp = NULL]}
        /\ rep' = [rep EXCEPT !.pc = "failed"]
     \/ /\ Failing(2) /\ dir' = [dir EXCEPT !.tmp = Unfinished]
        /\ rep' = [rep EXCEPT !.pc = "failed"]
  /\ UNCHANGED <<lost, began, crashes>>

(* ... the old manifests are archived, as far as they can be ...           *)
ArchiveManifest ==
  /\ rep.pc = "manifests"
  /\ \E m \in rep.manifests :
       /\ rep' = [rep EXCEPT !.manifests = @ \ {m}]
       /\ \/ Failing(0) /\ dir' = [dir EXCEPT !.manifests = @ \ {m}]
          \/ Failing(1) /\ dir' = dir
  /\ UNCHANGED <<lost, began, crashes>>

(* ... it becomes MANIFEST 1, or is deleted ...                            *)
InstallManifest ==
  /\ rep.pc = "manifests" /\ rep.manifests = {}
  /\ \/ /\ Failing(0)
        /\ dir' = [dir EXCEPT !.manifests = @ \cup {1}, !.edit = dir.tmp, !.tmp = NULL]
        /\ rep' = [rep EXCEPT !.pc = "current"]
     \/ /\ \/ Failing(1) /\ dir' = [dir EXCEPT !.tmp = NULL]
           \/ Failing(2) /\ dir' = dir
        /\ rep' = [rep EXCEPT !.pc = "failed"]
  /\ UNCHANGED <<lost, began, crashes>>

(* ... and SetCurrentFile, through a temporary file of the same name, lets *)
(* CURRENT name it.                                                        *)
SetCurrent ==
  /\ rep.pc = "current"
  /\ \/ Failing(0) /\ dir' = [dir EXCEPT !.current = 1] /\ rep' = [rep EXCEPT !.pc = "done"]
     \/ /\ \/ Failing(1) /\ dir' = dir
           \/ Failing(2) /\ dir' = [dir EXCEPT !.tmp = Unfinished]
        /\ rep' = [rep EXCEPT !.pc = "failed"]
  /\ UNCHANGED <<lost, began, crashes>>

(* The process dies, perhaps within BuildTable or while it writes the      *)
(* temporary file, and leaves a file that is not finished; or it has       *)
(* ended, and the repair is run again.                                     *)
Crash ==
  /\ rep.pc # "find" /\ crashes + faults < MaxTrouble
  /\ crashes' = crashes + 1
  /\ rep' = Start
  /\ \/ dir' = dir
     \/ /\ rep.pc = "convert" /\ rep.logs # <<>>
        /\ dir' = [dir EXCEPT !.tables = With(@, rep.next, Unfinished)]
     \/ /\ \/ rep.pc = "current"
           \/ rep.pc = "convert" /\ rep.logs = <<>> /\ rep.numbers = <<>>
        /\ dir' = [dir EXCEPT !.tmp = Unfinished]
  /\ UNCHANGED <<lost, began, faults>>

Next ==
  \/ FindFiles \/ ConvertLogToTable \/ ArchiveLog
  \/ ScanTable \/ ArchiveSource \/ FinishCopy \/ RenameCopy
  \/ WriteTemporary \/ ArchiveManifest \/ InstallManifest \/ SetCurrent
  \/ Crash

Spec == Init /\ [][Next]_vars

-----------------------------------------------------------------------------
EntriesIn(files) == UNION {f.entries : f \in files}
Files(f) == {f[n] : n \in DOMAIN f}

(* However often the repair dies and is run again, an entry that could be  *)
(* read at first is still in some file of the database or of lost/         *)
(* (db/repair.cc:154, 318); so it is when one call fails in the first two  *)
(* runs.  After that the number of a table in lost/ may be given to a      *)
(* copy, and an unfinished copy be archived over that table; and when the  *)
(* source's archiving fails, the copy of a part of it is renamed over it.  *)
NothingDestroyed ==
  faults = 0 \/ (faults = 1 /\ crashes <= 1) =>
    began \subseteq EntriesIn(Files(dir.logs) \cup Files(dir.tables) \cup Files(lost))

(* A repair that ran through has put tables that exist into the version    *)
(* that CURRENT leads to, and numbers on from every file; they hold what   *)
(* could be read and perhaps garbage.  When no call failed, no log and no  *)
(* older MANIFEST is left, the tables can be read to their end, and the    *)
(* version's last sequence is beyond all of them; when moreover the repair *)
(* never died, they hold every entry that could be read                    *)
(* (db/repair.cc:154, 348).                                                *)
RepairKeepsEntries ==
  rep.pc = "done" =>
    LET new == {dir.tables[n] : n \in dir.edit.files}
    IN  /\ dir.current = 1 /\ 1 \in dir.manifests
        /\ dir.edit.files \subseteq DOMAIN dir.tables
        /\ \A n \in DOMAIN dir.tables \cup DOMAIN dir.logs : n < dir.edit.next
        /\ EntriesIn(new) \subseteq began \cup Garbage
        /\ faults = 0 => /\ dir.logs = <<>> /\ dir.manifests = {1}
                         /\ \A t \in new : ~t.damaged
                         /\ \A e \in EntriesIn(new) : e.seq <= dir.edit.last
        /\ faults = 0 /\ crashes = 0 => began \subseteq EntriesIn(new)

(* The two together: what a repair promises (db/repair.cc:154, 318, 348).  *)
RepairSafe == NothingDestroyed /\ RepairKeepsEntries

(* "corruptions cause entire commits to be skipped" (db/repair.cc:190): a  *)
(* table made from a log holds only entries that were written.             *)
CorruptCommitsSkipped ==
  rep.pc = "done" =>
    EntriesIn({dir.tables[n] : n \in dir.edit.files \ OldTables}) \subseteq began

=============================================================================
