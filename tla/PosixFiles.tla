----------------------------- MODULE PosixFiles -----------------------------
(***************************************************************************)
(* How a database survives the death of its machine: the calls that the    *)
(* background thread makes on PosixEnv (util/env_posix.cc, util/env.cc) to *)
(* put a new table in place (db/builder.cc), record it in the MANIFEST     *)
(* (VersionSet::LogAndApply), point CURRENT at a new MANIFEST              *)
(* (SetCurrentFile of db/filename.cc) and delete what is obsolete.  Every  *)
(* call may fail.  A file has what was appended, what was written of it to *)
(* the system, and what of that is on the disk; the directory has what it  *)
(* is and the states that it may still be found in after a crash.          *)
(***************************************************************************)
EXTENDS Integers, SequencesExt, FiniteSetsExt

CONSTANTS Closed,              \* no descriptor_file_, and no other file
          Journaled,           \* whether data on the disk takes along the
                               \* changes of the directory made before it
          MaxTables, MaxFailedCalls, MaxDeaths

ASSUME FilesAssumption == Closed \notin Nat

VARIABLES dirs,      \* states of the directory, names to files: the first is
                     \* on the disk, the last is the present one
          files,     \* all files ever created
          work,      \* the background thread
          failedCalls, deaths

filesVars == <<dirs, files, work, failedCalls, deaths>>

Name(type, number) == <<type, number>>
CURRENT == Name("CURRENT", 0)

Dir == Last(dirs)
GetChildren == DOMAIN Dir
FileExists(name) == name \in GetChildren

(* What a PosixSequentialFile reads. *)
Seen(f) == SubSeq(files[f].data, 1, files[f].written)

-----------------------------------------------------------------------------
(* The file system. *)

Change(d) == dirs' = Append(dirs, d)

Create(name) ==
  /\ Change([n \in DOMAIN Dir \cup {name} |-> IF n = name THEN Len(files) + 1 ELSE Dir[n]])
  /\ files' = Append(files, [data |-> <<>>, written |-> 0, synced |-> 0])

Unlink(name) ==
  /\ Change([n \in DOMAIN Dir \ {name} |-> Dir[n]])
  /\ UNCHANGED files

(* Append leaves the data in the buffer of stdio or writes it. *)
AppendData(f, data) ==
  /\ \E more \in {files[f].written, Len(files[f].data) + 1} :
       files' = [files EXCEPT ![f].data = Append(@, data), ![f].written = more]
  /\ UNCHANGED dirs

Flush(f) == [files[f] EXCEPT !.written = Len(files[f].data)]

(* fflush and fdatasync. *)
Sync(f) ==
  /\ files' = [files EXCEPT ![f] = [Flush(f) EXCEPT !.synced = Len(files[f].data)]]
  /\ dirs' = IF Journaled THEN <<Dir>> ELSE dirs

(* The system may write to the disk at any time, too. *)
WriteBack ==
  /\ \E f \in DOMAIN files : \E n \in files[f].synced + 1..files[f].written :
       files' = [files EXCEPT ![f].synced = n]
  /\ dirs' = IF Journaled THEN <<Dir>> ELSE dirs
  /\ UNCHANGED <<work, failedCalls, deaths>>

-----------------------------------------------------------------------------
(* What is in the files. A MANIFEST starts with a record of all tables; an *)
(* edit follows, without which it cannot be used.                          *)

TableEdit(add, del) == [add |-> add, del |-> del]

(* The tables that replaying records leaves: added, and not deleted since. *)
LiveTables(records) ==
  UNION {{n \in records[i].add : \A j \in i + 1..Len(records) : n \notin records[j].del} :
           i \in DOMAIN records}

Manifest == Name("MANIFEST", Seen(Dir[CURRENT])[1])

(* Whatever call fails and whenever the process or the machine dies,       *)
(* CURRENT leads to a MANIFEST that can be used, and all the tables that   *)
(* it names are there and whole (db/filename.cc:123, db/builder.cc:17).    *)
(* env_posix.cc:277: a sync of the MANIFEST is to ensure that new files    *)
(* referred to by it are in the file system.                               *)
DatabaseOpens ==
  /\ FileExists(CURRENT)
  /\ Seen(Dir[CURRENT]) # <<>>
  /\ FileExists(Manifest)
  /\ Len(Seen(Dir[Manifest])) >= 2
  /\ \A n \in LiveTables(Seen(Dir[Manifest])) :
       /\ FileExists(Name("table", n))
       /\ Seen(Dir[Name("table", n)]) # <<>>

(* A process that has just opened the database: it has read CURRENT and    *)
(* the MANIFEST, and will write a new one.                                 *)
Opened(table, manifest) ==
  [pc |-> "idle", table |-> table, manifest |-> manifest, descriptor |-> Closed,
   fresh |-> FALSE, file |-> Closed]

FilesInit ==
  /\ files = <<[data |-> <<"entries">>, written |-> 1, synced |-> 1],
               [data |-> <<TableEdit({}, {}), TableEdit({1}, {})>>, written |-> 2, synced |-> 2],
               [data |-> <<1>>, written |-> 1, synced |-> 1]>>
  /\ dirs = <<[n \in {Name("table", 1), Name("MANIFEST", 1), CURRENT} |->
                 CASE n = Name("table", 1) -> 1 [] n = Name("MANIFEST", 1) -> 2 [] OTHER -> 3]>>
  /\ work = Opened(1, 1)
  /\ failedCalls = 0 /\ deaths = 0

-----------------------------------------------------------------------------
(* One call of Env: it is made at here and goes on to there, or fails.     *)

Fails(here, fail) ==
  /\ work.pc = here /\ failedCalls < MaxFailedCalls
  /\ failedCalls' = failedCalls + 1
  /\ work' = [work EXCEPT !.pc = fail]
  /\ UNCHANGED <<dirs, files, deaths>>

Calls(here, next) ==
  /\ work.pc = here
  /\ work' = next
  /\ UNCHANGED <<failedCalls, deaths>>

WorkAt(there) == [work EXCEPT !.pc = there]

(* BuildTable *)
NewTable ==
  \/ /\ work.table < MaxTables
     /\ Calls("idle", [work EXCEPT !.pc = "append table", !.file = Len(files) + 1])
     /\ Create(Name("table", work.table + 1))
  \/ Fails("idle", "failed")

AppendTable ==
  \/ Calls("append table", WorkAt("sync table")) /\ AppendData(work.file, "entries")
  \/ Fails("append table", "drop table")

SyncTable ==
  \/ Calls("sync table", WorkAt("close table")) /\ Sync(work.file)
  \/ Fails("sync table", "drop table")

(* Close, and a look at the table by way of the table cache. *)
CloseTable ==
  \/ /\ Calls("close table", WorkAt(IF work.descriptor = Closed THEN "new manifest" ELSE "record"))
     /\ UNCHANGED <<dirs, files>>
  \/ Fails("close table", "drop table")

DropTable ==
  \/ Calls("drop table", WorkAt("failed")) /\ Unlink(Name("table", work.table + 1))
  \/ Fails("drop table", "failed")

(* LogAndApply: a new MANIFEST when none is open, then the edit. *)
NewManifest ==
  \/ /\ Calls("new manifest", [work EXCEPT !.pc = "snapshot", !.fresh = TRUE,
                                     !.manifest = @ + 1, !.descriptor = Len(files) + 1])
     /\ Create(Name("MANIFEST", work.manifest + 1))
  \/ Fails("new manifest", "failed")

AddRecord(record) ==
  LET f == work.descriptor
      longer == [files EXCEPT ![f].data = Append(@, record)]
  IN  /\ files' = [longer EXCEPT ![f].written = Len(longer[f].data)]
      /\ UNCHANGED dirs

Snapshot ==
  \/ Calls("snapshot", WorkAt("record")) /\ AddRecord(TableEdit({work.table}, {}))
  \/ Fails("snapshot", "drop manifest")

ManifestFailed == IF work.fresh THEN "drop manifest" ELSE "failed"

Record ==
  \/ Calls("record", WorkAt("sync dir")) /\ AddRecord(TableEdit({work.table + 1}, {work.table}))
  \/ Fails("record", ManifestFailed)

(* PosixWritableFile::Sync of a MANIFEST syncs the directory first. *)
SyncDirIfManifest ==
  \/ Calls("sync dir", WorkAt("sync manifest")) /\ dirs' = <<Dir>> /\ UNCHANGED files
  \/ Fails("sync dir", ManifestFailed)

Applied(there) == [work EXCEPT !.pc = there, !.table = @ + 1, !.fresh = FALSE]

SyncManifest ==
  \/ /\ Calls("sync manifest", IF work.fresh THEN WorkAt("new tmp") ELSE Applied("delete"))
     /\ Sync(work.descriptor)
  \/ Fails("sync manifest", ManifestFailed)

DropManifest ==
  \/ Calls("drop manifest", WorkAt("failed")) /\ Unlink(Name("MANIFEST", work.manifest))
  \/ Fails("drop manifest", "failed")

(* SetCurrentFile, by way of WriteStringToFileSync. *)
NewTmp ==
  \/ /\ Calls("new tmp", [work EXCEPT !.pc = "append tmp", !.file = Len(files) + 1])
     /\ Create(Name("tmp", work.manifest))
  \/ Fails("new tmp", "drop tmp")

AppendTmp ==
  \/ Calls("append tmp", WorkAt("sync tmp")) /\ AppendData(work.file, work.manifest)
  \/ Fails("append tmp", "drop tmp")

\* Mutant of SyncTmp: the temporary file is not synced before the rename.
SyncTmp_Unsynced ==
  \/ Calls("sync tmp", WorkAt("close tmp")) /\ UNCHANGED <<dirs, files>>
  \/ Fails("sync tmp", "drop tmp")

SyncTmp ==
  \/ Calls("sync tmp", WorkAt("close tmp")) /\ Sync(work.file)
  \/ Fails("sync tmp", "drop tmp")

CloseTmp ==
  \/ /\ Calls("close tmp", WorkAt("rename"))
     /\ files' = [files EXCEPT ![work.file] = Flush(work.file)]
     /\ UNCHANGED dirs
  \/ Fails("close tmp", "drop tmp")

RenameFile ==
  \/ /\ Calls("rename", Applied("delete"))
     /\ Change([n \in DOMAIN Dir \ {Name("tmp", work.manifest)} |->
                  IF n = CURRENT THEN work.file ELSE Dir[n]])
     /\ UNCHANGED files
  \/ Fails("rename", "drop tmp")

DropTmp ==
  \/ /\ Calls("drop tmp", WorkAt("drop manifest"))
     /\ IF Name("tmp", work.manifest) \in DOMAIN Dir
        THEN Unlink(Name("tmp", work.manifest)) ELSE UNCHANGED <<dirs, files>>
  \/ Fails("drop tmp", "drop manifest")

(* DeleteObsoleteFiles: after a failure nothing is deleted any more. *)
Obsolete ==
  {n \in GetChildren : \/ n[1] = "table" /\ n[2] # work.table
                       \/ n[1] = "MANIFEST" /\ n[2] < work.manifest
                       \/ n[1] = "tmp"}

DeleteObsolete ==
  \/ Calls("delete", work) /\ \E n \in Obsolete : Unlink(n)
  \/ Obsolete = {} /\ Calls("delete", WorkAt("idle")) /\ UNCHANGED <<dirs, files>>
  \/ Fails("delete", "idle")

-----------------------------------------------------------------------------
(* The process dies: what was not written is gone. *)
ReadFileToString(name) == Seen(Dir[name])
Reopened ==
  LET m == ReadFileToString(CURRENT)[1]
  IN  Opened(Max(LiveTables(ReadFileToString(Name("MANIFEST", m)))), m)

ProcessDies ==
  /\ deaths < MaxDeaths /\ work.pc # "down" /\ DatabaseOpens
  /\ deaths' = deaths + 1
  /\ files' = [f \in DOMAIN files |-> [files[f] EXCEPT !.data = Seen(f)]]
  /\ work' = Reopened
  /\ UNCHANGED <<dirs, failedCalls>>

(* The machine dies: what is not on the disk is gone.  The database is     *)
(* opened when it comes back, unless it cannot be.                         *)
MachineDies ==
  /\ deaths < MaxDeaths /\ work.pc # "down"
  /\ deaths' = deaths + 1
  /\ \E i \in DOMAIN dirs : dirs' = <<dirs[i]>>
  /\ files' = [f \in DOMAIN files |->
                 [files[f] EXCEPT !.data = SubSeq(@, 1, files[f].synced),
                                  !.written = files[f].synced]]
  /\ work' = WorkAt("down")
  /\ UNCHANGED failedCalls

Reopen ==
  /\ work.pc = "down" /\ DatabaseOpens
  /\ work' = Reopened
  /\ UNCHANGED <<dirs, files, failedCalls, deaths>>

FilesNext ==
  \/ NewTable \/ AppendTable \/ SyncTable \/ CloseTable \/ DropTable
  \/ NewManifest \/ Snapshot \/ Record \/ SyncDirIfManifest \/ SyncManifest \/ DropManifest
  \/ NewTmp \/ AppendTmp \/ SyncTmp \/ CloseTmp \/ RenameFile \/ DropTmp \/ DeleteObsolete
  \/ WriteBack \/ ProcessDies \/ MachineDies \/ Reopen

FilesSpec == FilesInit /\ [][FilesNext]_filesVars

=============================================================================
