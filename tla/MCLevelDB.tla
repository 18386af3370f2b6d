----------------------------- MODULE MCLevelDB ------------------------------
(***************************************************************************)
(* LevelDB in one run: the levels, their repair, the memtable, and the     *)
(* environment.  part says which of them a behaviour is of; the variables  *)
(* of the others stay as they start.  LevelTree is explored under two      *)
(* configurations: files large enough for every compaction to write one,   *)
(* with clients that hold snapshots; and files of one entry, so that every *)
(* compaction splits its output, without snapshots.  SplitSpec is the      *)
(* combination in which two files of a level can share a user key.         *)
(***************************************************************************)
EXTENDS Repair, PosixEnv, MemTable

CONSTANTS Parts,            \* what a run explores
          Keys, SplitKeys   \* user keys of the two configurations

VARIABLES part,
          mem, files, tables, pointer, seeks, toCompact, snapshots, history, snapshotting

treeVars == <<mem, files, tables, pointer, seeks, toCompact, snapshots, history, snapshotting>>
envVars == <<schedVars, readableVars, lockVars>>

kNumLevels == 4
kL0_CompactionTrigger == 2
kMaxMemCompactLevel == 2
LevelBytes == 2
MinSeeks == 1
MaxSnapshots == 1

Snap == INSTANCE LevelTree WITH MaxFileSize <- 8, OverlapFactor <- 10, ExpandFactor <- 25,
          MaxSequence <- 3, MaxFiles <- 5, UseSnapshots <- {TRUE}
Split == INSTANCE LevelTree WITH MaxFileSize <- 1, OverlapFactor <- 1, ExpandFactor <- 5,
          MaxSequence <- 3, MaxFiles <- 6, UseSnapshots <- {FALSE}, Keys <- SplitKeys
SnapSplit == INSTANCE LevelTree WITH MaxFileSize <- 1, OverlapFactor <- 10, ExpandFactor <- 25,
          MaxSequence <- 4, MaxFiles <- 8, UseSnapshots <- {TRUE}

(* No test helper sets the limit on open files; two threads that lock are  *)
(* of one process, and one of another.                                     *)
Unset == -1
MCLockers == {<<1, 1>>, <<1, 2>>, <<2, 1>>}

\* An entry with an overly large sequence number (db/repair.cc:190).
MCGarbage == {InternalKey(1, 9, kTypeValue)}

-----------------------------------------------------------------------------
NoTree ==
  /\ mem = NULL /\ files = NULL /\ tables = NULL /\ pointer = NULL /\ seeks = NULL
  /\ toCompact = NULL /\ snapshots = NULL /\ history = NULL /\ snapshotting = NULL

NothingToRepair ==
  /\ dir = [logs |-> <<>>, tables |-> <<>>, manifests |-> {}, current |-> 0, tmp |-> NULL,
            edit |-> NULL]
  /\ lost = <<>> /\ rep = Start /\ began = {} /\ crashes = 0 /\ faults = 0

AllInit ==
  /\ part \in Parts
  /\ MemInit /\ SchedInit /\ ReadableInit /\ LockInit
  /\ \/ part = "snapshots" /\ Snap!Init /\ NothingToRepair
     \/ part = "split" /\ Split!Init /\ NothingToRepair
     \/ part = "both" /\ SnapSplit!Init /\ NothingToRepair
     \/ part = "repair" /\ NoTree /\ Init
     \/ part \in {"memtable", "schedule", "limits", "lock"} /\ NoTree /\ NothingToRepair

TreeNext ==
  \/ part = "snapshots" /\ Snap!Next
  \/ part = "split" /\ Split!Next
  \/ part = "both" /\ SnapSplit!Next

EnvNext ==
  \/ part = "schedule" /\ SchedNext /\ UNCHANGED <<readableVars, lockVars>>
  \/ part = "limits" /\ ReadableNext /\ UNCHANGED <<schedVars, lockVars>>
  \/ part = "lock" /\ LockNext /\ UNCHANGED <<schedVars, readableVars>>

AllNext ==
  /\ UNCHANGED part
  /\ \/ TreeNext /\ UNCHANGED <<vars, memVars, envVars>>
     \/ part = "repair" /\ Next /\ UNCHANGED <<treeVars, memVars, envVars>>
     \/ part = "memtable" /\ MemNext /\ UNCHANGED <<treeVars, vars, envVars>>
     \/ EnvNext /\ UNCHANGED <<treeVars, vars, memVars>>

AllSpec == AllInit /\ [][AllNext]_<<part, treeVars, vars, memVars, envVars>>

-----------------------------------------------------------------------------
(* Every read sees what the writes before it left, those under a snapshot  *)
(* what it covers, also with compactions that drop entries or split their  *)
(* output (db/version_set.cc:334, db/db_impl.cc:968).                      *)
ReadsSeeHistory ==
  /\ part = "snapshots" => Snap!ReadsSeeHistory
  /\ part = "split" => Split!ReadsSeeHistory

(* The files of a level below the first are disjoint, as FindFile needs    *)
(* (db/version_set.cc:723).                                                *)
LevelsDisjoint == part = "snapshots" => Snap!LevelsDisjoint

(* The versions of a user key grow older from level to level               *)
(* (db/version_set.cc:346).                                                *)
LevelsAgeDownwards == part = "both" => SnapSplit!LevelsAgeDownwards

=============================================================================
