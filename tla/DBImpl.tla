------------------------------- MODULE DBImpl -------------------------------
(***************************************************************************)
(* A leveldb database (db/db_impl.cc) with concurrent writers and readers, *)
(* its background thread, the files it keeps and their recovery.  Code     *)
(* that runs under mutex_ is one step; a step ends where the code unlocks, *)
(* waits, or has written to a file.  The files themselves are:             *)
(*   logs       records of each log file, and how many are synced          *)
(*   tables     entries of each finished table file                        *)
(*   manifests  edits of each MANIFEST, and how many are synced            *)
(*   current    the number of the MANIFEST that CURRENT names              *)
(***************************************************************************)
EXTENDS VersionSet

CONSTANTS Writers, Readers, Keys,
          BatchSizes,                 \* a batch of n puts the user keys 1 to n
          kL0_SlowdownWritesTrigger, kL0_StopWritesTrigger,
          WriteBufferSize,            \* options.write_buffer_size, in entries
          SmallBatch, LargeGroup,     \* 128K and 1M in BuildBatchGroup
          Faults,                     \* calls of Env that may fail
          MaxCalls, MaxRestarts, MaxFaults \* bounds of a behaviour

VARIABLES disk,      \* the files of the database
          vs,        \* versions_: the fields of VersionSet
          db,        \* the fields of DBImpl guarded by mutex_
          memtables, \* the entries of every memtable, by the number of its log
          bg,        \* the background thread
          writer,    \* the Writer of every writing thread
          reader,    \* the locals of Get in every reading thread
          ghost      \* what was promised to clients, and the bounds spent

vars == <<disk, vs, db, memtables, bg, writer, reader, ghost>>

IdleWriter == [pc |-> "idle"]
IdleReader == [pc |-> "idle"]
IdleBg == [pc |-> "idle"]
NoVersion == [files |-> EmptyFiles, pointer |-> [level \in Levels |-> NULL],
              next |-> 2, manifest |-> 0, last |-> 0, log |-> 0, toCompact |-> NULL]
Closed == [up |-> "down", mem |-> 0, imm |-> 0, logfile |-> 0, pending |-> {},
           queue |-> <<>>, waiting |-> {}, scheduled |-> FALSE, error |-> FALSE,
           shutting |-> FALSE]

Init ==
  /\ disk = [logs |-> <<>>, tables |-> <<>>, manifests |-> <<>>, current |-> 0]
  /\ vs = NoVersion
  /\ db = Closed
  /\ memtables = <<>>
  /\ bg = IdleBg
  /\ writer = [w \in Writers |-> IdleWriter]
  /\ reader = [r \in Readers |-> IdleReader]
  /\ ghost = [issued |-> {}, history |-> {}, acked |-> {}, durable |-> {},
              required |-> {}, created |-> FALSE,
              calls |-> 0, restarts |-> 0, faults |-> 0]

With(f, n, v) == [m \in DOMAIN f \cup {n} |-> IF m = n THEN v ELSE f[m]]
Without(f, S) == [m \in DOMAIN f \ S |-> f[m]]
EmptyFile == [recs |-> <<>>, synced |-> 0]
Appended(f, r) == [f EXCEPT !.recs = Append(@, r)]
Synced(f) == [f EXCEPT !.synced = Len(f.recs)]

Fault(kind) == /\ kind \in Faults /\ ghost.faults < MaxFaults
               /\ ghost' = [ghost EXCEPT !.faults = @ + 1]

(* A client calls the database. *)
Call == ghost.calls < MaxCalls /\ ghost' = [ghost EXCEPT !.calls = @ + 1]

-----------------------------------------------------------------------------
(* Shared pieces of DBImpl and VersionSet. *)

NumLevelFiles(level) == Cardinality(vs.files[level])

(* MaybeScheduleCompaction, on the new values of the fields. *)
MaybeSchedule(d, v) ==
  [d EXCEPT !.scheduled =
     @ \/ (/\ ~d.shutting /\ ~d.error
           /\ d.imm # 0 \/ NeedsCompaction(v.files, v.toCompact))]

(* bg_cv_.SignalAll() *)
SignalAll(d) == [d EXCEPT !.waiting = {}]

RecordBackgroundError(d) == IF d.error THEN d ELSE SignalAll([d EXCEPT !.error = TRUE])

(* AddLiveFiles: the tables of every version somebody references. *)
Base(b) == IF "base" \in DOMAIN b THEN {b.base} ELSE {}
Referenced(b) ==
  {reader[r].files : r \in {x \in Readers : reader[x].pc # "idle"}}
    \cup Base(b) \cup (IF "then" \in DOMAIN b THEN Base(b.then) ELSE {})
Versions(v, b) == {v.files} \cup Referenced(b)
TablesOf(files) == {f.number : f \in UNION {files[level] : level \in Levels}}
LiveTables(v, b) == UNION {TablesOf(files) : files \in Versions(v, b)}

\* Mutant of DeleteObsoleteFiles: only the current version keeps its tables.
DeleteObsoleteFiles_CurrentOnly(k, v, b, d) ==
  IF d.error THEN k
  ELSE [k EXCEPT
         !.logs = Without(@, {n \in DOMAIN @ : n < v.log}),
         !.tables = Without(@, DOMAIN @ \ (TablesOf(v.files) \cup d.pending)),
         !.manifests = Without(@, {n \in DOMAIN @ : n < v.manifest})]

DeleteObsoleteFiles(k, v, b, d) ==
  IF d.error THEN k
  ELSE [k EXCEPT
         !.logs = Without(@, {n \in DOMAIN @ : n < v.log}),
         !.tables = Without(@, DOMAIN @ \ (LiveTables(v, b) \cup d.pending)),
         !.manifests = Without(@, {n \in DOMAIN @ : n < v.manifest})]

(* What LogAndApply writes: the edit with the fields it fills in. *)
Filled(edit, v) ==
  [edit EXCEPT !.logNumber = IF @ = NULL THEN v.log ELSE @,
               !.prevLogNumber = 0, !.nextFile = v.next, !.lastSequence = v.last]

(* The version LogAndApply installs. *)
Installed(v, edit) ==
  [v EXCEPT !.files = SaveTo(@, <<edit>>), !.pointer = Pointers(@, <<edit>>),
            !.log = edit.logNumber, !.toCompact = NULL]

-----------------------------------------------------------------------------
(* DBImpl::Write. *)

BatchSize(b) == IF b = NULL THEN 0 ELSE Len(b)

Write(w, batch, sync) ==
  /\ db.up = "open" /\ ~db.shutting /\ writer[w].pc = "idle"
  /\ Call
  /\ writer' = [writer EXCEPT ![w] = [pc |-> "queued", batch |-> batch, sync |-> sync,
                                      delay |-> batch # NULL, force |-> batch = NULL]]
  /\ db' = [db EXCEPT !.queue = Append(@, w)]
  /\ UNCHANGED <<disk, vs, memtables, bg, reader>>

(* A NULL batch waits for the earlier writes and switches the memtable;   *)
(* what the client then waits for changes nothing.                         *)
TEST_CompactMemTable(w) == Write(w, NULL, FALSE)

AtFront(w) ==
  /\ db.queue # <<>> /\ Head(db.queue) = w
  /\ writer[w].pc = "queued" /\ w \notin db.waiting

(* The end of Write: the first n writers of the queue return. *)
Return(d, n) == [d EXCEPT !.queue = SubSeq(@, n + 1, Len(@))]
Returned(q, n) == [w \in Writers |-> IF \E i \in 1..n : q[i] = w THEN IdleWriter ELSE writer[w]]

(* The iterations of MakeRoomForWrite, in the order of its conditions. *)
RoomError(w) ==
  /\ AtFront(w) /\ db.error
  /\ db' = Return(db, 1)
  /\ writer' = Returned(db.queue, 1)
  /\ UNCHANGED <<disk, vs, memtables, bg, reader, ghost>>

Slow(w) == writer[w].delay /\ NumLevelFiles(0) >= kL0_SlowdownWritesTrigger

RoomDelay(w) ==
  /\ AtFront(w) /\ ~db.error /\ Slow(w)
  /\ writer' = [writer EXCEPT ![w].delay = FALSE]
  /\ UNCHANGED <<disk, vs, db, memtables, bg, reader, ghost>>

HasRoom(w) == ~writer[w].force /\ Cardinality(memtables[db.mem]) <= WriteBufferSize

RoomWait(w) ==
  /\ AtFront(w) /\ ~db.error /\ ~Slow(w) /\ ~HasRoom(w)
  /\ db.imm # 0 \/ NumLevelFiles(0) >= kL0_StopWritesTrigger
  /\ db' = [db EXCEPT !.waiting = @ \cup {w}]
  /\ UNCHANGED <<disk, vs, memtables, bg, writer, reader, ghost>>

MustSwitch(w) ==
  /\ AtFront(w) /\ ~db.error /\ ~Slow(w) /\ ~HasRoom(w)
  /\ db.imm = 0 /\ NumLevelFiles(0) < kL0_StopWritesTrigger

RoomSwitch(w) ==
  /\ MustSwitch(w)
  /\ LET d == [db EXCEPT !.imm = db.mem, !.mem = vs.next, !.logfile = vs.next]
     IN  db' = MaybeSchedule(d, vs)
  /\ disk' = [disk EXCEPT !.logs = With(@, vs.next, EmptyFile)]
  /\ memtables' = With(memtables, vs.next, {})
  /\ vs' = [vs EXCEPT !.next = @ + 1]
  /\ writer' = [writer EXCEPT ![w].force = FALSE]
  /\ UNCHANGED <<bg, reader, ghost>>

(* NewWritableFile failed: the number is given back and the write fails. *)
RoomNoFile(w) ==
  /\ MustSwitch(w) /\ Fault("newfile")
  /\ db' = Return(db, 1)
  /\ writer' = Returned(db.queue, 1)
  /\ UNCHANGED <<disk, vs, memtables, bg, reader>>

(* BuildBatchGroup: how many writers the one at the front writes for. *)
GroupBytes(n) == MapThenSumSet(LAMBDA i : BatchSize(writer[db.queue[i]].batch), 1..n)
GroupSize ==
  LET first == writer[Head(db.queue)]
      limit == IF Len(first.batch) <= SmallBatch THEN Len(first.batch) + SmallBatch
               ELSE LargeGroup
      joins(i) == LET w == writer[db.queue[i]]
                  IN  /\ w.sync => first.sync
                      /\ w.batch # NULL => GroupBytes(i) <= limit
  IN  Max({n \in DOMAIN db.queue : \A i \in 2..n : joins(i)})

(* The entries of the first n writers, numbered from seq on. *)
GroupEntries(n, seq) ==
  LET batch(i) == writer[db.queue[i]].batch
      keys == FlattenSeq([i \in 1..n |-> IF batch(i) = NULL THEN <<>> ELSE batch(i)])
  IN  {InternalKey(keys[i], seq + i - 1, kTypeValue) : i \in DOMAIN keys}

(* The promises made to those writers, once they return without error. *)
EntriesOf(n, S) ==
  UNION {GroupEntries(i, vs.last + 1) \ GroupEntries(i - 1, vs.last + 1) :
           i \in {j \in 1..n : writer[db.queue[j]].sync \in S}}

BeginGroup(w) ==
  /\ AtFront(w) /\ ~db.error /\ ~Slow(w) /\ HasRoom(w)
  /\ IF writer[w].batch = NULL
     THEN /\ db' = Return(db, 1)
          /\ writer' = Returned(db.queue, 1)
     ELSE /\ writer' = [writer EXCEPT ![w] = [@ EXCEPT !.pc = "append"] @@ [group |-> GroupSize]]
          /\ db' = db
  /\ UNCHANGED <<disk, vs, memtables, bg, reader, ghost>>

Group(w) == GroupEntries(writer[w].group, vs.last + 1)

(* log_->AddRecord(...) *)
AppendLog(w) ==
  /\ writer[w].pc = "append"
  /\ disk' = [disk EXCEPT !.logs[db.logfile] = Appended(@, Group(w))]
  /\ writer' = [writer EXCEPT ![w].pc = IF writer[w].sync THEN "sync" ELSE "insert"]
  /\ ghost' = [ghost EXCEPT !.issued = @ \cup Group(w)]
  /\ UNCHANGED <<vs, db, memtables, bg, reader>>

(* AddRecord failed: nothing of the record was written, or the log is left *)
(* with a torn record.                                                     *)
AppendFails(w) ==
  /\ writer[w].pc = "append"
  /\ \/ Fault("append") /\ UNCHANGED disk
     \/ Fault("torn") /\ disk' = [disk EXCEPT !.logs[db.logfile] = Appended(@, {})]
  /\ writer' = [writer EXCEPT ![w].pc = "failed"]
  /\ UNCHANGED <<vs, db, memtables, bg, reader>>

(* logfile_->Sync() *)
SyncLog(w) ==
  /\ writer[w].pc = "sync"
  /\ disk' = [disk EXCEPT !.logs[db.logfile] = Synced(@)]
  /\ writer' = [writer EXCEPT ![w].pc = "insert"]
  /\ UNCHANGED <<vs, db, memtables, bg, reader, ghost>>

SyncFails(w) ==
  /\ writer[w].pc = "sync" /\ Fault("sync")
  /\ writer' = [writer EXCEPT ![w].pc = "syncerror"]
  /\ UNCHANGED <<disk, vs, db, memtables, bg, reader>>

(* WriteBatchInternal::InsertInto, without the mutex. *)
InsertMem(w) ==
  /\ writer[w].pc = "insert"
  /\ memtables' = [memtables EXCEPT ![db.mem] = @ \cup Group(w)]
  /\ writer' = [writer EXCEPT ![w].pc = "finish"]
  /\ UNCHANGED <<disk, vs, db, bg, reader, ghost>>

(* Back under the mutex: the sequence advances, error or not, and every    *)
(* writer of the group returns.                                            *)
EndGroup(w) ==
  /\ writer[w].pc \in {"finish", "failed", "syncerror"}
  /\ LET n == writer[w].group
         d == IF writer[w].pc = "syncerror" THEN RecordBackgroundError(db) ELSE db
     IN  /\ vs' = [vs EXCEPT !.last = @ + Cardinality(Group(w))]
         /\ db' = Return(d, n)
         /\ writer' = Returned(db.queue, n)
         /\ ghost' = IF writer[w].pc # "finish" THEN ghost
                     ELSE [ghost EXCEPT !.history = @ \cup Group(w),
                                        !.acked = @ \cup Group(w),
                                        !.durable = @ \cup EntriesOf(n, {TRUE})]
  /\ UNCHANGED <<disk, memtables, bg, reader>>

-----------------------------------------------------------------------------
(* The background thread. *)

\* Mutant of EndCall: the writers that wait for room are not woken.
EndCall_NoSignal(d, v) == MaybeSchedule([d EXCEPT !.scheduled = FALSE], v)

(* The end of BackgroundCall: reschedule, and wake the waiting writers.    *)
EndCall(d, v) == SignalAll(MaybeSchedule([d EXCEPT !.scheduled = FALSE], v))

(* WriteLevel0Table(imm_): allocate a number and leave the mutex. then is  *)
(* what follows CompactMemTable.                                           *)
FlushStart(then) ==
  /\ bg' = [pc |-> "flush", number |-> vs.next, base |-> vs.files, then |-> then]
  /\ vs' = [vs EXCEPT !.next = @ + 1]
  /\ db' = [db EXCEPT !.pending = @ \cup {vs.next}]

CompactionState(c, base, outs) ==
  [pc |-> "work", c |-> c, base |-> base, outs |-> outs, outputs |-> {}]

BackgroundCall ==
  /\ bg.pc = "idle" /\ db.scheduled
  /\ IF db.shutting \/ db.error
     THEN db' = EndCall(db, vs) /\ UNCHANGED <<vs, bg>>
     ELSE IF db.imm # 0 THEN FlushStart(IdleBg)
     ELSE \E c \in {PickCompaction(vs.files, vs.pointer, vs.toCompact)} :
              IF c = NULL THEN db' = EndCall(db, vs) /\ UNCHANGED <<vs, bg>>
              ELSE /\ vs' = [vs EXCEPT !.pointer[c.level] = c.pointer]
                   /\ db' = db
                   /\ bg' = IF IsTrivialMove(c)
                            THEN [pc |-> "log", edit |-> Filled(TrivialMoveEdit(c), vs),
                                  base |-> vs.files, outputs |-> {}, kind |-> "move"]
                            ELSE CompactionState(c, vs.files,
                                   CompactedTables(c, vs.files, disk.tables, vs.last))
  /\ UNCHANGED <<disk, memtables, writer, reader, ghost>>

(* The rest of BackgroundCall, or of the compaction the flush interrupted. *)
Resume(then, d) == IF then.pc = "idle" THEN EndCall(d, vs) ELSE SignalAll(d)

FlushAborts ==
  /\ db' = Resume(bg.then, RecordBackgroundError([db EXCEPT !.pending = @ \ {bg.number}]))
  /\ bg' = bg.then

\* Mutant of FlushEdit: the edit leaves the log in use behind.
FlushEdit_NextLog(entries) ==
  LET edit == [NoEdit EXCEPT !.logNumber = db.logfile + 1]
      level(f) == PickLevelForMemTableOutput(bg.base, f.smallest.user, f.largest.user)
  IN  IF entries = {} THEN edit
      ELSE Once(File(bg.number, entries), LAMBDA f : AddFile(edit, level(f), f))

FlushEdit(entries) ==
  LET edit == [NoEdit EXCEPT !.logNumber = db.logfile]
      level(f) == PickLevelForMemTableOutput(bg.base, f.smallest.user, f.largest.user)
  IN  IF entries = {} THEN edit
      ELSE Once(File(bg.number, entries), LAMBDA f : AddFile(edit, level(f), f))

(* BuildTable writes, syncs and closes the file; back under the mutex      *)
(* CompactMemTable picks its level and enters LogAndApply, unless the      *)
(* database is closing.                                                    *)
FlushBuild ==
  /\ bg.pc = "flush"
  /\ disk' = IF memtables[db.imm] = {} THEN disk
             ELSE [disk EXCEPT !.tables = With(@, bg.number, memtables[db.imm])]
  /\ IF db.shutting THEN FlushAborts
     ELSE \E edit \in {FlushEdit(memtables[db.imm])} :
            /\ db' = [db EXCEPT !.pending = @ \ {bg.number}]
            /\ bg' = [pc |-> "log", base |-> vs.files, kind |-> "flush", then |-> bg.then,
                      edit |-> Filled(edit, vs)]
  /\ UNCHANGED <<vs, memtables, writer, reader, ghost>>

FlushFails ==
  /\ bg.pc = "flush" /\ Fault("table")
  /\ FlushAborts
  /\ UNCHANGED <<disk, vs, memtables, writer, reader>>

(* An iteration of DoCompactionWork that finds an immutable memtable. *)
WorkFlush ==
  /\ bg.pc = "work" /\ ~db.shutting /\ db.imm # 0
  /\ FlushStart(bg)
  /\ UNCHANGED <<disk, memtables, writer, reader, ghost>>

(* OpenCompactionOutputFile, then the entries up to FinishCompactionOutputFile. *)
WorkOpen ==
  /\ bg.pc = "work" /\ ~db.shutting /\ bg.outs # <<>>
  /\ bg' = [bg EXCEPT !.pc = "build"] @@ [number |-> vs.next]
  /\ vs' = [vs EXCEPT !.next = @ + 1]
  /\ db' = [db EXCEPT !.pending = @ \cup {vs.next}]
  /\ UNCHANGED <<disk, memtables, writer, reader, ghost>>

WorkBuild ==
  /\ bg.pc = "build"
  /\ disk' = [disk EXCEPT !.tables = With(@, bg.number, Head(bg.outs))]
  /\ bg' = [CompactionState(bg.c, bg.base, Tail(bg.outs)) EXCEPT
             !.outputs = bg.outputs \cup {File(bg.number, Head(bg.outs))}]
  /\ UNCHANGED <<vs, db, memtables, writer, reader, ghost>>

(* The compaction ends without a result: CleanupCompaction, then           *)
(* DeleteObsoleteFiles, which an error stops.                              *)
GiveUp(b) ==
  db' = EndCall(RecordBackgroundError(
                  [db EXCEPT !.pending = @ \ ({f.number : f \in b.outputs}
                                               \cup (IF "number" \in DOMAIN b THEN {b.number} ELSE {}))]), vs)

WorkFails ==
  /\ \/ bg.pc = "build" /\ Fault("table")
     \/ bg.pc = "work" /\ db.shutting /\ UNCHANGED ghost
  /\ GiveUp(bg)
  /\ bg' = IdleBg
  /\ UNCHANGED <<disk, vs, memtables, writer, reader>>

(* InstallCompactionResults enters LogAndApply. *)
WorkInstall ==
  /\ bg.pc = "work" /\ ~db.shutting /\ bg.outs = <<>>
  /\ bg' = [pc |-> "log", base |-> bg.base, kind |-> "compaction", outputs |-> bg.outputs,
            edit |-> Filled(InstallEdit(bg.c, bg.outputs), vs)]
  /\ UNCHANGED <<disk, vs, db, memtables, writer, reader, ghost>>

(* LogAndApply, without the mutex: the record, then the sync. *)
AppendEdit ==
  /\ bg.pc = "log"
  /\ disk' = [disk EXCEPT !.manifests[vs.manifest] = Appended(@, bg.edit)]
  /\ bg' = [bg EXCEPT !.pc = "logsync"]
  /\ UNCHANGED <<vs, db, memtables, writer, reader, ghost>>

SyncEdit ==
  /\ bg.pc = "logsync"
  /\ disk' = [disk EXCEPT !.manifests[vs.manifest] = Synced(@)]
  /\ bg' = [bg EXCEPT !.pc = "install"]
  /\ UNCHANGED <<vs, db, memtables, writer, reader, ghost>>

(* LogAndApply back under the mutex installs the version; then             *)
(* CompactMemTable or BackgroundCompaction finishes.                       *)
InstallVersion ==
  /\ bg.pc = "install"
  /\ LET then == IF bg.kind = "flush" THEN bg.then ELSE IdleBg
         d == IF bg.kind = "flush" THEN [db EXCEPT !.imm = 0]
              ELSE [db EXCEPT !.pending = @ \ {f.number : f \in bg.outputs}]
     IN  \E v \in {Installed(vs, bg.edit)} :
           /\ vs' = v
           /\ disk' = IF bg.kind = "move" THEN disk ELSE DeleteObsoleteFiles(disk, v, then, d)
           /\ db' = IF then.pc = "idle" THEN EndCall(d, v) ELSE SignalAll(d)
           /\ bg' = then
  /\ UNCHANGED <<memtables, writer, reader, ghost>>

SyncEditFails ==
  /\ bg.pc = "logsync" /\ Fault("manifest")
  /\ bg' = IF bg.kind = "flush" THEN bg.then ELSE IdleBg
  /\ IF bg.kind = "flush" THEN db' = Resume(bg.then, RecordBackgroundError(db))
     ELSE GiveUp(bg)
  /\ UNCHANGED <<disk, vs, memtables, writer, reader>>

-----------------------------------------------------------------------------
(* DBImpl::Get: the state to read is captured under the mutex and read     *)
(* without it.  An iterator captures the same (NewInternalIterator).       *)

GetBegin(r, u) ==
  /\ db.up = "open" /\ reader[r].pc = "idle" /\ Call
  /\ reader' = [reader EXCEPT ![r] = [pc |-> "reading", user |-> u, seq |-> vs.last,
                                      mem |-> db.mem, imm |-> db.imm, files |-> vs.files]]
  /\ UNCHANGED <<disk, vs, db, memtables, bg, writer>>

\* Mutant of Lookup: the immutable memtable is searched first.
Lookup_ImmFirst(mem, imm, files, u, s) ==
  LET k == LookupKey(u, s)
      m == TableGet(memtables[mem], k)
      i == IF imm = 0 THEN NULL ELSE TableGet(memtables[imm], k)
  IN  IF i # NULL THEN i ELSE IF m # NULL THEN m
      ELSE VersionGet(files, disk.tables, u, s).entry

Lookup(mem, imm, files, u, s) ==
  LET k == LookupKey(u, s)
      m == TableGet(memtables[mem], k)
      i == IF imm = 0 THEN NULL ELSE TableGet(memtables[imm], k)
  IN  IF m # NULL THEN m ELSE IF i # NULL THEN i
      ELSE VersionGet(files, disk.tables, u, s).entry

\* Mutant of GetRead: the memtables are taken again without the mutex.
GetRead_CurrentMemtables(r) ==
  /\ reader[r].pc = "reading"
  /\ reader' = [reader EXCEPT ![r] =
       [@ EXCEPT !.pc = "done"] @@ [result |-> Lookup(db.mem, db.imm, @.files, @.user, @.seq)]]
  /\ UNCHANGED <<disk, vs, db, memtables, bg, writer, ghost>>

GetRead(r) ==
  /\ reader[r].pc = "reading"
  /\ reader' = [reader EXCEPT ![r] =
       [@ EXCEPT !.pc = "done"] @@ [result |-> Lookup(@.mem, @.imm, @.files, @.user, @.seq)]]
  /\ UNCHANGED <<disk, vs, db, memtables, bg, writer, ghost>>

GetEnd(r) ==
  /\ reader[r].pc = "done"
  /\ reader' = [reader EXCEPT ![r] = IdleReader]
  /\ UNCHANGED <<disk, vs, db, memtables, bg, writer, ghost>>

-----------------------------------------------------------------------------
(* Opening, closing and crashing. *)

(* DBImpl::NewDB: MANIFEST 1 is written and closed, not synced, and CURRENT *)
(* made to name it.                                                        *)
NewDB ==
  /\ db.up = "down" /\ disk.current = 0
  /\ disk' = [disk EXCEPT
       !.manifests = With(@, 1, Appended(EmptyFile,
          [NoEdit EXCEPT !.logNumber = 0, !.nextFile = 2, !.lastSequence = 0])),
       !.current = 1]
  /\ UNCHANGED <<vs, db, memtables, bg, writer, reader, ghost>>

(* VersionSet::Recover: the version the records of a MANIFEST describe. *)
Described(edits) ==
  LET last(Field(_)) ==
        LET set == {i \in DOMAIN edits : Field(edits[i]) # NULL}
        IN  IF set = {} THEN 0 ELSE Field(edits[Max(set)])
  IN  [files |-> SaveTo(EmptyFiles, edits), pointer |-> Pointers(NoVersion.pointer, edits),
       toCompact |-> NULL,
       next |-> last(LAMBDA e : e.nextFile) + 1, manifest |-> last(LAMBDA e : e.nextFile),
       last |-> last(LAMBDA e : e.lastSequence), log |-> last(LAMBDA e : e.logNumber)]

LogsToReplay(k, v) == {n \in DOMAIN k.logs : n >= v.log}

(* RecoverLogFile: the memtables its records fill, each to be a table.  A  *)
(* torn record hides those after it in its block.                          *)
Readable(recs) ==
  {i \in DOMAIN recs : \A j \in 1..i : recs[j] # {}}
Replayed(recs) ==
  LET step(acc, i) ==
        IF Cardinality(acc[1] \cup recs[i]) > WriteBufferSize
        THEN <<{}, Append(acc[2], acc[1] \cup recs[i])>>
        ELSE <<acc[1] \cup recs[i], acc[2]>>
  IN  Once(Accumulate(step, <<{}, <<>>>>, [i \in 1..Cardinality(Readable(recs)) |-> i]),
           LAMBDA end : IF end[1] = {} THEN end[2] ELSE Append(end[2], end[1]))

(* The tables made from the logs in order of their numbers, with the       *)
(* numbers they get: WriteLevel0Table takes the next number, and each log  *)
(* then marks its own as used.                                             *)
FromLogs(k, v) ==
  LET step(acc, n) ==
        Once(Replayed(k.logs[n].recs), LAMBDA made :
          [next |-> Max({acc.next + Len(made), n + 1}),
           tables |-> acc.tables \cup {<<acc.next + i - 1, made[i]>> : i \in DOMAIN made}])
  IN  Accumulate(step, [next |-> v.next, tables |-> {}], Sorted(LogsToReplay(k, v), <))

(* DBImpl::Recover, up to the new log file that DB::Open creates. *)
Corrupt(k, edits, v) == edits = <<>> \/ ~(TablesOf(v.files) \subseteq DOMAIN k.tables)

Recover ==
  /\ db.up = "down" /\ disk.current # 0
  /\ \E edits \in {disk.manifests[disk.current].recs} : \E v \in {Described(edits)} :
     \E made \in {FromLogs(disk, v)} :
       IF Corrupt(disk, edits, v)
       THEN db' = [db EXCEPT !.up = "corrupt"] /\ UNCHANGED <<disk, vs, memtables, bg>>
       ELSE /\ vs' = [v EXCEPT
                 !.next = made.next + 1,
                 !.last = Max({@} \cup {e.seq : e \in UNION {t[2] : t \in made.tables}})]
            /\ db' = [db EXCEPT !.up = "opening", !.mem = made.next, !.logfile = made.next]
            /\ memtables' = With(<<>>, made.next, {})
            /\ disk' = [disk EXCEPT
                 !.tables = [n \in {t[1] : t \in made.tables} |->
                               (CHOOSE t \in made.tables : t[1] = n)[2]] @@ @,
                 !.logs = With(@, made.next, EmptyFile)]
            /\ bg' = [pc |-> "open",
                      edit |-> [NoEdit EXCEPT
                        !.added = {<<0, File(t[1], t[2])>> : t \in made.tables},
                        !.logNumber = made.next]]
  /\ UNCHANGED <<writer, reader, ghost>>

(* The first LogAndApply: a new MANIFEST with the whole version and the    *)
(* edit of the recovery ...                                                *)
OpenManifest ==
  /\ bg.pc = "open"
  /\ LET edit == Filled(bg.edit, vs)
     IN  /\ disk' = [disk EXCEPT !.manifests =
              With(@, vs.manifest, [EmptyFile EXCEPT
                     !.recs = <<WriteSnapshot(vs.files, vs.pointer), edit>>])]
         /\ bg' = [pc |-> "opensync", edit |-> edit]
  /\ UNCHANGED <<vs, db, memtables, writer, reader, ghost>>

\* Mutant of OpenSync: the new MANIFEST is not synced.
OpenSync_Unsynced ==
  /\ bg.pc = "opensync"
  /\ bg' = [bg EXCEPT !.pc = "opencurrent"]
  /\ UNCHANGED <<disk, vs, db, memtables, writer, reader, ghost>>

OpenSync ==
  /\ bg.pc = "opensync"
  /\ disk' = [disk EXCEPT !.manifests[vs.manifest] = Synced(@)]
  /\ bg' = [bg EXCEPT !.pc = "opencurrent"]
  /\ UNCHANGED <<vs, db, memtables, writer, reader, ghost>>

(* ... and SetCurrentFile, which writes a temporary file and renames it.   *)
OpenCurrent ==
  /\ bg.pc = "opencurrent"
  /\ disk' = [disk EXCEPT !.current = vs.manifest]
  /\ bg' = [bg EXCEPT !.pc = "openend"]
  /\ UNCHANGED <<vs, db, memtables, writer, reader, ghost>>

OpenEnd ==
  /\ bg.pc = "openend"
  /\ \E v \in {Installed(vs, bg.edit)} :
       /\ vs' = v
       /\ disk' = DeleteObsoleteFiles(disk, v, IdleBg, db)
       /\ db' = MaybeSchedule([db EXCEPT !.up = "open"], v)
  /\ bg' = IdleBg
  /\ ghost' = [ghost EXCEPT !.created = TRUE]
  /\ UNCHANGED <<memtables, writer, reader>>

(* The entries a recovery of the files would find. *)
Recoverable(k) ==
  LET found(v) ==
        UNION {k.tables[n] : n \in TablesOf(v.files) \cap DOMAIN k.tables}
          \cup UNION {UNION {k.logs[n].recs[i] : i \in Readable(k.logs[n].recs)} :
                        n \in LogsToReplay(k, v)}
  IN  IF k.current \notin DOMAIN k.manifests THEN {}
      ELSE Once(Described(k.manifests[k.current].recs), found)

Restart(k, required) ==
  /\ ghost.restarts < MaxRestarts
  /\ disk' = k
  /\ vs' = NoVersion /\ db' = Closed /\ memtables' = <<>> /\ bg' = IdleBg
  /\ writer' = [w \in Writers |-> IdleWriter]
  /\ reader' = [r \in Readers |-> IdleReader]
  /\ ghost' = [ghost EXCEPT !.restarts = @ + 1, !.required = required,
                            !.history = Recoverable(k), !.issued = Recoverable(k),
                            !.acked = @ \cap Recoverable(k),
                            !.durable = @ \cap Recoverable(k)]

(* Process crash: what was handed to the operating system stays. *)
ProcessCrash ==
  /\ db.up # "down"
  /\ Restart(disk, ghost.acked)

(* Machine crash: each file keeps what was synced and any part of the      *)
(* rest.                                                                   *)
Cut(files) ==
  LET unsynced == {n \in DOMAIN files : files[n].synced < Len(files[n].recs)}
      longest == IF unsynced = {} THEN 0 ELSE Max({Len(files[n].recs) : n \in unsynced})
      cuts == {c \in [unsynced -> 0..longest] :
                 \A n \in unsynced : files[n].synced <= c[n] /\ c[n] <= Len(files[n].recs)}
  IN  {[n \in DOMAIN files |->
          IF n \in unsynced THEN [recs |-> SubSeq(files[n].recs, 1, c[n]), synced |-> c[n]]
          ELSE files[n]] : c \in cuts}

MachineCrash ==
  /\ db.up # "down"
  /\ \E logs \in Cut(disk.logs), manifests \in Cut(disk.manifests) :
       Restart([disk EXCEPT !.logs = logs, !.manifests = manifests], ghost.durable)

(* ~DBImpl, which a client calls with no other call in progress: wait for  *)
(* the background thread, then close the files.                            *)
CloseBegin ==
  /\ db.up = "open" /\ ~db.shutting
  /\ ghost.restarts < MaxRestarts
  /\ \A w \in Writers : writer[w].pc = "idle"
  /\ \A r \in Readers : reader[r].pc = "idle"
  /\ db' = [db EXCEPT !.shutting = TRUE]
  /\ UNCHANGED <<disk, vs, memtables, bg, writer, reader, ghost>>

CloseEnd ==
  /\ db.shutting /\ ~db.scheduled /\ bg.pc = "idle"
  /\ Restart(disk, ghost.acked)

-----------------------------------------------------------------------------
WriterStep(w) ==
  \/ RoomError(w) \/ RoomDelay(w) \/ RoomWait(w) \/ RoomSwitch(w) \/ RoomNoFile(w)
  \/ BeginGroup(w) \/ AppendLog(w) \/ AppendFails(w) \/ SyncLog(w) \/ SyncFails(w)
  \/ InsertMem(w) \/ EndGroup(w)

BackgroundStep ==
  \/ BackgroundCall \/ FlushBuild \/ FlushFails \/ WorkFlush \/ WorkOpen \/ WorkBuild
  \/ WorkFails \/ WorkInstall \/ AppendEdit \/ SyncEdit \/ SyncEditFails \/ InstallVersion

Opening == {"open", "opensync", "opencurrent", "openend"}
OpenStep == NewDB \/ Recover \/ OpenManifest \/ OpenSync \/ OpenCurrent \/ OpenEnd

Batches == {[i \in 1..n |-> i] : n \in BatchSizes}

Next ==
  \/ \E w \in Writers, batch \in Batches, sync \in BOOLEAN : Write(w, batch, sync)
  \/ \E w \in Writers : TEST_CompactMemTable(w) \/ WriterStep(w)
  \/ BackgroundStep
  \/ \E r \in Readers, u \in Keys : GetBegin(r, u)
  \/ \E r \in Readers : GetRead(r) \/ GetEnd(r)
  \/ OpenStep
  \/ ProcessCrash \/ MachineCrash
  \/ CloseBegin \/ CloseEnd

Spec == Init /\ [][Next]_vars

(* A thread that can run does run: WF_vars(WriterStep(w)) and              *)
(* WF_vars(BackgroundStep), with the states in which the step is disabled  *)
(* written out.  Nothing is assumed of a client, a crash or a fault.       *)
WriterBlocked(w) ==
  \/ writer[w].pc = "idle" \/ w \in db.waiting
  \/ writer[w].pc = "queued" /\ Head(db.queue) # w
BackgroundBlocked == bg.pc \in Opening \/ (bg.pc = "idle" /\ ~db.scheduled)

FairSpec ==
  /\ Spec
  /\ \A w \in Writers : ([]<>WriterBlocked(w) \/ []<><<WriterStep(w)>>_vars)
  /\ ([]<>BackgroundBlocked \/ []<><<BackgroundStep>>_vars)

-----------------------------------------------------------------------------
NewestFor(S, u) ==
  LET mine == {e \in S : e.user = u} IN IF mine = {} THEN NULL ELSE Least(mine, Before)

(* Whatever is in the memtables, being flushed or being compacted, a read  *)
(* at the last sequence finds the newest write that returned without error *)
(* (db/db_impl.cc:1109, 1250).                                             *)
ReadsSeeHistory ==
  db.up = "open" =>
    \A u \in Keys : Lookup(db.mem, db.imm, vs.files, u, vs.last) = NewestFor(ghost.history, u)

(* A Get returns the newest write its snapshot sees, though writers,       *)
(* flushes and deletions of files ran since it captured its state          *)
(* (db/db_impl.cc:1109).                                                   *)
GetSeesSnapshot ==
  \A r \in Readers :
    reader[r].pc = "done" =>
      reader[r].result = NewestFor({e \in ghost.history : e.seq <= reader[r].seq},
                                   reader[r].user)

(* A file somebody may still read is on disk: the tables of every version  *)
(* in use, the logs of the memtables, the manifest that CURRENT names      *)
(* (db/db_impl.cc:223, DeleteObsoleteFiles).                               *)
LiveFilesExist ==
  db.up = "open" =>
    /\ LiveTables(vs, bg) \subseteq DOMAIN disk.tables
    /\ {db.mem, db.imm} \ {0} \subseteq DOMAIN disk.logs
    /\ disk.current = vs.manifest /\ vs.manifest \in DOMAIN disk.manifests

(* A restart finds every write it was promised: after a crash of the       *)
(* process or a close, each that returned; after a crash of the machine,   *)
(* each that was synced (include/leveldb/options.h:181).  A later write to *)
(* the key may stand for it.                                               *)
PromisedWritesSurvive ==
  \A e \in ghost.required :
    \E f \in Recoverable(disk) : f.user = e.user /\ f.seq >= e.seq

(* Once a database has been opened, the files that a crash leaves can be   *)
(* opened again (db/db_impl.cc:281).                                       *)
ReopensOnceCreated == ghost.created => db.up # "corrupt"

(* A write that has been queued returns, or its process dies: it is woken  *)
(* whenever the background thread makes room (db/db_impl.cc:1316).         *)
WritesReturn ==
  \A w \in Writers : writer[w].pc = "queued" ~> writer[w].pc = "idle"

=============================================================================
