------------------------------- MODULE PosixEnv ------------------------------
(***************************************************************************)
(* Three parts of PosixEnv (util/env_posix.cc) that threads share, each    *)
(* with a state of its own: the queue of the background thread, the limits *)
(* on files kept open, and the lock on a database.  No two of them meet,   *)
(* and each has its Init and Next.                                         *)
(***************************************************************************)
EXTENDS Integers, Sequences, FiniteSets

CONSTANTS None,
          Databases, BGTHREAD,  \* the callers of Schedule
          MaxItems,             \* calls of Schedule
          Readers,              \* threads that open and delete files
          mmap_limit, open_read_only_file_limit, \* -1 unless a test helper set them
          PointerSize,          \* sizeof(void*)
          RLIMIT_NOFILE,        \* what getrlimit says: None when it fails
          RLIM_INFINITY, kMaxInt,
          MaxFiles,             \* files open at a time
          Processes,
          Lockers               \* threads that lock: pairs of a process and a number

-----------------------------------------------------------------------------
(* Databases Schedule work from their own threads, and work that runs      *)
(* schedules more work; one thread, created by the first call, runs it.    *)

VARIABLES mu_, started_bgthread_, queue_,
          call,            \* where a caller of Schedule is; BGTHREAD is one
          bg,              \* where BGThread is
          scheduled, ran   \* the items in the order of their calls, and as run

schedVars == <<mu_, started_bgthread_, queue_, call, bg, scheduled, ran>>
Callers == Databases \cup {BGTHREAD}

SchedInit ==
  /\ mu_ = None /\ started_bgthread_ = FALSE /\ queue_ = <<>>
  /\ call = [t \in Callers |-> "out"]
  /\ bg = "none"
  /\ scheduled = <<>> /\ ran = <<>>

CallMoves(t, here, there) == call[t] = here /\ call' = [call EXCEPT ![t] = there]

LockQueue(t) ==
  /\ Len(scheduled) + Cardinality({u \in Callers : call[u] \in {"locked", "started", "signalled"}})
       < MaxItems
  /\ t = BGTHREAD => bg = "run"
  /\ CallMoves(t, "out", "locked")
  /\ mu_ = None /\ mu_' = t
  /\ UNCHANGED <<started_bgthread_, queue_, bg, scheduled, ran>>

StartBGThread(t) ==
  /\ CallMoves(t, "locked", "started")
  /\ started_bgthread_' = TRUE
  /\ bg' = IF started_bgthread_ THEN bg ELSE "enter"
  /\ UNCHANGED <<mu_, queue_, scheduled, ran>>

(* pthread_cond_signal wakes a waiting thread, and is lost when none waits. *)
Signalled == IF bg = "waiting" THEN "woken" ELSE bg

Signal(t) ==
  /\ CallMoves(t, "started", "signalled")
  /\ bg' = IF queue_ = <<>> THEN Signalled ELSE bg
  /\ UNCHANGED <<mu_, started_bgthread_, queue_, scheduled, ran>>

Push(t) ==
  /\ CallMoves(t, "signalled", "pushed")
  /\ scheduled' = Append(scheduled, Len(scheduled) + 1)
  /\ queue_' = Append(queue_, Len(scheduled) + 1)
  /\ UNCHANGED <<mu_, started_bgthread_, bg, ran>>

UnlockQueue(t) ==
  /\ CallMoves(t, "pushed", "out")
  /\ mu_' = None
  /\ UNCHANGED <<started_bgthread_, queue_, bg, scheduled, ran>>

(* BGThread: the lock, and the wait, which may end without a signal. *)
BGLock ==
  /\ bg \in {"enter", "woken"} /\ mu_ = None
  /\ mu_' = BGTHREAD
  /\ bg' = "test"
  /\ UNCHANGED <<started_bgthread_, queue_, call, scheduled, ran>>

Wait ==
  /\ bg = "test" /\ queue_ = <<>>
  /\ bg' = "waiting" /\ mu_' = None
  /\ UNCHANGED <<started_bgthread_, queue_, call, scheduled, ran>>

SpuriousWakeup ==
  /\ bg = "waiting"
  /\ bg' = "woken"
  /\ UNCHANGED <<mu_, started_bgthread_, queue_, call, scheduled, ran>>

Pop ==
  /\ bg = "test" /\ queue_ # <<>>
  /\ ran' = Append(ran, Head(queue_))
  /\ queue_' = Tail(queue_)
  /\ bg' = "run" /\ mu_' = None
  /\ UNCHANGED <<started_bgthread_, call, scheduled>>

(* The function returns; it is not in the middle of a Schedule of its own. *)
Return ==
  /\ bg = "run" /\ call[BGTHREAD] = "out"
  /\ bg' = "enter"
  /\ UNCHANGED <<mu_, started_bgthread_, queue_, call, scheduled, ran>>

SchedNext ==
  \/ \E t \in Callers : LockQueue(t) \/ StartBGThread(t) \/ Signal(t) \/ Push(t) \/ UnlockQueue(t)
  \/ BGLock \/ Wait \/ SpuriousWakeup \/ Pop \/ Return

SchedSpec == SchedInit /\ [][SchedNext]_schedVars

(* No work is left lying: whenever nobody holds the mutex and the queue is *)
(* not empty, the background thread exists and is not asleep.  The signal  *)
(* precedes the push, and is sent only for an empty queue.                 *)
NoItemStranded == mu_ = None /\ queue_ # <<>> => bg \notin {"none", "waiting"}

(* Every item runs once, in the order of the calls.                        *)
RunsInOrder == ran \o queue_ = scheduled

-----------------------------------------------------------------------------
(* Files opened for random access: a file is mapped while fewer than       *)
(* MaxMmaps are, otherwise its descriptor is kept while fewer than         *)
(* MaxOpenFiles are, otherwise it is opened for every read.                *)

VARIABLES allowed,              \* allowed_ of mmap_limit_ and fd_limit_
          at,                   \* where a thread is
          mapped, kept, reopened   \* the objects: how many of each kind

readableVars == <<allowed, at, mapped, kept, reopened>>

(* No mappings on a small address space; a fifth of the descriptors. *)
MaxMmaps ==
  IF mmap_limit >= 0 THEN mmap_limit ELSE IF PointerSize >= 8 THEN 1000 ELSE 0
MaxOpenFiles ==
  IF open_read_only_file_limit >= 0 THEN open_read_only_file_limit
  ELSE CASE RLIMIT_NOFILE = None -> 50
         [] RLIMIT_NOFILE = RLIM_INFINITY -> kMaxInt
         [] OTHER -> RLIMIT_NOFILE \div 5

Limit == [mmap |-> MaxMmaps, fd |-> MaxOpenFiles]

ReadableInit ==
  /\ allowed = Limit
  /\ at = [t \in Readers |-> "out"]
  /\ mapped = 0 /\ kept = 0 /\ reopened = 0

Goes(t, here, there) == at[t] = here /\ at' = [at EXCEPT ![t] = there]
ObjectsSame == UNCHANGED <<mapped, kept, reopened>>

(* NewRandomAccessFile: open the file. *)
OpenFile(t) ==
  /\ mapped + kept + reopened + Cardinality({u \in Readers : at[u] # "out"}) < MaxFiles
  /\ Goes(t, "out", "peek_mmap")
  /\ UNCHANGED allowed /\ ObjectsSame

Peek(t, l, here, take, refused) ==
  /\ Goes(t, here, IF allowed[l] <= 0 THEN refused ELSE take)
  /\ UNCHANGED allowed /\ ObjectsSame

\* Mutant of Take: what was peeked at is trusted under the mutex.
Take_Trusting(t, l, here, got, refused) ==
  /\ Goes(t, here, got)
  /\ allowed' = [allowed EXCEPT ![l] = @ - 1]
  /\ ObjectsSame

(* Acquire under the mutex of the limiter: it looks again. *)
Take(t, l, here, got, refused) ==
  /\ Goes(t, here, IF allowed[l] <= 0 THEN refused ELSE got)
  /\ allowed' = [allowed EXCEPT ![l] = IF @ <= 0 THEN @ ELSE @ - 1]
  /\ ObjectsSame

PeekMmap(t) == Peek(t, "mmap", "peek_mmap", "take_mmap", "peek_fd")
TakeMmap(t) == Take(t, "mmap", "take_mmap", "map", "peek_fd")

(* The size of the file, or the mapping, may not be had. *)
Map(t) ==
  /\ \/ Goes(t, "map", "out") /\ mapped' = mapped + 1
     \/ Goes(t, "map", "release_mmap") /\ UNCHANGED mapped
  /\ UNCHANGED <<allowed, kept, reopened>>

(* PosixRandomAccessFile: the descriptor is kept, or closed. *)
PeekFd(t) == Peek(t, "fd", "peek_fd", "take_fd", "reopen")
TakeFd(t) == Take(t, "fd", "take_fd", "keep", "reopen")

Keep(t) ==
  /\ Goes(t, "keep", "out")
  /\ kept' = kept + 1
  /\ UNCHANGED <<allowed, mapped, reopened>>

Reopen(t) ==
  /\ Goes(t, "reopen", "out")
  /\ reopened' = reopened + 1
  /\ UNCHANGED <<allowed, mapped, kept>>

(* The destructors: the resource goes first, its unit after it. *)
Unmap(t) ==
  /\ mapped > 0
  /\ Goes(t, "out", "release_mmap")
  /\ mapped' = mapped - 1
  /\ UNCHANGED <<allowed, kept, reopened>>

CloseKept(t) ==
  /\ kept > 0
  /\ Goes(t, "out", "release_fd")
  /\ kept' = kept - 1
  /\ UNCHANGED <<allowed, mapped, reopened>>

CloseReopened(t) ==
  /\ reopened > 0
  /\ at[t] = "out"
  /\ reopened' = reopened - 1
  /\ UNCHANGED <<allowed, at, mapped, kept>>

Release(t, l, here) ==
  /\ Goes(t, here, "out")
  /\ allowed' = [allowed EXCEPT ![l] = @ + 1]
  /\ ObjectsSame

ReleaseMmap(t) == Release(t, "mmap", "release_mmap")
ReleaseFd(t) == Release(t, "fd", "release_fd")

ReadableNext ==
  \E t \in Readers :
    \/ OpenFile(t) \/ PeekMmap(t) \/ TakeMmap(t) \/ Map(t) \/ PeekFd(t) \/ TakeFd(t)
    \/ Keep(t) \/ Reopen(t) \/ Unmap(t) \/ CloseKept(t) \/ CloseReopened(t)
    \/ ReleaseMmap(t) \/ ReleaseFd(t)

ReadableSpec == ReadableInit /\ [][ReadableNext]_readableVars

(* The limits hold whatever the threads interleave, also while a file is   *)
(* being opened or deleted, and no unit leaks: when all threads are done,  *)
(* what may still be acquired is what the objects alive leave.             *)
LimitsRespected ==
  /\ mapped <= MaxMmaps /\ kept <= MaxOpenFiles
  /\ (\A t \in Readers : at[t] = "out") =>
       allowed = [mmap |-> MaxMmaps - mapped, fd |-> MaxOpenFiles - kept]

-----------------------------------------------------------------------------
(* LockFile and UnlockFile on the LOCK file of one database, by threads of *)
(* several processes.  Each process has a PosixLockTable; between processes*)
(* there is the record lock of fcntl, which belongs to a process and which *)
(* POSIX drops as soon as that process closes any descriptor of the file.  *)

VARIABLES owner,             \* the process that has the fcntl lock
          table,             \* locked_files_: whether a process's has LOCK
          step               \* where a thread is

lockVars == <<owner, table, step>>
Process(t) == t[1]

LockInit ==
  /\ owner = None
  /\ table = [p \in Processes |-> FALSE]
  /\ step = [t \in Lockers |-> "out"]

Moves(t, here, there) == step[t] = here /\ step' = [step EXCEPT ![t] = there]

(* What close does to the lock of the process. *)
Dropped(p) == IF owner = p THEN None ELSE owner

OpenLockFile(t) ==
  /\ Moves(t, "out", "opened")
  /\ UNCHANGED <<owner, table>>

Insert(t) ==
  /\ Moves(t, "opened", IF table[Process(t)] THEN "refused" ELSE "inserted")
  /\ table' = [table EXCEPT ![Process(t)] = TRUE]
  /\ UNCHANGED owner

CloseRefused(t) ==
  /\ Moves(t, "refused", "out")
  /\ owner' = Dropped(Process(t))
  /\ UNCHANGED table

(* fcntl: it conflicts with other processes only, and it may fail anyhow. *)
SetLock(t) ==
  /\ \/ /\ owner \in {None, Process(t)}
        /\ owner' = Process(t)
        /\ Moves(t, "inserted", "held")
     \/ /\ Moves(t, "inserted", "failed")
        /\ UNCHANGED owner
  /\ UNCHANGED table

CloseFailed(t) ==
  /\ Moves(t, "failed", "removing")
  /\ owner' = Dropped(Process(t))
  /\ UNCHANGED table

Remove(t, here, there) ==
  /\ Moves(t, here, there)
  /\ table' = [table EXCEPT ![Process(t)] = FALSE]
  /\ UNCHANGED owner

RemoveFailed(t) == Remove(t, "removing", "out")

UnlockHeld(t) ==
  /\ Moves(t, "held", "unlocked")
  /\ owner' = Dropped(Process(t))
  /\ UNCHANGED table

RemoveUnlocked(t) == Remove(t, "unlocked", "closing")

CloseUnlocked(t) ==
  /\ Moves(t, "closing", "out")
  /\ owner' = Dropped(Process(t))
  /\ UNCHANGED table

LockNext ==
  \E t \in Lockers :
    \/ OpenLockFile(t) \/ Insert(t) \/ CloseRefused(t) \/ SetLock(t) \/ CloseFailed(t)
    \/ RemoveFailed(t) \/ UnlockHeld(t) \/ RemoveUnlocked(t) \/ CloseUnlocked(t)

LockSpec == LockInit /\ [][LockNext]_lockVars

(* The comment on PosixLockTable: it protects against several uses in one  *)
(* process.                                                                *)
OneHolderPerProcess ==
  \A t, u \in Lockers : t # u /\ Process(t) = Process(u) => {step[t], step[u]} # {"held"}

(* What the three parts promise the threads that share a PosixEnv          *)
(* (util/env_posix.cc:54, 313, 610).                                       *)
EnvSharedSafely ==
  /\ NoItemStranded /\ RunsInOrder
  /\ LimitsRespected
  /\ OneHolderPerProcess

(* The threads, the limits and the locks of a process are as the code has  *)
(* them: None names no thread or process, the background thread is no      *)
(* database, and finitely many threads open files.                         *)
ASSUME EnvAssumption ==
  /\ None \notin Callers /\ BGTHREAD \notin Databases
  /\ IsFiniteSet(Readers)
  /\ MaxMmaps \in Nat /\ MaxOpenFiles \in Nat
  /\ \A t \in Lockers : Process(t) \in Processes

=============================================================================
