# Verification of the SFSU course programs

The repository holds the programs of several courses: small C programs with
threads and processes, simulators of a cache and of branch prediction, two Java
games, three iOS apps and a database. One of the apps, FoodHaus, brings the
libraries of Firebase along in source: LevelDB, a database that keeps its data in
files, and nanopb, an encoder of messages. They are more than half of the code
that keeps state, and the only parts that are built to survive failures. The
programs are independent, so this project is a family of specifications, one for
each program or library part, and not one large system. Each has a module that is
translated from its source, an abstract specification where it promises
something that can be stated without its data structures, runs of TLC on small
instances, and, for the course programs and two parts of LevelDB, proofs with TLAPS for all instances.

Contents: [inventory](#1-inventory), [plan](#2-plan),
[the modules](#3-the-modules-and-the-code), [the runs](#4-the-runs),
[fairness](#5-fairness), [the proofs](#6-the-proofs),
[findings](#7-findings), [what is not modelled](#8-what-is-not-modelled).

## 1. Inventory

| Component | State | Operations | What is hard in it | Specification |
|---|---|---|---|---|
| Bounded buffer (`Operating System/Assignment5/ProConCode.c`) | ring of 16 slots, `in`, `out`, semaphores `empty` and `full`, a mutex, each thread's loop | `main` creates and joins; `producer`, `consumer` | any number of threads over one ring; a quota per consumer that drops the remainder | `ProConCode`, `BoundedBuffer` |
| Character census (`Assignment3/ASCIICount.c`; `Assignment4/ASCIICount2.c`, `ASCIICountS.c`) | the file in a buffer, sections, counters private or shared, a mutex in one version | open, partition, create, `runner`, join, add, print | a data race in one version; boundaries of the sections | `CountingThreads`, `ASCIICount`, `ASCIICount2`, `ASCIICountS` |
| Cache simulators (`Computer Organization/Project 2`) | entries with valid, dirty, last use and tag; statistics | one line of a trace | sentinels, LRU by counters, write-back accounting, exceptions | `SetAssocCache`, `DirectCache`, `LRUCache` |
| Branch prediction simulators (`Project 1`) | two-bit counters, branch target buffer, statistics | one line of a trace | two buffers of different size indexed by one address; an entry read without a null test | `BranchPredictor`, `StaticPredictor` |
| FoodHaus ordering (`FoodHaus-Swift/.../Menu`) | the cart in `UserDefaults`, counts in table cells, badges, screens with snapshots of the cart, timers, the order in Firebase | taps on + and -, check out, confirm, cancel, back, scrolling, answers of Firebase, timer ticks, sign-in and -out, kill and relaunch | one fact kept in three places; asynchronous answers; amounts in Doubles; a process that dies | `FoodHausOrder` |
| Tank game (`Games-Java/.../TankGame`) | an `ArrayList` of animations, health, lives, points and end of both players, tank positions | two threads in `run()`, key events, painting | three threads and no lock | `TankGame` (partly) |
| Menu with child processes (`Assignment2/functionlist.c`) | the processes, where each is, the input they share | `fork`, `execlp`, `wait`, asking again | a failed `fork` or `execlp`; a child that asks like its parent | `FunctionList` |
| File copy (`Assignment6/mycp.c`) | two files, the bytes copied | open, read, write, close | short reads and writes, errors, a second run | `FileCopy` |
| LevelDB database (`Pods/leveldb-library/db/db_impl.cc`) | memtables, the queue of writers, the version in use, logs, tables, MANIFESTs, CURRENT | `Write`, `Get`, `Open`, `Recover`, `MakeRoomForWrite`, flush, compaction, close | groups of writers, one background thread, readers without the mutex, crashes of the process and of the machine, failures of every call | `DBImpl` |
| LevelDB versions (`db/version_set.cc`, `version_edit.cc`) | the files of every level, compaction pointers, seeks left, snapshots | `Get`, `PickCompaction`, `SetupOtherInputs`, `CompactRange`, `Apply`, the records of a MANIFEST | which entries a compaction may drop, which files it must take along | `VersionSet`, `LevelTree`, `VersionEdit` |
| LevelDB log files (`db/log_*`) | blocks of physical records | `AddRecord`, `ReadRecord` | a file cut or damaged anywhere, a failed append, reading from an offset | `LogFormat` |
| LevelDB table cache (`db/table_cache.cc`, `util/cache.cc`) | hash table, two lists, charges, references | `FindTable`, `Insert`, `Release`, `Erase`, `Prune` | two threads opening one file, eviction of what is in use | `TableCache`, `Cache` |
| LevelDB memtable (`db/memtable.cc`, `skiplist.h`, `util/arena.cc`) | nodes and their links, the arena's blocks | `Add`, `Get`, the iterator | readers without a lock | `MemTable` |
| LevelDB iterators (`db/db_iter.cc`, `table/merger.cc`, `two_level_iterator.cc`) | a stack of iterators, a direction, a saved key | `Seek`, `SeekToFirst`, `SeekToLast`, `Next`, `Prev` | changing direction; blocks that cannot be read | `DBIter`, `OrderedCursor` |
| LevelDB tables (`table/`, `util/bloom.cc`) | blocks, restarts, filters, index, footer | `TableBuilder`, `BlockBuilder`, `Block::Iter`, `Table` | prefixes and restarts, filters by offset, failing writes, damage | `TableFormat` |
| LevelDB batches and coding (`db/write_batch.cc`, `util/coding.cc`) | a batch as bytes | `Put`, `Delete`, `Append`, `Iterate` | counts and varints at their boundaries, truncation | `WriteBatch`, `Coding` |
| LevelDB repair (`db/repair.cc`) | logs, tables, lost files | `RepairDB` | dying or failing between any two calls, repairing again | `Repair` |
| LevelDB file names (`db/filename.cc`, `util/logging.cc`) | a directory | `ParseFileName`, `DestroyDB` | numbers that overflow, files of others | `FileNames` |
| LevelDB Posix environment (`util/env_posix.cc`) | the background queue, limits on open files, the table of locks, what is on the disk | `Schedule`, `BGThread`, `NewRandomAccessFile`, `LockFile`, `Sync`, `RenameFile` | threads at each of these, a machine that dies with anything unsynced | `PosixEnv`, `PosixFiles` |
| nanopb (`Pods/nanopb/pb_*.c`) | a buffer, a message in memory, counts of items | `pb_encode`, `pb_decode`, callbacks, extensions | widths and signs, packed arrays, unions, older types | `Pb`, `Nanopb` |
| Galactic Mail (`Games-Java/.../GalacticMail`) | ship, moons, asteroids, `moonCounter`, flags, scores | two threads in `run()`, key events, painting | flags written from both sides; an index kept into a list that shrinks | not modelled |
| FoodHaus accounts (`FoodHaus-Swift/.../Register`, `.../User`) | the Firebase account and its profile | sign up, log in, edit the profile | two remote writes, unacknowledged | not modelled |
| Calculator, to-do list (`Calculator-Swift`, `ToDoList-Swift`) | flags and an accumulator; a list of tasks | key presses; add, edit, delete | sequential | not modelled |
| GPU kernels (`Project 3`), database (`Bookstore-SQL`), LevelDB's bindings and tools, Firebase's binaries, project files, assets | - | - | - | not modelled, see [8](#8-what-is-not-modelled) |

**How the parts interact.** Inside the C programs threads interact through
shared memory, semaphores, mutexes and `pthread_join`. In the games two threads
in `run()` and Swing's event dispatch thread share plain fields and
`ArrayList`s; `repaint()` only asks for a later call of `paintComponent`. In
FoodHaus every handler runs on the main thread, and what interleaves is taps,
answers of Firebase, timers and the end of the process; screens talk through
`UserDefaults`, the navigation stack and the flag `"init"`, which tells the menu
to reload. `CheckViewController` reads what the account screens store. The
simulators are sequential; in each project `sys1` and `sys2` read the same trace,
so that their results can be compared.

In LevelDB `DBImpl::mutex_` guards the memtables' pointers, the queue and the
versions. A writer at the head of the queue takes those behind it into its group
and appends one record to the log without the mutex; the memtable may
be read at the same time. A full memtable becomes `imm_`; the background thread writes it to a
table, records it in the MANIFEST (`LogAndApply`) and deletes files no version
uses. Readers take references to both memtables and a version, then read without
the mutex, through the table cache. `Env` is the operating system, and is where
calls fail and crashes cut. nanopb is sequential and meets the application in callbacks.

**What makes each part correct.**
* *Bounded buffer*: a first-in first-out channel of the ring's capacity; nothing
  is lost, doubled or out of order; the slots and indices are used by one thread
  at a time; `main` returns exactly when what no consumer takes fits in the ring.
* *Census*: the sections partition the file; the printed counts are those of the
  whole file; no thread leaves its section.
* *Caches*: a block is held once; the replaced block is the least recently used;
  cycles, misses and write-backs agree; with one way `sys2` is `sys1`.
* *Branch prediction*: counters stay in range; no null entry is read; an entry
  stands for one branch; the printed numbers fit; `sys2` counts what `sys1` counts.
* *FoodHaus ordering*: cells, badges, stored names and stored total agree; the
  forced casts do not fail; a confirmed order is what the cart holds; a cancelled
  or empty one is not stored; the confirmation goes away by itself.
* *Tank game*: points are the other's lost lives; the end is noticed; nothing but
  a bounded number of late bullets is fired after it; the list is damaged only
  when threads overlap.
* *Menu*: only one process asks for a selection. *File copy*: what is reported
  as copied has been copied.
* *LevelDB database*: a read sees the newest write its snapshot covers; what was promised
  survives a restart; the database opens again; live files exist; writers return.
* *Versions*: levels above 0 are disjoint and newer data lies above older; dropping entries
  changes no read. *Logs, tables, batches, MANIFEST records*: what is
  written is read back, and damage is reported or confined.
* *Table cache*: an entry lives while it is mapped or held and is freed once. *Memtable*:
  a reader skips no entry. *Iterators*: a cursor over the visible entries, in both directions.
* *Repair*: nothing that can be read is destroyed. *File names*: only files of the database are destroyed, and all of them but `LOCK`.
* *Environment*: no work is stranded, limits hold, one holder of a lock; after any crash
  CURRENT leads to whole files.
* *nanopb*: a message is read back, also by an older type; sizes are exact; what is not
  the default is written.

## 2. Plan

Done: the course programs with concurrency or failures (buffer, census, caches,
branches, ordering, tank game, menu, file copy) and the parts of LevelDB and nanopb above.
The order was by how much of the behaviour is concurrent, asynchronous or subject to failure.

How modules compose:
* `DBImpl` EXTENDS `VersionSet`: the database with its threads and files works on the
  same versions, compactions and reads that `LevelTree` explores alone with more levels.
* `TableCache` implements `Cache`, `DBIter` implements `OrderedCursor`, `ProConCode` implements
  `BoundedBuffer`, `SetAssocCache` implements `LRUCache` and, with one way, `DirectCache`,
  `BranchPredictor` implements `StaticPredictor`.
* `WriteBatch` and `VersionEdit` are built on `Coding`, `Nanopb` on `Pb`.
* `PosixFiles` models beneath the calls what `DBImpl` takes as finished writes:
  directory entries, buffers and `fsync`.
* `MCLevelDB` and `MCParts` put modules that do not interact into one run each.

Left, in this order:

1. Theorems about parts of LevelDB whose state is sets and functions: that `TableCache` implements `Cache`,
   and `LiveFilesExist` of `DBImpl` with the bookkeeping of file numbers it rests on.
2. `SessionFetcher`: one fetch of GTMSessionFetcher with its retry timer, its callbacks and `stopFetching`;
   `GalacticMail`, with the index of `AnimationPanel.java:145`; `TankMotion`, composed
   with `TankGame`; `FoodHausAccounts`, composed with `FoodHausOrder`.
3. A run of `DBImpl` with three levels and one of two LevelDB processes over one directory.

## 3. The modules and the code

Each module cites the file it translates; `PROJECT.json` maps each definition to
its lines. Names follow the source. Definitions marked `Mutant` or `Bug` in a
comment are altered copies of the definition below them: they show that a
property would notice such a bug, and no specification uses them.

### Bounded buffer: `ProConCode`, `BoundedBuffer`
`ProConCode` has the semaphores as numbers, the mutex as its holder, the ring as a
function and a program counter per thread; a step is one call or one assignment
another thread can see (`sem_wait`, lock, use of a slot, advance of the index,
unlock, `sem_post`, and for consumers the `printf` in the critical section). `main`
creates the threads one by one and joins them in the same order, so a thread may
finish before the next is created. `BoundedBuffer` is the abstract channel: a queue of
limited capacity, one step to send and one to receive. The mapping takes the queue
from the ring: how many items count as present follows from the semaphores and from
where threads stand between `sem_wait` and `sem_post`. Assumed: calls of the thread
library succeed (the code ignores their results) and `int` does not overflow.

### Character census: `CountingThreads`, `ASCIICount`, `ASCIICount2`, `ASCIICountS`
`CountingThreads` holds what the three programs share: open, refuse, read, partition,
create, join. `ASCIICount` (Assignment 3) gives each thread counters of its own, which
hold garbage until cleared, and lets `main` add them after the join. `ASCIICount2` splits
the increment of a shared counter into its read and its write; `ASCIICountS` puts the
same two steps between lock and unlock. An empty file has `size` -1, as in the code.
Characters are model values; bytes above 127 are outside the model (the code indexes
with a negative number then, which is undefined).

### Cache simulators: `SetAssocCache`, `DirectCache`, `LRUCache`
`Access(op, i, t)` is a whole round of `simulate` of `sys2.java` for a line with set
index `i` and tag `t`: find a usable entry, else the least recently used one; book the
cycles; fill or update it. `Crash(t)` is the exception of a line whose tag has no bits left.
The tag "0" is both the mark of an empty entry and the tag of low addresses, as in the code.
`DirectCache` is `sys1.java`. `LRUCache` is the abstract cache: per set, a list of
blocks ordered by recency. Parsing a line and printing are left out; `int` counters are
naturals.

### Branch prediction: `BranchPredictor`, `StaticPredictor`
`Branch(pc, outcome, direction)` is a whole round of `simulate` of `sys2.java`:
predict by the two-bit counter, look up and fill the target buffer, train, count.
`DecodeFails` and `BranchFails` are the exceptions, kept apart by where they
leave the counters. The buffers may have different sizes, as the command line allows.
`StaticPredictor` is `sys1.java`, which predicts backward branches taken and keeps no
buffers: both programs must count the same branches on the same trace.

### FoodHaus ordering: `FoodHausOrder`
State: the three keys of `UserDefaults` (`total`, `names` with `hasName`, `init`), the
cells' `buyCount` and `cellItems`, the badge labels, the screen in front, every
check-out screen made (its snapshot of the cart, its user, its open queries), the
confirmations on the stack, and the order stored under `users/<uid>/menu`.
Actions: `plusBtnClick`, `minusBtnClick`, `cellForRowAt` (a row scrolled out and in
again gets a new cell), `CheckButton`, `confirmButon` (sends the profile query),
`AnswerRefused`, `AnswerAccepted`, `cancelButton`, the ways back, `updateView`
(the timer of a confirmation), signing in and out, `Kill`, `Launch`.
Abstractions:
* Handlers are atomic, since they all run on the main thread; a crash inside a handler
  leaves what was written before it (`Crash` keeps the new total and the old names).
* Amounts are Doubles in miniature: integers in units of 1/`Unit` dollar that are
  rounded to `Significand` bits, nearest even, after every addition. The sign of the
  rounding error of 9.50 + 6.95 - 9.50 - 6.95 is that of real 53-bit Doubles.
* A list of names, which the app keeps sorted, is a function from products to counts.
* Firebase is external: an answer may come at any later time or never, with an error,
  an incomplete profile or a complete one; a write is done at once. The first call of
  the auth listener happens with the opening of the screen.
* A check-out screen that is not in front and waits for nothing is forgotten (`Gone`),
  since nothing can reach it.

### Tank game: `TankGame`
Two threads execute the same `run()` of one object: one is started by the constructor of
`KeyboardPanel`, one by `GameFrame`. A round tests the end once and may fire for
both tanks. The painting thread walks over the list. `ArrayList.add` is split
into the read of the size, its write and the store of the element, `remove` into
the shift of the elements, the read of the size, and its write with the cleared slot
(Java 8's order), so every overlap of the three threads is there. A `null` element
ends the paint with an exception, and the players behind the loop are not painted.
Where a bullet flies is left out: a painted bullet hits a wall, one tank, both or
nothing. `overlap` is a history variable. Memory is sequentially
consistent here; Java promises less for these fields.

### Menu and file copy: `FunctionList`, `FileCopy`
`FunctionList` has a record for each process; `fork` copies it, and all share one standard
input. A failed `execlp` returns into the loop of the child, as in the code. `ReadBlock` and `WriteBlock` are a call of
`read` and of `write`.
`FileCopy` runs the program again and again over two files; reads and writes may be
short or fail, and a second run is refused by `O_EXCL`. `copied` counts the runs that reported a copy. A read that fails
ends the loop like the end of the file, so a copy cut short there is reported like a complete one: `CopiesAreTrue` makes
no claim of completeness then, only that what was copied is the start of the source.

### LevelDB database: `DBImpl`, `VersionSet`, `LevelTree`, `DBFormat`
An entry is its internal key (`DBFormat`): user key, sequence number and type; the value follows
from the sequence number. In `VersionSet` a level is a set of files, and `Lookup`, `PickCompaction`,
`SetupOtherInputs`, `Drop`, `IsTrivialMove` and the installation are those of the code, with
file sizes counted in entries. `LevelTree` drives them with flushes, compactions by size, by
seeks and by hand, and snapshots. `DBImpl` adds the threads: code under `mutex_` is one
step, which ends where the code unlocks, waits or has written to a file.
`writer[w].pc` and `bg.pc` name these places. `disk` has logs and MANIFESTs as sequences with
a synced prefix; `ProcessCrash` keeps all that was written, `MachineCrash` keeps any prefix
from the synced one on. `Recover` reads CURRENT, the MANIFEST and the logs from the number it records, and
writes a new table and MANIFEST, and may be interrupted by a crash, too. `Faults` names the
calls that may fail. `ghost` remembers what was acknowledged, synced and promised.

### LevelDB files: `LogFormat`, `TableFormat`, `WriteBatch`, `VersionEdit`, `Coding`
Bytes are modelled where the format is what is checked. `LogFormat` cuts records into fragments over blocks of a few
cells; a file is cut, damaged in a cell, reopened, or holds a failed append. `TableFormat` has prefix
compression and restarts, Bloom filters by block offset with an arbitrary hash, index
separators and footer. `Coding` has varints of `Bits` bits a byte instead of 7, so that all their
lengths occur. `WriteBatch` and `VersionEdit` encode and decode sequences of such bytes, cut ones too.

### LevelDB in memory: `TableCache`, `Cache`, `MemTable`, `DBIter`, `OrderedCursor`
`TableCache` has the handles with their reference counts, the two lists and the hash table
with its resizing per shard; opening the file between `Lookup` and `Insert` is a step of its own. `MemTable` has
one store or load of a link per step, for readers and for the writer's search, and the arena's addresses. `DBIter` is the tower of iterators:
blocks under a two-level iterator, the concatenation of level 1, the merge, and the
client's view of a snapshot.

### LevelDB and the system: `Repair`, `FileNames`, `PosixEnv`, `PosixFiles`
`Repair` takes one call of `Env` as a step, any of which may be the last or fail: a log that cannot be
converted is archived all the same, an archiving that fails leaves the file where it is and is not noticed, a copy that cannot be opened,
finished or renamed is given up and deleted, if that does not fail, too, a MANIFEST that cannot be archived stays beside the new one, and the repair may
be run again over what the last run left, an unfinished table included. Neither logs nor, without `paranoid_checks`, tables are read with
checksums there, so a damaged file may seem to hold entries of `Garbage`; the reader of a log skips what is no batch, an iterator over
a table stops at what is no entry and reports it (`damaged`). `FileNames` has
names as prefix, digits and suffix, and `DestroyDB` call by call: the listing, the lock, each deletion, that of `LOCK`, whose status the code drops, and that of the directory may fail. It has any base and any largest number; the run takes 3 and 25, the theorem covers 10 and 2^64 - 1.
The names of others are those not of the form that `filename.cc` owns, a number too large included.
`PosixEnv` holds three state machines that share nothing: the background queue with its
mutex and condition variable (with spurious wakeups), the two limits on open files, and the locks, where closing any
descriptor drops the `fcntl` lock of the process. `PosixFiles` has for each file what was appended, written
and synced, and for the directory the states that may be found after a crash. A file system is `Journaled` when data
that reaches the disk takes along the changes made to the directory before it, as a journal does. The code
syncs the directory only in a `Sync` of a MANIFEST (`SyncDirIfManifest`) and relies on this otherwise: without it
`DatabaseOpens` is false, for the system may write the record of a new table to the disk, of its own accord and before that `Sync`, while the directory
there does not have the table's name yet.

### nanopb: `Pb`, `Nanopb`
`Pb` is the encoder and decoder as operators over a message type (a sequence of fields) and a
message (a sequence of cells, one for a whole union). `Nanopb` is a program that writes
messages to a buffer, delimited or not, in which some do not fit, and reads them back with the
same or an older type. What a shift by the whole width of a word gives is a choice (`ub`), since C
leaves it undefined.

### Harnesses
`MCParts` explores one of several modules at a time: `part` says which, and
`s1`, `s2`, ... are its variables in the order it declares them. A property of `MCParts`
is the conjunction of properties of that module; `Nanopb`, `FileCopy`, `FunctionList`, `PosixFiles`, `FileNames`,
`BranchPredictor` and `SetAssocCache` have variables of their own and are extended. It also defines the message types of nanopb.
`MCLevelDB` does the same for two configurations of `LevelTree`, for `Repair`, for `MemTable` and for the three
machines of `PosixEnv`, and extends all but the first. Where a harness extends a module, its run checks the very
formulas that the theorems about it state, and their assumptions. The menu of the
ordering run (`SingleCategory`, `TwoPrices`) stands in `FoodHausOrder` itself.

## 4. The runs

Passing runs check every property on every reachable state of the instance; bounds
not named below are the constants of the `.cfg` file.

| Run | Instance | What it shows |
|---|---|---|
| `procon_remainder` | ring 2, 2 producers, 3 consumers, 2 items each | slot accounting, the channel, and that `main` returns with one item left over |
| `procon_blocks` | ring 1, 2 producers, 4 consumers, 3 items each | two items are left over: the ring fills up, a producer blocks for good and `main` never returns |
| `count_mutex` | 3 threads, files of 0 to 6 bytes, buffer 5, 2 characters, the mutex | exact counters at every moment, and termination |
| `foodhaus_order` | 2 products (9.50 and 6.95) of one category, 1 account, 2 items, 2 check-out screens, 1 open query each | cells, crashes, orders and the confirmation, see below |
| `tank_game` | 2 threads, 2 players, 2 hits a life, 2 lives, 3 list elements | scores, and the damage of the list |
| `leveldb_db` | 2 writers of batches of two keys or of none, synced or not, 1 reader, 2 levels, 3 calls, 1 crash or close, 1 failing call | reads, snapshots, live files, promised writes, reopening; writers return |
| `leveldb_levels` | 4 levels, 3 writes; 2 keys with a snapshot, or 3 keys with files of one entry; the repair, the memtable and the environment of `MCLevelDB` | reads, of snapshots too, and disjoint levels under every compaction; a safe repair; a consistent memtable; what threads and processes share of the environment |
| `leveldb_split` | 4 levels, 1 key, 4 writes, a snapshot and files of one entry | **violation**: a newer version beneath an older one |
| `leveldb_torn` | as `leveldb_db`, the fault is an append that fails half way | **violation**: an acknowledged write is lost when the process restarts |
| `leveldb_repair` | the repair of `leveldb_levels` | **violation**: a damaged log record enters the repaired database |
| `parts` | the small instances of `MCParts`; the data cache with 2 sets of 2 ways, tags 0 to 3 and 5 references; branches with PB 4, BTB 2, six addresses and 5 branches | the remaining modules, one property each, two for the table cache, the iterators, the data cache (accounting, LRU replacement) and the branches (no null entry, agreement with `sys1.java`) |
| `nanopb_nonzero` | one type with a submessage that holds an array | **violation**: a submessage that is not zero is left out |

Why the bounds are enough for what they are used for:
* *Bounded buffer*: the producers go round the ring twice, threads of both kinds compete for
  the slots and the mutex, and 4 items over 3 consumers leave a
  remainder. A third producer adds no new relation between two threads. In `procon_blocks` the remainder of 6 items over 4 consumers
  is more than the ring, so the other half of `ReturnsIffRemainderFits` is what is checked.
* *Census*: files shorter than, equal to and longer than the number of threads,
  multiples of it or not, the empty one, one that exactly fills the buffer and one
  too long. Two characters are enough to confuse one with another.
* *Cache*: five references fill a set, hit, miss, evict a dirty and a clean block, and
  come back to an evicted one. Ways beyond two would need longer traces; the proofs
  cover any number.
* *Branches*: five branches bring a counter from its start to both ends, alias in
  one buffer and in both; address 1 is too short to decode, and
  address 8 has a tag too long to parse.
* *FoodHaus*: two prices with a rounding error, a second screen opened while the first
  waits, and a countdown of two that ticks once before it ends. With one category the
  badge sums two cells. Two accounts are outside the instance: a screen whose user is
  replaced before the answer is in the model (`signIn`), but not in the run.
* *Tank game*: a life that takes two hits can be lost in one paint with a third hit, two
  lives reach the end, and three elements let a remove shift something. A thread only
  starts to add when there is room (`Room`), which bounds the list and not the order of steps.
  Threads and players are interchangeable, so symmetry is used; there is no liveness in that run.

* *Database*: the memtable counts as full after every write (`WriteBufferSize` 0), so three calls make
  two flushes and a compaction of two files, and writers that slow down and wait. A batch
  of two keys shows a group or a batch that is applied in part. One
  restart and one fault occur at every step, the first opening included, which runs the same steps as every later
  one. What a crash in a second opening would find is not in this instance.
* *Levels*: three writes over two keys give level 0 the two files that start a compaction, and their
  output moves on to deeper levels; a seek counter of 1 makes compactions by seeks happen. Three keys in files of one entry make
  the grandparents' limit stop an output.
* *Logs*: blocks of 6 cells with headers of 3 leave every remainder in a block, records
  of 0 to 8 cells have first, middle and last fragments.
* *Table cache*: two threads, three files of one shard, whose capacity is 1: the same file is
  opened twice, evicted in use, a bucket holds two entries, and the usage would reach three if nothing were evicted, one more
  than the bound.
* *Memtable, iterators*: three entries with height 2 let a reader pass an
  insertion at either level, and blocks of 48 bytes make the arena waste the rest of one and give a large
  object its own; the theorem covers any number of each; three writes over two keys have hidden, visible and deleted versions in
  each of the three sources.
* *Tables*: four of seven keys, restarts every 2 entries, blocks of 32: prefixes,
  several blocks and several filters occur.
* *Repair*: three writes over two tables and two logs, up to two of their entries damaged, one entry that damage may seem to
  be (`Garbage`, with a sequence number beyond all others), and two further runs or failing calls in any mixture (`MaxTrouble`):
  a second run meets what the first archived, a failing deletion follows a failing write. `NothingDestroyed` is limited to one failed call
  in the first two runs because it is false beyond. The theorem covers any number of each.
* *Environment*: two databases and work that schedules work, three threads at a limit of one mapping and one
  descriptor, two processes of which one has two threads: every pair that can meet does. The theorems cover any number.
* *Disk*: the database starts with one table and gets two more (`MaxTables` 3), the first with a new MANIFEST and CURRENT, the second with
  an edit of the open one; one failing call and one death of the process or the machine (`MaxFailedCalls`, `MaxDeaths`) come at any
  call, and the work is done again after it. The theorem covers any number of each.
* *nanopb*: 4 bits a byte, widths 3 to 9, so that negative and largest values have the
  lengths of their originals; two messages, so that one follows another.

`CHECK_DEADLOCK FALSE` stands where a program really stops: at the end of a trace or
of an exception (in `parts`), in `procon_blocks`, where every thread is blocked in the end, and in the LevelDB, nanopb and `parts`
runs, whose clients have a bounded number of calls. A thread of `DBImpl` that waits for ever would
violate `WritesReturn`. The games, the ordering and the thread programs are checked
for deadlock; the latter have an explicit step of a process that has exited.

The properties of `foodhaus_order` are worth a word, for they mark the line
between what the app gets right and what it does not. An answer of Firebase that
arrives when the user is back on the menu resets the cart under cells that still
show counts; `late` remembers that. As long as no such answer has come,
no cell counts more than the stored names hold (`CellsWithinCart`), hence no forced
cast can fail (`CrashesOnlyLate`), through scrolling, resets, crashes and relaunches.
`VisibleOrderTakesCart` holds without that condition: an order confirmed from the
screen in front is the cart.

The promises of `leveldb_db` need care in the same way. What `PromisedWritesSurvive` requires is what
`options.h` says: after a crash of the process every write that returned OK, after a crash of the machine
every synced one. It holds for each fault of the run, and fails
when an append may leave part of a record (`leveldb_torn`). `ReopensOnceCreated` starts when the first
`Open` has returned: `NewDB` writes its MANIFEST without a sync, so a machine that crashes during the first
opening can leave a database that does not open.

## 5. Fairness

* `ProConCode`, `ASCIICount*`: weak fairness for `main` and for each thread: POSIX
  threads are scheduled preemptively and a thread that can run does run. Waiting on
  a semaphore, a mutex or a join is not fair beyond that. No loop is infinite, so weak
  fairness is enough: a thread that loses the mutex again and again is last at some point.
* `FoodHausOrder`: weak fairness only for the timer of a confirmation, which the run loop
  fires every second. Users may stop and the network may never answer.
* `DBImpl`: each writer and the background thread run when they can. `FairSpec` writes weak fairness out as
  "infinitely often blocked or infinitely often a step", with the states of waiting named
  (`WriterBlocked`, `BackgroundBlocked`), which keeps the check small. Nothing is assumed of clients, crashes or faults.
* The simulators, `TankGame` and the other modules state no liveness and have no fairness.

## 6. The proofs

All theorems hold for every value of the constants that satisfies the named
assumption of the module. They are about the course programs and about five parts of LevelDB: its Posix environment, the files
on its disk, their names, its repair and its memtable. TLC evaluates every assumption on the constants of the runs. The proofs have the usual form: an inductive
invariant, one step per action, and PTL at the end. Invariants that had to be found were checked by TLC first.

| Module | Theorem | Statement |
|---|---|---|
| `ProConCodeProofs` | `TypeCorrect`, `ThreadsCreatedInOrder`, `CriticalSectionsExclusive`, `SemaphoresConserveSlots`, `ChannelInvariant`, `RingImplementsChannel`, `NeverReturns` | types; no thread runs before it is created; the mutex is held exactly in the critical section; every slot is free, filled or reserved; every step of the ring is a send, a receive or invisible to `BoundedBuffer`; `main` never returns when more items are left over than the ring has slots |
| `ASCIICountSProofs` | `PartitionCorrect`, `TypeCorrect`, `BytesInside`, `IncrementsExclusive`, `CountersExact`, `PrintedCountsCorrect`, `CensusIsSound` | the sections partition every file for every number of threads; each counter is at every moment the number of counted bytes with its character; what is printed is the census of the file; private counters add up exactly to what `main` has joined, and shared ones without a mutex are never too high |
| `SetAssocCacheProofs` | `ConsistencyCorrect`, `BlocksUnique`, `SentinelSafe`, `LastUsesOrdered`, `CyclesCorrect`, `OneWayIsDirect`, `LastUsesImplementLRU` | the consistency of the entries; the accounting of cycles; with one way, every behaviour of `sys2` is one of `sys1`; ordered by last uses, every behaviour is one of `LRUCache` |
| `FoodHausOrderProofs` | `CellsCorrect`, `CrashesCorrect`, `OrdersComplete` | cells within the cart, crashes only after a late answer, and an order confirmed from the screen in front is the cart, for any menu, accounts, screens and queries |
| `TankGameProofs` | `ScoreCorrect`, `EndCorrect`, `DamageCorrect` | points are the lost lives of the opponent; a player without lives has ended the game; only overlapping changes leave a `null` in the list |
| `LevelDBProofs` | `RepairTypes`, `RepairIsSafe` | what could be read stays in some file, however often a repair is cut short, when no call fails or one does in the first two runs; a repair that ran through installs tables that exist, whole ones when no call failed, with all that could be read when it never died either; for any files and any damage, garbage they seem to hold included |
| | `MemTableIsConsistent` | at any point of an insertion every level of the skip list is the ordered list of its nodes, no reader skips an entry, `Get` returns the newest one, and the arena's regions are apart and aligned |
| | `WorkRuns`, `LimitsHold`, `OneHolder`, `EnvIsShared` | no work is stranded and items run in order; limits on open files hold and no unit leaks; one holder of a lock; all of it together |
| `FilesProofs` | `DatabaseCanBeOpened` | on a journaled file system CURRENT always leads to a usable MANIFEST that names only whole tables, whichever calls fail, however often process and machine die, for any number of tables |
| | `OnlyOwnDestroyed` | every number up to the largest comes back from its name; `DestroyDB` deletes files of the database and no others, and when it returns OK none of them is left but `LOCK`, and that only after a failed call, for any base and padding, any files of others and any failing calls |
| `ProgramProofs` | `CopyIsTrue`, `OneProcessAsks` | a copy that is reported is one and no run touches that of another; one process asks at a time, after each selection was carried out once |
| | `TypeCorrect`, `NoNullTarget`, `EntriesCorrect`, `MispredictionsCorrect`, `ImplementsStatic` | no null entry is read if the size of the BTB divides that of the PB; an entry stands for one branch; the statistics fit; `sys1` and `sys2` count the same branches |

The arguments:
* *Bounded buffer.* Types and exclusion need the order of creation (a thread that has
  not been created is in no critical section). Slot accounting counts the threads between
  `sem_wait` and `sem_post`; each step moves one thread into or out of that set. For the refinement `ChannelInv` says
  where the items are: the slots from the first counted one to `in` (`WindowInv`), what a consumer has copied and not
  yet printed is the head of the queue (`CopyInv`), and loop counters agree with what was sent and printed (`LoopInv`,
  `PrintedInv`). The queue of the mapping is then extended, shortened or kept by each step. `NeverReturns` counts the items
  written and those printed, over all threads: the difference of the two is what the semaphores and the threads' places leave of the ring
  (`CountsInv`), so at most its size; were `main` to return, every thread would have ended (`DoneInv`) and the difference would be the remainder.
* *Census.* `Running` is what the three programs share: an index in the loop lies within the section
  of its thread, main has created and joined in order, and a finished thread went
  through its section. With the types of the counters it is `Bookkeeping`. `CountExact` is inductive with `MutualExclusion`, which keeps the register
  of a thread between read and write equal to the counter. The printed counts follow from
  the partition, which is nonlinear arithmetic and has lemmas of its own
  (`Multiples`, `DivisionBounds`, `SectionBounds`). With private counters each thread is exact for its section up to
  its index (`OwnSections`) and the totals for the disjoint sections joined so far (`Totals`). Without the mutex an old value may be
  written back, but what was read was no more than the occurrences in the bytes gone through, and the byte
  that is added is not one of them (`RacyInv`). Both programs are instances over the same threads.
* *Caches.* The parts of the consistency depend on each other: a block is held once
  because a set is filled from way 0 up (`FilledFromBelow`), and it is filled from below
  because the search takes the first entry that holds the tag or none, and evicts only
  when there is no such entry. `SetsConsistent` is their conjunction and is inductive. For the refinement the position of a
  way in the list of `LRUCache` is the number of ways used after it; lemmas about these ranks show that the list the
  mapping chooses exists, is the only one, and changes as the abstract list does.
* *Branch prediction.* A counter of 2 or 3 was raised by a branch that
  filled its target entry. If the BTB size divides the PB size, branches that share the
  counter share the entry (`SharedEntry`); `TakenEntryHasTarget` is that strengthening. Without
  the condition the property is false, see section 7.
* *FoodHaus.* `CellsWithinCart` speaks of the menu in front and is not inductive: while
  another screen is in front the cells may exceed the cart, provided the flag `"init"` is
  set. `MenuInv` says that, and that the names are empty when `"Name"` is not set. An order is complete because the screen
  in front holds the stored cart unless a late answer has emptied it (`FrontShowsCart` in
  `CheckInv`); only screens left behind hold older ones.
* *Tank game.* `ScoreInv` is about painting only: health below zero is counted as one lost
  life that is still to be taken, so a second and third hit in one paint change nothing. No
  assumption about the list is needed, damaged or not. `ListInv` is about the list: as long as no two changes overlapped,
  at most one thread is inside `add` or `remove`, what it read is current, and the only `null` within the size is the one
  it is about to fill or to clear (`Orderly`).
* *Posix environment.* Work is not stranded because the background thread is awake while the queue holds something, and
  from the signal of a caller until its item is there (`Awake`); the mutex makes that signal and that item one step for the
  thread (`MutexHeld`). A unit of a limit is free, in the hand of a thread that is about to make an object or has just
  destroyed one, or an object's (`UnitsAccounted`). A thread between inserting its entry in the lock table and removing it
  is the only one of its process there (`LockInv`).
* *Repair.* `RepairInv` adds four things to the types. `Lists` relates the repairer's lists to the directory: numbers given are beyond
  those in use, tables still to be done are there, the copy is unfinished until it is renamed, the edit holds the tables found; what
  a failed rename spoils (a log that stays, a source beside its copy, an older MANIFEST) is claimed only while no call failed.
  `Covers` is what `ArchiveFile` does not test: a table that is archived has a number that lost/ does not know, or holds all that
  the file of its name there holds. It rests on `FreshNumbers`: in the first run, and while no call fails, numbers only grow, for whatever was archived
  leaves a higher number in the directory, or its own (`SomeBeyond`); after a failed call a second run may give a number again, but
  scans only tables that were there when it began, and of those only damaged ones are archived (`DamagedCovered`). With that no step takes an entry
  from its last file (`NothingGone`). `AllInHand` says where an undisturbed run has each entry. The next number
  of `FindFiles` is a greatest element, which a finite set of numbers has: the proof takes a least counterexample.
* *Memtable.* `MemInv` has five parts. Of the nodes (`NodesOK`): each has its levels, what it points to has the level too,
  and all sequence numbers are below the next one. The levels are ordered lists, each part of the one below (`LevelsAreSublists`).
  Of the writer (`InsertOK`): `prev` holds, at every level still to be linked, the node after which the key belongs; no other
  writer can make that false. A reader (`WalksOK`) is at a node of its level before its key; a node linked meanwhile has a
  sequence number above that of any lookup in progress, so it is nothing the lookup should see (`Published`), and what was there when the
  call began is never behind it. The step that links (`Link`) splits one gap of one level (`LinkKeepsLevel`, `LinkedBetween`). `ArenaOK` says
  that the current block is free from `ptr` on; the sum over the blocks is a recursive function, whose existence and
  prefixes are shown by least counterexamples (`SumsExist`, `SumsAgree`).
* *Files on the disk.* That the database opens now says nothing of the next death, so `FilesInv` speaks of all states that a
  crash may find. Any state of the directory survives it (`Survives`): what is on the disk of the files it names leads from CURRENT to a
  MANIFEST with two records and from there to one whole table. The present directory opens to the newest table (`OpensTo`), and for every
  number of records between what is on the disk of its MANIFEST and what is written, these leave one table, which is whole; so a
  `WriteBack` cannot hurt. This is kept because changes of files only add to what is on the disk (`Keeps`), and with `Journaled`
  the moment more records are on the disk the present directory is the only one left. The rest of the invariant ties the
  background thread to this: the table it builds is not listed and is synced before it is recorded (`TableOK`), the new MANIFEST is listed by no CURRENT until it
  and its directory entry are synced (`DescOK`), and the temporary file holds the number of that MANIFEST, synced, before
  the rename (`TmpOK`). There is one lemma per action; those of the deaths show that cutting every file to what is written, or synced, keeps the invariant (`CutGood`, `CutOpens`).
* *File names.* What `ConsumeDecimalNumber` and `Digits` compute is a recursion over the digits. Such a function exists and is unique
  (`RecursionExists`, `RecursionUnique`: a least place where it failed would follow from the one before), so the parser can be compared place by place
  with what the digits are worth without a limit: the test against `kMaxUint \div Base` is exactly that for overflow (`OverflowTest`, `ConsumeExact`), and the
  digits of a number are worth that number, with zeros in front or without (`DigitsWorth`). So names lead back to their numbers, foreign names do
  not parse, and `NamesInv` is inductive: what `DestroyDB` has looked at and left is foreign or `LOCK`, unless its status is an error, and once
  it has tried to delete `LOCK` that name is left only if a call failed.
* *File copy and menu.* What has been written is the start of the source up to `total_bytes`, and the buffer is what follows
  it (`Progress`); once there is a second file no run gets further (`Left`). Of the processes at most one moves (`OneMoves`), and what was
  printed with what that one owes is what was selected (`Carried`), so a failed `execlp` hands the debt on and repeats nothing.

The theorems whose property a run checks too are those about `SlotsConserved`, `ImplementsChannel`, `CountExact`,
`CyclesAccountForMisses`, `ImplementsLRU`, `NoNullAccess`, `CountsAsStatic`, `CellsWithinCart`,
`CrashesOnlyLate`, `VisibleOrderTakesCart`, `ScoreMatchesLives`, `DamageOnlyByOverlap`, `EnvSharedSafely`,
`RepairSafe`, `MemTableConsistent`, `DatabaseOpens`, `DestroysOnlyOwn`, `CopiesAreTrue` and `OneAsks`. `CensusIsSound` is about the two parts of `CensusSound`,
which `MCParts` puts together under its own variables, and `NeverReturns` about the safety half of `ReturnsIffRemainderFits`. The others (types, exclusion, the partition, unique blocks,
the agreement with `sys1` in full, the balance of the mispredictions, the end of the game) are parts of the inductive invariants
and have no run of their own.

Only model-checked:
* All liveness (`ReturnsIffRemainderFits`, `Termination`, `ConfirmationEnds`, `WritesReturn`), which needs fairness and
  `ENABLED`, out of the prover's reach.
* The database and its versions (`DBImpl`, `LevelTree`): reads, recovery and compactions go through entries by recursion
  over levels, logs and edits. What a recursive definition computes for every input is an induction over data, which the
  prover has only by way of least counterexamples, too long a way for towers of recursions. `LiveFilesExist` is about file numbers alone and is planned.
* `LogFormat`, `TableFormat`, `DBIter` (`ImplementsCursor`), `WriteBatch`, `VersionEdit`, `Pb` and `Nanopb`:
  formats and structures of unbounded length, again recursive in their data; several use `RECURSIVE`, which modules with
  theorems must not.
* `ImplementsCache` and `ShardsConsistent` of `TableCache`: not attempted.
* `DatabaseOpens` without `Journaled`, where it does not hold (section 3).

## 7. Findings

Each of the first four is a run that ends in a counterexample.

* `db/db_impl.cc:1224` - a failed append to the log may leave part of a record. Only a failed `Sync` makes the database
  refuse further writes, so the next one is appended behind the torn record and acknowledged. At recovery
  the torn length covers it, the checksum fails and the rest of the block is dropped. `options.h:194`
  promises that no write is lost when only the process crashes (`leveldb_torn`).
* `db/version_set.cc:1345` - a compaction may end an output file between two versions of one user key; a later
  one that takes only the newer file moves it beneath the older. `version_set.cc:346` relies on entries never
  hopping across levels (`leveldb_split`). Later versions of LevelDB add boundary files to the inputs.
* `pb_encode.c:237` - whether a submessage is non-zero is decided by the first item of its arrays; one that holds only an
  array that starts with a zero is not encoded (`nanopb_nonzero`).
* `db/repair.cc:193` - the comment above says that the log reader is made to do checksumming, so that corruptions cause entire commits to be
  skipped; it is made with checksums off. A damaged record that still looks like a batch enters the repaired database, and
  may raise its last sequence number (`leveldb_repair`).

Reachable in the models, or the reason why a property is not stronger:

* `Assignment4/ASCIICount2.c:92` - increments of the shared counters race and a printed count can be too
  low; it is never too high (`CensusSound`). It is the version without
  synchronisation; `ASCIICountS.c` repairs it, and is proved correct.
* `Project 1/sys2.java:152` - with a BTB larger than the PB a branch can be predicted
  taken before its entry exists: NullPointerException. `NoNullTarget` assumes that the BTB's size divides the PB's.
* `CheckViewController.swift:83` - the answer to the profile query stores the order even
  after Cancel; at line 72 an empty order is told by its printed amount, and a total
  just below zero prints "-0.00".
* `main` of `ProConCode.c` never returns when the remainder exceeds the ring (`ReturnsIffRemainderFits` says exactly when).
* A click on the FoodHaus menu crashes after a late answer, when the user has left the check-out screen before
  it (`CrashesOnlyLate` excludes any other crash).
* After an overlap of threads a `null` may stay in the list of the tank game and stop every
  later paint (`DamageOnlyByOverlap` says that nothing else leaves one).
* `util/env_posix.cc:471` - a second `LockFile` in one process is refused, but closing its descriptor drops the
  process's `fcntl` lock, so another process can then open the database. `OneHolderPerProcess` claims only
  what the table of locks promises.
* `db/db_impl.cc`, `NewDB` - the first MANIFEST is not synced before CURRENT names it (`ReopensOnceCreated`).
* `db/repair.cc` - a repair puts all tables in level 0 in the order of their numbers, which need not be that of their age.
* `db/repair.cc:134`, `:434` - file numbers are taken from the directory and not from `lost/`, and `ArchiveFile` renames over what
  is there. When the copy of a damaged table fails after its source was archived, two further runs can give the number of
  that source to a copy they leave unfinished, and archive it over the source. When reading a damaged table fails half way and archiving
  it fails as well, the copy of its first part is renamed over it. `NothingDestroyed` leaves room for exactly this: it asks for no failed
  call, or for one in the first two runs.
* `db/db_impl.cc:1562` - `DestroyDB` does not look at the status of the deletion of `LOCK`, and may leave it, and so the directory, and answer OK
  (`DestroysOnlyOwn` excepts this name).
* `mycp.c:38` - a copy that a failed read cuts short is reported as if it were complete.
* `pb_decode.c` - the mask of required fields shifts by 32 when their number is a multiple of 32, which is undefined.

## 8. What is not modelled

* *Galactic Mail, the motion of tanks, FoodHaus accounts, the calculator, the to-do list*: LevelDB and nanopb
  came first, which are larger and keep more at risk. Hazards met while reading them,
  besides those in `PROJECT.json`: Galactic Mail trims its high scores at a growing index of a
  shrinking list (`AnimationPanel.java:316`), and Enter writes three flags one by one
  that a paint may be half way through (`KeyboardPanel.java:37`); `AddUserInfoViewController.swift:66`
  closes whether or not the profile is stored; `CalculatorBrain.swift:66` keeps the pending
  operation after "="; the edit alert of the to-do list keeps a row number
  (`ListsTableViewController.swift:91`).
* *GPU kernels*: each thread computes one element from memory that nobody writes; no
  interleaving matters. `MaxCol.cu:83` drops columns when the width is not a multiple of the
  block size, and its own comparison reports that.
* *Bookstore database*: table definitions and single queries, nothing that interleaves.
* *LevelDB's bindings and tools*: the C API, dumps, histograms, checksums and test helpers wrap or print; a
  checksum is arithmetic, taken to tell intact records apart.
* *Firebase*: headers of binary frameworks. It is external to `FoodHausOrder`. *GTMSessionFetcher* and *GoogleToolboxForMac*, which
  Firebase uses for its requests, are in source: HTTP fetches with callbacks, retries after a growing
  delay and uploads in chunks. The app never calls them, and they are left for a later extension.
* *Inside LevelDB*: compression and the block cache; `GetProperty`, `GetApproximateSizes`, statistics and the info
  log; read sampling in `DBImpl` (it is in `LevelTree`); memory is sequentially consistent where the
  code uses barriers; file contents beyond what a checksum guards are never wrong silently, except in `Repair`, which reads without checksums.
* *Inside nanopb*: what `PB_ENABLE_MALLOC` adds (it is not built here) and streams other than buffers.
* *Inside the course programs*: formatting of output, argument checks that end before
  anything starts, drawing, sound, and integer overflow of counters; bytes above 127 in the census, which index with a
  negative number.
