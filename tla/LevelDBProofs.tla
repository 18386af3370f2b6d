---------------------------- MODULE LevelDBProofs -----------------------------
(* What RepairDB keeps of the entries that can be read, and the version it    *)
(* ends with, for any files, damage, failing calls and number of further      *)
(* runs; what threads and processes share in the environment, for any number  *)
(* of threads, processes, items and open files; and readers of the memtable   *)
(* without a lock, for any number of them, of levels and of entries.          *)
EXTENDS Repair, PosixEnv, MemTable, FiniteSetTheorems, SequenceTheorems, WellFoundedInduction, TLAPS

-----------------------------------------------------------------------------
(* What the variables hold.                                                   *)

(* No file holds, and nothing is copied, but what could be read at the start  *)
(* and what a damaged file may seem to hold.                                  *)
Known == began \cup Garbage
FileOf(K) == [entries : SUBSET K, damaged : BOOLEAN]
FilesOver(K, names) == UNION {[D -> FileOf(K)] : D \in SUBSET names}
Numbers == Nat \ {0}
LostNames == {"log", "table"} \X Nat
Infos == [number : Nat, max : 0..kMaxSequenceNumber]
Edit == [log : {0}, next : Nat, files : SUBSET Nat, last : Nat]
States == {"find", "convert", "archive", "src", "copy", "rename", "manifests", "current", "done",
           "failed"}

DirTypeOK ==
    dir \in [logs : FilesOver(Known, Numbers), tables : FilesOver(Known, Numbers),
             manifests : SUBSET Nat, current : Nat, tmp : Edit \cup {NULL, Unfinished},
             edit : Edit \cup {NULL, Unfinished}]
RepTypeOK ==
    rep \in [pc : States, logs : Seq(Numbers), numbers : Seq(Numbers), manifests : SUBSET Nat,
             next : Nat, found : SUBSET Infos, copy : Nat, number : Nat, max : 0..kMaxSequenceNumber,
             copied : SUBSET Known]

(* The types of the variables.                                                *)
TypeOK ==
    /\ DirTypeOK /\ RepTypeOK
    /\ lost \in FilesOver(Known, LostNames)
    /\ \A e \in Known : e.seq \in 0..kMaxSequenceNumber
    /\ crashes \in Nat /\ faults \in Nat

-----------------------------------------------------------------------------
(* The lists of a run.                                                        *)

Listed(s) == {s[i] : i \in DOMAIN s}
Distinct(s) == \A i, j \in DOMAIN s : s[i] = s[j] => i = j

Copying == {"src", "copy", "rename"}
Running == rep.pc \notin {"find", "failed"}
UpTo(entries, max) == \A e \in entries : e.seq <= max

(* Numbers given in a run are beyond those in the directory.                  *)
NumbersGrow ==
    Running => /\ rep.next # 0
               /\ \A n \in DOMAIN dir.tables : n < rep.next
               /\ \A n \in DOMAIN dir.logs : n < rep.next

(* The logs still to be converted are among those that are left.              *)
LogsListed ==
    /\ IsFiniteSet(DOMAIN dir.logs) /\ IsFiniteSet(DOMAIN dir.tables)
    /\ Distinct(rep.logs)
    /\ Running => /\ Listed(rep.logs) \subseteq DOMAIN dir.logs
                  /\ faults = 0 => Listed(rep.logs) = DOMAIN dir.logs
    /\ rep.pc \notin {"convert", "archive"} => rep.logs = <<>>
    /\ rep.pc = "archive" => rep.logs # <<>>
    /\ \A n \in DOMAIN dir.logs : <<"log", n>> \notin DOMAIN lost

(* The tables still to be scanned are there, but for the one being copied     *)
(* once its source is archived; so are those found, and unless a call failed  *)
(* they can be read to their end.                                             *)
TablesListed ==
    /\ Distinct(rep.numbers)
    /\ rep.pc \in {"find", "manifests", "current", "done", "failed"} => rep.numbers = <<>>
    /\ rep.pc = "find" => rep.found = {}
    /\ \A n \in Listed(rep.numbers) :
         n \in DOMAIN dir.tables \/ (rep.pc \in {"copy", "rename"} /\ n = rep.number)
    /\ \A t \in rep.found :
         /\ t.number \in DOMAIN dir.tables \ (Listed(rep.numbers) \cup {rep.copy})
         /\ faults = 0 => /\ ~dir.tables[t.number].damaged
                          /\ UpTo(dir.tables[t.number].entries, t.max)

(* The table being copied and its copy.                                       *)
CopyInPlace ==
    /\ rep.pc \notin Copying => rep.copy = 0 /\ rep.number = 0
    /\ rep.pc \in Copying =>
         /\ rep.numbers # <<>> /\ rep.number = Head(rep.numbers)
         /\ rep.copy \in DOMAIN dir.tables \ Listed(rep.numbers)
         /\ rep.number < rep.copy
    /\ rep.pc = "src" /\ faults = 0 => UpTo(dir.tables[rep.number].entries, rep.max)
    /\ rep.pc \in {"src", "copy"} => dir.tables[rep.copy] = Unfinished
    /\ rep.pc = "rename" => rep.copied # {} /\ dir.tables[rep.copy] = Holding(rep.copied, FALSE)
    /\ rep.pc \notin {"copy", "rename"} => rep.copied = {}

(* Once the source was archived, what was copied is all of it, unless a call  *)
(* failed; when one failed and the source stayed, it was that one.            *)
SourceCopied ==
    rep.pc \in {"copy", "rename"} =>
      /\ faults = 0 => /\ rep.number \notin DOMAIN dir.tables
                       /\ <<"table", rep.number>> \in DOMAIN lost
                       /\ rep.copied = lost[<<"table", rep.number>>].entries
                       /\ UpTo(rep.copied, rep.max)
      /\ faults <= 1 /\ rep.number \in DOMAIN dir.tables =>
           rep.copied = dir.tables[rep.number].entries

(* An edit that lists the tables found.                                       *)
Fits(edit) ==
    /\ edit \in Edit
    /\ edit.files = {t.number : t \in rep.found} /\ edit.next = rep.next
    /\ \A t \in rep.found : t.max <= edit.last

(* The new version holds the tables found.                                    *)
VersionWhole ==
    /\ faults = 0 /\ rep.pc \notin {"find", "failed", "current", "done"} =>
         rep.manifests = dir.manifests
    /\ rep.pc \in {"current", "done"} =>
         /\ 1 \in dir.manifests /\ (faults = 0 => dir.manifests = {1})
         /\ Fits(dir.edit)
    /\ rep.pc = "done" => dir.current = 1
    /\ rep.pc = "manifests" => Fits(dir.tmp)

-----------------------------------------------------------------------------
(* Nothing is archived over a table that was archived before, unless it holds *)
(* all of that.  As long as no call failed this is so for every table.  After *)
(* one that failed, in the first run or the second, it is so for the tables   *)
(* that may still be archived: damaged ones, and of those that the second run *)
(* writes, which may get a number that lost/ has, none is scanned.            *)
Archived == {k[2] : k \in {l \in DOMAIN lost : l[1] = "table"}}
Covered(n) ==
    <<"table", n>> \in DOMAIN lost => lost[<<"table", n>>].entries \subseteq dir.tables[n].entries
Fewer == faults = 0 \/ (faults = 1 /\ crashes <= 1)

AllCovered == faults = 0 => \A n \in DOMAIN dir.tables : Covered(n)
DamagedCovered ==
    Fewer => \A n \in DOMAIN dir.tables :
        dir.tables[n].damaged /\ (crashes = 0 \/ rep.pc = "find" \/ n \in Listed(rep.numbers)) =>
            Covered(n)
SourceCovered == Fewer /\ rep.pc = "src" => Covered(rep.number)
NextFresh ==
    (faults = 0 \/ crashes = 0) /\ Running => \A m \in Archived : m < rep.next
(* Without failures a table in lost/ leaves one with a higher number, or its  *)
(* own, in the directory.                                                     *)
SomeBeyond ==
    faults = 0 => \A m \in Archived :
        \E d \in DOMAIN dir.tables : m <= d /\ (d = rep.copy => m <= rep.number)
FirstRun ==
    crashes = 0 /\ rep.pc = "find" => DOMAIN lost = {}

Covers == AllCovered /\ DamagedCovered /\ SourceCovered
FreshNumbers == NextFresh /\ SomeBeyond /\ FirstRun

-----------------------------------------------------------------------------
(* Where an entry is, and where a run that no call disturbed has it.          *)

InLogs(e) == \E n \in DOMAIN dir.logs : e \in dir.logs[n].entries
InTables(e) == \E n \in DOMAIN dir.tables : e \in dir.tables[n].entries
InLost(e) == \E n \in DOMAIN lost : e \in lost[n].entries
Present(e) == InLogs(e) \/ InTables(e) \/ InLost(e)
NothingGone == Fewer => \A e \in began : Present(e)

ToConvert(e) ==
    \E n \in DOMAIN dir.logs : (rep.pc = "archive" => n # Head(rep.logs)) /\ e \in dir.logs[n].entries
ToScan(e) ==
    \E n \in DOMAIN dir.tables :
        (rep.pc = "find" \/ n \in Listed(rep.numbers)) /\ e \in dir.tables[n].entries
Found(e) == \E t \in rep.found : e \in dir.tables[t.number].entries
InHand(e) == ToConvert(e) \/ ToScan(e) \/ Found(e) \/ e \in rep.copied
AllInHand == crashes = 0 /\ faults = 0 => \A e \in began : InHand(e)

(* The inductive invariant.                                                   *)
Lists == NumbersGrow /\ LogsListed /\ TablesListed /\ CopyInPlace /\ SourceCopied /\ VersionWhole
RepairInv == TypeOK /\ Lists /\ Covers /\ FreshNumbers /\ NothingGone /\ AllInHand

-----------------------------------------------------------------------------
(* Lists, directories and greatest elements.                                  *)

(* A set of naturals that is not empty has a least element.                   *)
LEMMA LeastNatural ==
  ASSUME NEW S \in SUBSET Nat, S # {}
  PROVE  \E n \in S : \A m \in S : n <= m
<1>1. PICK n \in S : \A m \in S : ~ (<<m, n>> \in OpToRel(<, Nat))
  BY NatLessThanWellFounded, WFMin, ZenonT(30)
<1>2. \A m \in S : ~(m < n)
  BY <1>1 DEF OpToRel
<1> QED BY <1>2

(* A finite set of naturals is bounded: the smallest that were not would have *)
(* an element without which it is bounded.                                    *)
LEMMA FiniteBounded ==
  ASSUME NEW S \in SUBSET Nat, IsFiniteSet(S)
  PROVE  \E b \in Nat : \A x \in S : x <= b
<1> DEFINE Bounded(T) == \E b \in Nat : \A x \in T : x <= b
           Sizes == {n \in Nat : \E T \in SUBSET Nat :
                       IsFiniteSet(T) /\ Cardinality(T) = n /\ ~Bounded(T)}
<1>1. SUFFICES ASSUME ~Bounded(S) PROVE FALSE
  OBVIOUS
<1>2. Cardinality(S) \in Sizes
  BY <1>1, FS_CardinalityType
<1>3. PICK n \in Sizes : \A m \in Sizes : n <= m
  BY <1>2, LeastNatural
<1>4. PICK T \in SUBSET Nat : IsFiniteSet(T) /\ Cardinality(T) = n /\ ~Bounded(T)
  BY <1>3
<1>5. PICK x \in T : TRUE
  BY <1>4
<1>6. IsFiniteSet(T \ {x}) /\ Cardinality(T \ {x}) = n - 1
  BY <1>4, <1>5, FS_RemoveElement
<1>7. Bounded(T \ {x})
  <2>1. Cardinality(T \ {x}) \in Nat
    BY <1>6, FS_CardinalityType
  <2> QED BY <1>3, <1>6, <2>1
<1>8. PICK b \in Nat : \A y \in T \ {x} : y <= b
  BY <1>7
<1>9. \A y \in T : y <= b + x /\ b + x \in Nat
  BY <1>8
<1> QED BY <1>4, <1>5, <1>9

(* A bounded set of naturals has a greatest element, or is empty: the least   *)
(* of its bounds.                                                             *)
LEMMA Greatest ==
  ASSUME NEW S \in SUBSET Nat, NEW b \in Nat, \A x \in S : x <= b
  PROVE  \E n \in S \cup {0} : \A x \in S : x <= n
<1> DEFINE Bounds == {u \in Nat : \A x \in S : x <= u}
<1>1. PICK u \in Bounds : \A v \in Bounds : u <= v
  BY LeastNatural
<1>2. CASE u \in S \cup {0}
  BY <1>1, <1>2
<1>3. CASE u \notin S \cup {0}
  <2>1. u - 1 \in Bounds
    BY <1>1, <1>3
  <2> QED BY <1>1, <2>1
<1> QED BY <1>2, <1>3

(* An order of a finite set lists each of its elements once.                  *)
LEMMA OrdersList ==
  ASSUME NEW S \in SUBSET Numbers, IsFiniteSet(S), NEW s \in Orders(S)
  PROVE  s \in Seq(Numbers) /\ Distinct(s) /\ Listed(s) = S
<1>1. Cardinality(S) \in Nat
  BY FS_CardinalityType
<1>2. s \in Injection(1..Cardinality(S), S) /\ s \in [1..Cardinality(S) -> S]
  BY DEF Orders, Injection, IsInjective
<1>3. IsFiniteSet(1..Cardinality(S)) /\ Cardinality(1..Cardinality(S)) = Cardinality(S)
  BY <1>1, FS_Interval
<1>4. s \in Surjection(1..Cardinality(S), S)
  BY <1>2, <1>3, FS_Injection
<1>5. Listed(s) = S
  BY <1>2, <1>4 DEF Listed, Surjection
<1>6. s \in Seq(Numbers)
  <2>1. PICK n \in Nat : n = Cardinality(S)
    BY <1>1
  <2>2. s \in [1..n -> Numbers]
    BY <1>2, <2>1
  <2> QED BY <2>2
<1>7. Distinct(s)
  BY <1>2 DEF Distinct, Injection, IsInjective
<1> QED BY <1>5, <1>6, <1>7

(* What is left of a list without its head.                                   *)
LEMMA TailLists ==
  ASSUME NEW s \in Seq(Numbers), s # <<>>, Distinct(s)
  PROVE  /\ Tail(s) \in Seq(Numbers) /\ Head(s) \in Listed(s) /\ Head(s) \in Numbers
         /\ Distinct(Tail(s)) /\ Listed(Tail(s)) = Listed(s) \ {Head(s)}
<1>1. Len(s) \in Nat \ {0} /\ DOMAIN s = 1..Len(s) /\ Head(s) = s[1]
  OBVIOUS
<1>2. /\ Tail(s) \in Seq(Numbers) /\ DOMAIN Tail(s) = 1..(Len(s) - 1)
      /\ \A i \in DOMAIN Tail(s) : Tail(s)[i] = s[i + 1]
  OBVIOUS
<1>3. Distinct(Tail(s))
  BY <1>1, <1>2 DEF Distinct
<1>4. Listed(Tail(s)) \subseteq Listed(s) \ {Head(s)}
  BY <1>1, <1>2 DEF Distinct, Listed
<1>5. ASSUME NEW i \in 1..Len(s), s[i] # Head(s) PROVE s[i] \in Listed(Tail(s))
  <2>1. i - 1 \in DOMAIN Tail(s) /\ Tail(s)[i - 1] = s[i]
    BY <1>1, <1>2, <1>5
  <2> QED BY <2>1 DEF Listed
<1>6. Listed(s) \ {Head(s)} \subseteq Listed(Tail(s))
  BY <1>1, <1>5 DEF Listed
<1>7. Head(s) \in Listed(s) /\ Head(s) \in Numbers
  BY <1>1 DEF Listed
<1> QED BY <1>2, <1>3, <1>4, <1>6, <1>7

(* A list with a number that it did not hold.                                 *)
LEMMA AppendLists ==
  ASSUME NEW s \in Seq(Numbers), NEW n \in Numbers, n \notin Listed(s), Distinct(s)
  PROVE  /\ Append(s, n) \in Seq(Numbers) /\ Distinct(Append(s, n))
         /\ Listed(Append(s, n)) = Listed(s) \cup {n}
<1>1. Len(s) \in Nat /\ DOMAIN s = 1..Len(s)
  OBVIOUS
<1>2. /\ Append(s, n) \in Seq(Numbers) /\ DOMAIN Append(s, n) = 1..(Len(s) + 1)
      /\ \A i \in 1..Len(s) : Append(s, n)[i] = s[i]
      /\ Append(s, n)[Len(s) + 1] = n
  OBVIOUS
<1>3. Distinct(Append(s, n))
  BY <1>1, <1>2 DEF Distinct, Listed
<1>4. Listed(Append(s, n)) \subseteq Listed(s) \cup {n}
  BY <1>1, <1>2 DEF Listed
<1>5. \A i \in 1..Len(s) + 1 : i \in DOMAIN Append(s, n)
  BY <1>2
<1>6. Listed(s) \cup {n} \subseteq Listed(Append(s, n))
  BY <1>1, <1>2 DEF Listed
<1> QED BY <1>2, <1>3, <1>4, <1>6

(* A directory to which a file is written, and one from which it is removed.  *)
Written(g, names, f, n, v) ==
    /\ g \in FilesOver(Known, names)
    /\ DOMAIN g = DOMAIN f \cup {n}
    /\ g[n] = v
    /\ \A m \in DOMAIN f \ {n} : g[m] = f[m]
Removed(g, names, f, n) ==
    /\ g \in FilesOver(Known, names)
    /\ DOMAIN g = DOMAIN f \ {n}
    /\ \A m \in DOMAIN f \ {n} : g[m] = f[m]

(* With writes a file to a directory.                                         *)
LEMMA WithFile ==
  ASSUME NEW names, NEW f \in FilesOver(Known, names), NEW n \in names, NEW v \in FileOf(Known)
  PROVE  Written(With(f, n, v), names, f, n, v)
<1>1. DOMAIN f \in SUBSET names /\ f \in [DOMAIN f -> FileOf(Known)]
  BY DEF FilesOver
<1>2. With(f, n, v) \in [DOMAIN f \cup {n} -> FileOf(Known)]
  BY <1>1 DEF With
<1> QED BY <1>1, <1>2 DEF With, FilesOver, Written

(* Without removes one.                                                       *)
LEMMA WithoutFile ==
  ASSUME NEW names, NEW f \in FilesOver(Known, names), NEW n
  PROVE  Removed(Without(f, n), names, f, n)
<1>1. DOMAIN f \in SUBSET names /\ f \in [DOMAIN f -> FileOf(Known)]
  BY DEF FilesOver
<1>2. Without(f, n) \in [DOMAIN f \ {n} -> FileOf(Known)]
  BY <1>1 DEF Without
<1> QED BY <1>1, <1>2 DEF Without, FilesOver, Removed

(* The names and the files of a directory.                                    *)
LEMMA FilesInside ==
  ASSUME NEW names, NEW f \in FilesOver(Known, names)
  PROVE  /\ DOMAIN f \in SUBSET names
         /\ \A n \in DOMAIN f : f[n] \in FileOf(Known) /\ f[n].entries \in SUBSET Known
BY DEF FilesOver, FileOf

(* LargestSequence is a bound of the sequence numbers, and one of them or 0.      *)
LEMMA MaxSequenceBounds ==
  ASSUME NEW E, NEW w \in Nat, \A e \in E : e.seq \in 0..w
  PROVE  /\ LargestSequence(E) \in 0..w
         /\ \A e \in E : e.seq <= LargestSequence(E)
<1> DEFINE seqs == {0} \cup {e.seq : e \in E}
<1>1. seqs \in SUBSET Nat /\ \A x \in seqs : x <= w
  OBVIOUS
<1>2. PICK n \in seqs \cup {0} : \A x \in seqs : x <= n
  BY <1>1, Greatest
<1>3. \E s \in seqs : \A t \in seqs : t <= s
  BY <1>2
<1>4. LargestSequence(E) \in seqs /\ \A t \in seqs : t <= LargestSequence(E)
  BY <1>3 DEF LargestSequence
<1> QED BY <1>1, <1>4

-----------------------------------------------------------------------------
(* The steps.                                                                 *)

(* The types, field by field.                                                 *)
LEMMA Types ==
  ASSUME TypeOK
  PROVE  /\ dir.logs \in FilesOver(Known, Numbers) /\ dir.tables \in FilesOver(Known, Numbers)
         /\ DOMAIN dir.logs \in SUBSET Numbers /\ DOMAIN dir.tables \in SUBSET Numbers
         /\ \A n \in DOMAIN dir.logs :
              dir.logs[n] \in FileOf(Known) /\ dir.logs[n].entries \in SUBSET Known
         /\ \A n \in DOMAIN dir.tables :
              dir.tables[n] \in FileOf(Known) /\ dir.tables[n].entries \in SUBSET Known
         /\ lost \in FilesOver(Known, LostNames)
         /\ \A k \in DOMAIN lost : k \in LostNames /\ lost[k] \in FileOf(Known)
         /\ \A n : n \in Archived <=> <<"table", n>> \in DOMAIN lost
         /\ Archived \in SUBSET Nat
<1>1. /\ dir.logs \in FilesOver(Known, Numbers) /\ dir.tables \in FilesOver(Known, Numbers)
      /\ lost \in FilesOver(Known, LostNames)
  BY DEF TypeOK, DirTypeOK
<1>2. DOMAIN lost \in SUBSET LostNames /\ \A k \in DOMAIN lost : lost[k] \in FileOf(Known)
  BY <1>1, FilesInside
<1>3. /\ DOMAIN dir.logs \in SUBSET Numbers /\ DOMAIN dir.tables \in SUBSET Numbers
      /\ \A n \in DOMAIN dir.logs :
           dir.logs[n] \in FileOf(Known) /\ dir.logs[n].entries \in SUBSET Known
      /\ \A n \in DOMAIN dir.tables :
           dir.tables[n] \in FileOf(Known) /\ dir.tables[n].entries \in SUBSET Known
  BY <1>1, FilesInside
<1>4. \A n : n \in Archived <=> <<"table", n>> \in DOMAIN lost
  <2>1. \A k \in DOMAIN lost : k = <<k[1], k[2]>> /\ k[2] \in Nat
    BY <1>2 DEF LostNames
  <2>2. ASSUME NEW n, n \in Archived PROVE <<"table", n>> \in DOMAIN lost
    <3>1. PICK k \in DOMAIN lost : k[1] = "table" /\ k[2] = n
      BY <2>2 DEF Archived
    <3> QED BY <2>1, <3>1
  <2>3. ASSUME NEW n, <<"table", n>> \in DOMAIN lost PROVE n \in Archived
    BY <2>3 DEF Archived
  <2> QED BY <2>2, <2>3
<1>5. Archived \in SUBSET Nat
  BY <1>2 DEF Archived, LostNames
<1> QED BY <1>1, <1>2, <1>3, <1>4, <1>5

(* A file of some of the entries, and one that is not finished.               *)
LEMMA Held ==
  ASSUME NEW E \in SUBSET Known
  PROVE  /\ Holding(E, FALSE) \in FileOf(Known) /\ Unfinished \in FileOf(Known)
         /\ Holding(E, FALSE).entries = E /\ ~Holding(E, FALSE).damaged
         /\ Unfinished.entries = {} /\ Unfinished.damaged
BY DEF Holding, Unfinished, FileOf

(* What holds because no call, or k of them, fail.                            *)
FaultsGrow(k) ==
    /\ faults' \in Nat /\ faults' = faults + k
    /\ faults' = 0 => faults = 0 /\ k = 0
    /\ faults' <= 1 => faults <= 1 /\ (k # 0 => faults = 0)
    /\ Fewer' => Fewer /\ (k # 0 => faults = 0) /\ k <= 1

(* That is what k failing calls mean.                                         *)
LEMMA FailingGrows ==
  ASSUME TypeOK, NEW k \in Nat, faults' = faults + k, crashes' = crashes
  PROVE  FaultsGrow(k)
BY DEF TypeOK, Fewer, FaultsGrow

(* A table is written under the next number.                                  *)
Added(f) ==
    /\ dir'.tables \in FilesOver(Known, Numbers) /\ IsFiniteSet(DOMAIN dir'.tables)
    /\ rep.next \in Numbers /\ rep.next \notin DOMAIN dir.tables
    /\ DOMAIN dir'.tables = DOMAIN dir.tables \cup {rep.next}
    /\ dir'.tables[rep.next] = f
    /\ \A n \in DOMAIN dir.tables : dir'.tables[n] = dir.tables[n]

(* With does that, as the next number is new.                                 *)
LEMMA NewTable ==
  ASSUME TypeOK, NumbersGrow, LogsListed, Running, NEW f \in FileOf(Known),
         dir'.tables = With(dir.tables, rep.next, f)
  PROVE  Added(f)
<1>1. rep.next \in Numbers /\ rep.next \notin DOMAIN dir.tables
  <2>1. rep.next \in Nat
    BY DEF TypeOK, RepTypeOK
  <2>2. \A n \in DOMAIN dir.tables : n \in Nat
    BY Types DEF Numbers
  <2> QED BY <2>1, <2>2 DEF NumbersGrow, Numbers
<1>2. Written(dir'.tables, Numbers, dir.tables, rep.next, f)
  BY <1>1, Types, WithFile
<1>3. IsFiniteSet(DOMAIN dir'.tables)
  BY <1>2, FS_AddElement DEF LogsListed, Written
<1> QED BY <1>1, <1>2, <1>3 DEF Added, Written

(* A step that changes nothing.                                               *)
LEMMA StutterKeepsInv ==
  ASSUME RepairInv, UNCHANGED vars
  PROVE  RepairInv'
<1>1. dir' = dir /\ lost' = lost /\ rep' = rep /\ began' = began /\ crashes' = crashes /\ faults' = faults
  BY DEF vars
<1>2. TypeOK'
  BY <1>1 DEF RepairInv, TypeOK, DirTypeOK, RepTypeOK, Known
<1>3. Lists'
  BY <1>1 DEF RepairInv, Lists, Running, NumbersGrow, LogsListed, TablesListed, CopyInPlace, SourceCopied,
              Copying, VersionWhole, Fits
<1>4. Archived' = Archived
  BY <1>1 DEF Archived
<1>5. Covers' /\ FreshNumbers'
  BY <1>1, <1>4 DEF RepairInv, Covers, FreshNumbers, AllCovered, DamagedCovered, SourceCovered, Covered,
                    NextFresh, SomeBeyond, FirstRun, Fewer, Running
<1>6. NothingGone'
  BY <1>1 DEF RepairInv, NothingGone, Present, InLogs, InTables, InLost, Fewer
<1>7. AllInHand'
  BY <1>1 DEF RepairInv, AllInHand, InHand, ToConvert, ToScan, Found
<1> QED BY <1>2, <1>3, <1>5, <1>6, <1>7 DEF RepairInv

(* The steps that write the new version leave logs and tables alone.          *)
LEMMA VersionSteps ==
  ASSUME RepairInv, TypeOK', VersionWhole',
         dir'.logs = dir.logs, dir'.tables = dir.tables,
         UNCHANGED <<lost, began, crashes>>, NEW k \in Nat, faults' = faults + k,
         rep.pc \in {"convert", "manifests", "current"}, rep.logs = <<>>, rep.numbers = <<>>,
         rep'.pc \in {"manifests", "current", "done", "failed"},
         rep'.logs = rep.logs, rep'.numbers = rep.numbers, rep'.next = rep.next,
         rep'.found = rep.found, rep'.copy = rep.copy, rep'.number = rep.number,
         rep'.copied = rep.copied
  PROVE  RepairInv'
<1> USE DEF RepairInv, Lists
<1>1. FaultsGrow(k)
  BY FailingGrows
<1>2. NumbersGrow' /\ LogsListed'
  BY <1>1 DEF NumbersGrow, LogsListed, Running, FaultsGrow
<1>3. TablesListed'
  BY <1>1 DEF TablesListed, FaultsGrow
<1>4. CopyInPlace' /\ SourceCopied'
  BY DEF CopyInPlace, Copying, SourceCopied
<1>5. Archived' = Archived
  BY DEF Archived
<1>6. Covers'
  <2>1. \A n : Covered(n)' <=> Covered(n)
    BY DEF Covered
  <2>2. Listed(<<>>) = {}
    BY DEF Listed
  <2>3. DamagedCovered'
    BY <1>1, <2>1, <2>2 DEF Covers, DamagedCovered, FaultsGrow
  <2> QED BY <1>1, <2>1, <2>3 DEF Covers, AllCovered, SourceCovered, FaultsGrow
<1>7. FreshNumbers'
  BY <1>1, <1>5 DEF FreshNumbers, NextFresh, SomeBeyond, FirstRun, Running, FaultsGrow
<1>8. NothingGone'
  BY <1>1 DEF NothingGone, Present, InLogs, InTables, InLost, FaultsGrow
<1>9. AllInHand'
  BY <1>1 DEF AllInHand, InHand, ToConvert, ToScan, Found, FaultsGrow
<1> QED BY <1>2, <1>3, <1>4, <1>6, <1>7, <1>8, <1>9

(* The edit lists the tables found, and its last sequence number is beyond    *)
(* theirs.                                                                    *)
LEMMA InstalledFits ==
  ASSUME TypeOK
  PROVE  Fits(Installed)
<1> DEFINE maxes == {[seq |-> t.max] : t \in rep.found}
<1>1. rep.found \in SUBSET Infos /\ rep.next \in Nat
  BY DEF TypeOK, RepTypeOK
<1>2. \A m \in maxes : m.seq \in 0..kMaxSequenceNumber
  BY <1>1 DEF Infos
<1>3. LargestSequence(maxes) \in Nat /\ \A m \in maxes : m.seq <= LargestSequence(maxes)
  BY <1>2, MaxSequenceBounds, RepairAssumption
<1>4. Installed = [log |-> 0, next |-> rep.next, files |-> {t.number : t \in rep.found},
                   last |-> LargestSequence(maxes)]
  BY DEF Installed
<1> HIDE DEF maxes
<1>5. ASSUME NEW t \in rep.found PROVE t.max <= LargestSequence(maxes)
  <2>1. [seq |-> t.max] \in maxes /\ [seq |-> t.max].seq = t.max
    BY DEF maxes
  <2> QED BY <1>3, <2>1
<1>6. {t.number : t \in rep.found} \in SUBSET Nat
  BY <1>1 DEF Infos
<1>7. Installed \in Edit
  BY <1>1, <1>3, <1>4, <1>6 DEF Edit
<1> QED BY <1>4, <1>5, <1>7 DEF Fits

(* The edit is written to the temporary file, or the repair ends.             *)
LEMMA WriteTemporaryKeepsInv ==
  ASSUME RepairInv, WriteTemporary
  PROVE  RepairInv'
<1> USE DEF RepairInv, Lists
<1>1. /\ rep.pc = "convert" /\ rep.logs = <<>> /\ rep.numbers = <<>>
      /\ UNCHANGED <<lost, began, crashes>>
  BY DEF WriteTemporary
<1>2. ASSUME NEW k \in Nat, faults' = faults + k, NEW tmp \in Edit \cup {NULL, Unfinished},
             dir' = [dir EXCEPT !.tmp = tmp], NEW pc \in {"manifests", "failed"},
             rep' = [rep EXCEPT !.pc = pc], pc = "manifests" => Fits(tmp)
      PROVE  RepairInv'
  <2>1. FaultsGrow(k)
    BY <1>1, <1>2, FailingGrows
  <2>2. TypeOK'
    BY <1>1, <1>2, <2>1 DEF TypeOK, DirTypeOK, RepTypeOK, Known, States, FaultsGrow
  <2>3. VersionWhole'
    BY <1>1, <1>2, <2>1 DEF VersionWhole, TypeOK, DirTypeOK, RepTypeOK, Fits, FaultsGrow
  <2> QED BY <1>1, <1>2, <2>2, <2>3, VersionSteps DEF TypeOK, DirTypeOK, RepTypeOK
<1>3. ASSUME dir' = dir PROVE dir' = [dir EXCEPT !.tmp = dir.tmp] /\ dir.tmp \in Edit \cup {NULL, Unfinished}
  BY <1>3 DEF TypeOK, DirTypeOK
<1>4. Fits(Installed) /\ Installed \in Edit
  BY InstalledFits DEF Fits
<1>5. CASE Failing(0) /\ dir' = [dir EXCEPT !.tmp = Installed] /\ rep' = [rep EXCEPT !.pc = "manifests"]
  BY <1>2, <1>4, <1>5 DEF Failing
<1>6. CASE Failing(1) /\ dir' = [dir EXCEPT !.tmp = NULL] /\ rep' = [rep EXCEPT !.pc = "failed"]
  BY <1>2, <1>6 DEF Failing
<1>7. CASE Failing(1) /\ dir' = dir /\ rep' = [rep EXCEPT !.pc = "failed"]
  BY <1>2, <1>3, <1>7 DEF Failing
<1>8. CASE Failing(2) /\ dir' = [dir EXCEPT !.tmp = Unfinished] /\ rep' = [rep EXCEPT !.pc = "failed"]
  BY <1>2, <1>8 DEF Failing
<1> QED BY <1>5, <1>6, <1>7, <1>8 DEF WriteTemporary

(* An old MANIFEST is archived, or stays.                                     *)
LEMMA ArchiveManifestKeepsInv ==
  ASSUME RepairInv, ArchiveManifest
  PROVE  RepairInv'
<1> USE DEF RepairInv, Lists
<1>1. rep.pc = "manifests" /\ UNCHANGED <<lost, began, crashes>>
  BY DEF ArchiveManifest
<1>2. rep.logs = <<>> /\ rep.numbers = <<>>
  BY <1>1 DEF LogsListed, TablesListed
<1>3. PICK m \in rep.manifests :
        /\ rep' = [rep EXCEPT !.manifests = @ \ {m}]
        /\ \/ Failing(0) /\ dir' = [dir EXCEPT !.manifests = @ \ {m}]
           \/ Failing(1) /\ dir' = dir
  BY DEF ArchiveManifest
<1>4. PICK k \in {0, 1}, left \in SUBSET Nat :
        /\ faults' = faults + k /\ dir' = [dir EXCEPT !.manifests = left]
        /\ k = 0 => left = dir.manifests \ {m}
  <2>1. dir = [dir EXCEPT !.manifests = dir.manifests] /\ dir.manifests \in SUBSET Nat
    BY DEF TypeOK, DirTypeOK
  <2>2. CASE Failing(0) /\ dir' = [dir EXCEPT !.manifests = @ \ {m}]
    <3>1. dir.manifests \ {m} \in SUBSET Nat
      BY <2>1
    <3>2. faults' = faults + 0 /\ dir' = [dir EXCEPT !.manifests = dir.manifests \ {m}]
      BY <2>2 DEF Failing
    <3> QED BY <3>1, <3>2
  <2>3. CASE Failing(1) /\ dir' = dir
    <3>1. faults' = faults + 1 /\ dir' = [dir EXCEPT !.manifests = dir.manifests]
      BY <2>1, <2>3 DEF Failing
    <3> QED BY <2>1, <3>1
  <2> QED BY <1>3, <2>2, <2>3
<1>5. FaultsGrow(k)
  BY <1>1, <1>4, FailingGrows
<1>6. TypeOK'
  BY <1>1, <1>3, <1>4, <1>5 DEF TypeOK, DirTypeOK, RepTypeOK, Known, FaultsGrow
<1>7. VersionWhole'
  BY <1>1, <1>3, <1>4, <1>5 DEF VersionWhole, TypeOK, DirTypeOK, RepTypeOK, Fits, FaultsGrow
<1> QED BY <1>1, <1>2, <1>3, <1>4, <1>6, <1>7, VersionSteps DEF TypeOK, DirTypeOK, RepTypeOK

(* The temporary file becomes the MANIFEST, or the repair ends.               *)
LEMMA InstallManifestKeepsInv ==
  ASSUME RepairInv, InstallManifest
  PROVE  RepairInv'
<1> USE DEF RepairInv, Lists
<1>1. rep.pc = "manifests" /\ rep.manifests = {} /\ UNCHANGED <<lost, began, crashes>>
  BY DEF InstallManifest
<1>2. rep.logs = <<>> /\ rep.numbers = <<>>
  BY <1>1 DEF LogsListed, TablesListed
<1>3. CASE /\ Failing(0)
           /\ dir' = [dir EXCEPT !.manifests = @ \cup {1}, !.edit = dir.tmp, !.tmp = NULL]
           /\ rep' = [rep EXCEPT !.pc = "current"]
  <2>1. faults' = faults + 0
    BY <1>3 DEF Failing
  <2>2. FaultsGrow(0)
    BY <1>1, <2>1, FailingGrows
  <2>3. dir' = [logs |-> dir.logs, tables |-> dir.tables, manifests |-> dir.manifests \cup {1},
                current |-> dir.current, tmp |-> NULL, edit |-> dir.tmp]
    BY <1>3 DEF TypeOK, DirTypeOK
  <2>4. TypeOK'
    <3>1. DirTypeOK'
      BY <1>1, <2>3 DEF TypeOK, DirTypeOK, Known
    <3>2. RepTypeOK'
      BY <1>1, <1>3 DEF TypeOK, RepTypeOK, Known, States
    <3> QED BY <1>1, <2>2, <3>1, <3>2 DEF TypeOK, Known, FaultsGrow
  <2>5. VersionWhole'
    BY <1>1, <1>3, <2>2, <2>3 DEF VersionWhole, TypeOK, RepTypeOK, Fits, FaultsGrow
  <2> QED BY <1>1, <1>2, <1>3, <2>1, <2>3, <2>4, <2>5, VersionSteps DEF TypeOK, RepTypeOK
<1>4. ASSUME NEW k \in Nat, faults' = faults + k, NEW tmp \in Edit \cup {NULL, Unfinished},
             dir' = [dir EXCEPT !.tmp = tmp], rep' = [rep EXCEPT !.pc = "failed"]
      PROVE  RepairInv'
  <2>1. FaultsGrow(k)
    BY <1>1, <1>4, FailingGrows
  <2>2. TypeOK'
    BY <1>1, <1>4, <2>1 DEF TypeOK, DirTypeOK, RepTypeOK, Known, States, FaultsGrow
  <2>3. VersionWhole'
    BY <1>1, <1>4 DEF VersionWhole, TypeOK, RepTypeOK
  <2> QED BY <1>1, <1>2, <1>4, <2>2, <2>3, VersionSteps DEF TypeOK, DirTypeOK, RepTypeOK
<1>5. CASE Failing(1) /\ dir' = [dir EXCEPT !.tmp = NULL] /\ rep' = [rep EXCEPT !.pc = "failed"]
  BY <1>4, <1>5 DEF Failing
<1>6. CASE Failing(2) /\ dir' = dir /\ rep' = [rep EXCEPT !.pc = "failed"]
  <2>1. dir' = [dir EXCEPT !.tmp = dir.tmp] /\ dir.tmp \in Edit \cup {NULL, Unfinished}
    BY <1>6 DEF TypeOK, DirTypeOK
  <2> QED BY <1>4, <1>6, <2>1 DEF Failing
<1> QED BY <1>3, <1>5, <1>6 DEF InstallManifest

(* CURRENT names the new MANIFEST, or the repair ends.                        *)
LEMMA SetCurrentKeepsInv ==
  ASSUME RepairInv, SetCurrent
  PROVE  RepairInv'
<1> USE DEF RepairInv, Lists
<1>1. rep.pc = "current" /\ UNCHANGED <<lost, began, crashes>>
  BY DEF SetCurrent
<1>2. rep.logs = <<>> /\ rep.numbers = <<>>
  BY <1>1 DEF LogsListed, TablesListed
<1>3. ASSUME NEW k \in Nat, faults' = faults + k, NEW tmp \in Edit \cup {NULL, Unfinished},
             NEW current \in Nat, dir' = [dir EXCEPT !.tmp = tmp, !.current = current],
             NEW pc \in {"done", "failed"}, pc = "done" => current = 1,
             rep' = [rep EXCEPT !.pc = pc]
      PROVE  RepairInv'
  <2>1. FaultsGrow(k)
    BY <1>1, <1>3, FailingGrows
  <2>2. dir' = [logs |-> dir.logs, tables |-> dir.tables, manifests |-> dir.manifests,
                current |-> current, tmp |-> tmp, edit |-> dir.edit]
    BY <1>3 DEF TypeOK, DirTypeOK
  <2>3. TypeOK'
    <3>1. DirTypeOK'
      BY <1>1, <2>2 DEF TypeOK, DirTypeOK, Known
    <3>2. RepTypeOK'
      BY <1>1, <1>3 DEF TypeOK, RepTypeOK, Known, States
    <3> QED BY <1>1, <2>1, <3>1, <3>2 DEF TypeOK, Known, FaultsGrow
  <2>4. VersionWhole'
    BY <1>1, <1>3, <2>1, <2>2 DEF VersionWhole, TypeOK, RepTypeOK, Fits, FaultsGrow
  <2> QED BY <1>1, <1>2, <1>3, <2>2, <2>3, <2>4, VersionSteps DEF TypeOK, RepTypeOK
<1>4. dir.tmp \in Edit \cup {NULL, Unfinished} /\ dir.current \in Nat
      /\ dir = [dir EXCEPT !.tmp = dir.tmp, !.current = dir.current]
      /\ [dir EXCEPT !.current = 1] = [dir EXCEPT !.tmp = dir.tmp, !.current = 1]
      /\ [dir EXCEPT !.tmp = Unfinished] = [dir EXCEPT !.tmp = Unfinished, !.current = dir.current]
  BY DEF TypeOK, DirTypeOK
<1>5. CASE Failing(0) /\ dir' = [dir EXCEPT !.current = 1] /\ rep' = [rep EXCEPT !.pc = "done"]
  BY <1>3, <1>4, <1>5 DEF Failing
<1>6. CASE Failing(1) /\ dir' = dir /\ rep' = [rep EXCEPT !.pc = "failed"]
  BY <1>3, <1>4, <1>6 DEF Failing
<1>7. CASE Failing(2) /\ dir' = [dir EXCEPT !.tmp = Unfinished] /\ rep' = [rep EXCEPT !.pc = "failed"]
  BY <1>3, <1>4, <1>7 DEF Failing
<1> QED BY <1>5, <1>6, <1>7 DEF SetCurrent

(* What a log has become: its table, if there is one, has the next number; it *)
(* is listed and holds what was read, unless a call failed.                   *)
Converted(k, E) ==
    /\ faults' = faults + k
    /\ dir' = [logs |-> dir.logs, tables |-> dir'.tables, manifests |-> dir.manifests,
               current |-> dir.current, tmp |-> dir.tmp, edit |-> dir.edit]
    /\ rep' = [pc |-> "archive", logs |-> rep.logs, numbers |-> rep'.numbers,
               manifests |-> rep.manifests, next |-> rep'.next, found |-> rep.found,
               copy |-> rep.copy, number |-> rep.number, max |-> rep.max, copied |-> rep.copied]
    /\ rep'.next \in {rep.next, rep.next + 1}
    /\ dir'.tables \in FilesOver(Known, Numbers) /\ IsFiniteSet(DOMAIN dir'.tables)
    /\ DOMAIN dir.tables \subseteq DOMAIN dir'.tables
    /\ \A n \in DOMAIN dir.tables : dir'.tables[n] = dir.tables[n]
    /\ \A n \in DOMAIN dir'.tables \ DOMAIN dir.tables :
         /\ n = rep.next /\ rep'.next = rep.next + 1
         /\ k <= 1 => ~dir'.tables[n].damaged
    /\ rep'.numbers \in Seq(Numbers) /\ Distinct(rep'.numbers)
    /\ Listed(rep.numbers) \subseteq Listed(rep'.numbers)
    /\ Listed(rep'.numbers) \subseteq Listed(rep.numbers) \cup (DOMAIN dir'.tables \ DOMAIN dir.tables)
    /\ k = 0 => \A e \in E : \E n \in Listed(rep'.numbers) :
                  n \in DOMAIN dir'.tables /\ e \in dir'.tables[n].entries

(* A log is read, whether calls fail or not.                                  *)
LEMMA LogConverted ==
  ASSUME RepairInv, ConvertLogToTable
  PROVE  \E k \in {0, 1, 2} : Converted(k, dir.logs[Head(rep.logs)].entries)
<1> DEFINE E == dir.logs[Head(rep.logs)].entries
<1> USE DEF RepairInv, Lists
<1>1. rep.pc = "convert" /\ rep.logs # <<>> /\ UNCHANGED <<lost, began, crashes>> /\ Running
  BY DEF ConvertLogToTable, Running
<1>2. /\ rep.numbers \in Seq(Numbers) /\ Distinct(rep.numbers) /\ rep.logs \in Seq(Numbers)
      /\ Listed(rep.numbers) \subseteq DOMAIN dir.tables
      /\ dir.tables \in FilesOver(Known, Numbers) /\ IsFiniteSet(DOMAIN dir.tables)
      /\ rep.next \in Nat
  BY <1>1, Types DEF TypeOK, RepTypeOK, TablesListed, LogsListed
<1>3. E \in SUBSET Known
  <2>1. Head(rep.logs) \in DOMAIN dir.logs
    BY <1>1, <1>2, TailLists DEF LogsListed
  <2> QED BY <2>1, Types
<1> HIDE DEF E
<1>4. ASSUME NEW k \in {0, 1}, faults' = faults + k, NEW read \in SUBSET E, Convert(read),
             k = 0 => read = E
      PROVE  Converted(k, E)
  <2>1. CASE read = {}
    <3>1. dir' = dir /\ rep' = [rep EXCEPT !.pc = "archive", !.next = @ + 1, !.numbers = @]
      BY <1>4, <2>1 DEF Convert
    <3>2. dir' = [logs |-> dir.logs, tables |-> dir.tables, manifests |-> dir.manifests,
                  current |-> dir.current, tmp |-> dir.tmp, edit |-> dir.edit]
      BY <3>1 DEF TypeOK, DirTypeOK
    <3>3. rep' = [pc |-> "archive", logs |-> rep.logs, numbers |-> rep.numbers,
                  manifests |-> rep.manifests, next |-> rep.next + 1, found |-> rep.found,
                  copy |-> rep.copy, number |-> rep.number, max |-> rep.max, copied |-> rep.copied]
      BY <3>1 DEF TypeOK, RepTypeOK
    <3> QED BY <1>2, <1>4, <2>1, <3>2, <3>3 DEF Converted
  <2>2. CASE read # {}
    <3> DEFINE f == Holding(read, FALSE)
    <3>1. /\ dir' = [dir EXCEPT !.tables = With(@, rep.next, f)]
          /\ rep' = [rep EXCEPT !.pc = "archive", !.next = @ + 1, !.numbers = Append(@, rep.next)]
      BY <1>4, <2>2 DEF Convert
    <3>2. f \in FileOf(Known) /\ f.entries = read /\ ~f.damaged
      BY <1>3, <1>4, Held
    <3> HIDE DEF f
    <3>3. dir' = [logs |-> dir.logs, tables |-> With(dir.tables, rep.next, f),
                  manifests |-> dir.manifests, current |-> dir.current, tmp |-> dir.tmp,
                  edit |-> dir.edit]
      BY <3>1 DEF TypeOK, DirTypeOK
    <3>4. rep' = [pc |-> "archive", logs |-> rep.logs, numbers |-> Append(rep.numbers, rep.next),
                  manifests |-> rep.manifests, next |-> rep.next + 1, found |-> rep.found,
                  copy |-> rep.copy, number |-> rep.number, max |-> rep.max, copied |-> rep.copied]
      BY <3>1 DEF TypeOK, RepTypeOK
    <3>5. Added(f)
      BY <1>1, <3>2, <3>3, NewTable
    <3>6. /\ rep'.numbers \in Seq(Numbers) /\ Distinct(rep'.numbers)
          /\ Listed(rep'.numbers) = Listed(rep.numbers) \cup {rep.next}
      BY <1>2, <3>4, <3>5, AppendLists DEF Added
    <3>7. dir'.tables = With(dir.tables, rep.next, f) /\ rep'.numbers = Append(rep.numbers, rep.next)
          /\ rep'.next = rep.next + 1
      BY <3>3, <3>4
    <3>8. /\ dir'.tables \in FilesOver(Known, Numbers) /\ IsFiniteSet(DOMAIN dir'.tables)
          /\ DOMAIN dir'.tables = DOMAIN dir.tables \cup {rep.next} /\ rep.next \notin DOMAIN dir.tables
          /\ \A n \in DOMAIN dir.tables : dir'.tables[n] = dir.tables[n]
          /\ dir'.tables[rep.next].entries = read /\ ~dir'.tables[rep.next].damaged
      BY <3>2, <3>5 DEF Added
    <3>9. k = 0 => \A e \in E : \E n \in Listed(rep'.numbers) :
                     n \in DOMAIN dir'.tables /\ e \in dir'.tables[n].entries
      BY <1>4, <3>6, <3>8
    <3>10. dir' = [logs |-> dir.logs, tables |-> dir'.tables, manifests |-> dir.manifests,
                   current |-> dir.current, tmp |-> dir.tmp, edit |-> dir.edit]
           /\ rep' = [pc |-> "archive", logs |-> rep.logs, numbers |-> rep'.numbers,
                      manifests |-> rep.manifests, next |-> rep'.next, found |-> rep.found,
                      copy |-> rep.copy, number |-> rep.number, max |-> rep.max,
                      copied |-> rep.copied]
      BY <3>3, <3>4, <3>7
    <3> QED BY <1>4, <3>6, <3>7, <3>8, <3>9, <3>10 DEF Converted
  <2> QED BY <2>1, <2>2
<1>5. ASSUME NEW opened \in {0, 1}, faults' = faults + 1, dir' = dir,
             rep' = [rep EXCEPT !.pc = "archive", !.next = @ + opened]
      PROVE  Converted(1, E)
  <2>1. PICK next \in {rep.next, rep.next + 1} : next = rep.next + opened
    BY <1>2
  <2>2. rep' = [pc |-> "archive", logs |-> rep.logs, numbers |-> rep.numbers,
                manifests |-> rep.manifests, next |-> next, found |-> rep.found,
                copy |-> rep.copy, number |-> rep.number, max |-> rep.max, copied |-> rep.copied]
    BY <1>5, <2>1 DEF TypeOK, RepTypeOK
  <2>3. dir' = [logs |-> dir.logs, tables |-> dir.tables, manifests |-> dir.manifests,
                current |-> dir.current, tmp |-> dir.tmp, edit |-> dir.edit]
    BY <1>5 DEF TypeOK, DirTypeOK
  <2>4. rep'.next = next /\ rep'.numbers = rep.numbers /\ dir'.tables = dir.tables
    BY <2>2, <2>3
  <2>5. /\ dir' = [logs |-> dir.logs, tables |-> dir'.tables, manifests |-> dir.manifests,
                   current |-> dir.current, tmp |-> dir.tmp, edit |-> dir.edit]
        /\ rep' = [pc |-> "archive", logs |-> rep.logs, numbers |-> rep'.numbers,
                   manifests |-> rep.manifests, next |-> rep'.next, found |-> rep.found,
                   copy |-> rep.copy, number |-> rep.number, max |-> rep.max,
                   copied |-> rep.copied]
    BY <2>2, <2>3, <2>4
  <2> QED BY <1>2, <1>5, <2>1, <2>4, <2>5 DEF Converted
<1>6. ASSUME NEW f \in FileOf(Known), faults' = faults + 2,
             dir' = [dir EXCEPT !.tables = With(@, rep.next, f)],
             rep' = [rep EXCEPT !.pc = "archive", !.next = @ + 1]
      PROVE  Converted(2, E)
  <2>1. dir' = [logs |-> dir.logs, tables |-> With(dir.tables, rep.next, f),
                manifests |-> dir.manifests, current |-> dir.current, tmp |-> dir.tmp,
                edit |-> dir.edit]
    BY <1>6 DEF TypeOK, DirTypeOK
  <2>2. rep' = [pc |-> "archive", logs |-> rep.logs, numbers |-> rep.numbers,
                manifests |-> rep.manifests, next |-> rep.next + 1, found |-> rep.found,
                copy |-> rep.copy, number |-> rep.number, max |-> rep.max, copied |-> rep.copied]
    BY <1>6 DEF TypeOK, RepTypeOK
  <2>3. Added(f)
    BY <1>1, <2>1, NewTable
  <2>4. rep'.next = rep.next + 1 /\ rep'.numbers = rep.numbers
    BY <2>2
  <2>5. /\ dir' = [logs |-> dir.logs, tables |-> dir'.tables, manifests |-> dir.manifests,
                   current |-> dir.current, tmp |-> dir.tmp, edit |-> dir.edit]
        /\ rep' = [pc |-> "archive", logs |-> rep.logs, numbers |-> rep'.numbers,
                   manifests |-> rep.manifests, next |-> rep'.next, found |-> rep.found,
                   copy |-> rep.copy, number |-> rep.number, max |-> rep.max,
                   copied |-> rep.copied]
    BY <2>1, <2>2, <2>4
  <2> QED BY <1>2, <1>6, <2>3, <2>4, <2>5 DEF Converted, Added
<1>7. \A f \in {Unfinished, Holding(E, FALSE)} : f \in FileOf(Known)
  BY <1>3, Held
<1>8. CASE Failing(0) /\ Convert(E)
  BY <1>4, <1>8 DEF Failing, E
<1>9. CASE Failing(1) /\ \E read \in SUBSET E : Convert(read)
  BY <1>4, <1>9 DEF Failing, E
<1>10. CASE /\ Failing(1) /\ dir' = dir
            /\ \E opened \in {0, 1} : rep' = [rep EXCEPT !.pc = "archive", !.next = @ + opened]
  BY <1>5, <1>10 DEF Failing, E
<1>11. CASE /\ Failing(2)
            /\ \E left \in {Unfinished, Holding(E, FALSE)} :
                 dir' = [dir EXCEPT !.tables = With(@, rep.next, left)]
            /\ rep' = [rep EXCEPT !.pc = "archive", !.next = @ + 1]
  BY <1>6, <1>7, <1>11 DEF Failing, E
<1> QED BY <1>8, <1>9, <1>10, <1>11 DEF ConvertLogToTable, E

(* A log is read, and its entries become a table.                             *)
LEMMA ConvertKeepsInv ==
  ASSUME RepairInv, ConvertLogToTable
  PROVE  RepairInv'
<1> DEFINE h == Head(rep.logs)
           E == dir.logs[h].entries
<1> USE DEF RepairInv, Lists
<1>1. /\ rep.pc = "convert" /\ rep.logs # <<>>
      /\ lost' = lost /\ began' = began /\ crashes' = crashes /\ Running
  BY DEF ConvertLogToTable, Running
<1>2. PICK k \in {0, 1, 2} : Converted(k, E)
  BY LogConverted
<1>3. FaultsGrow(k)
  BY <1>1, <1>2, FailingGrows DEF Converted
<1>4. /\ rep'.pc = "archive" /\ rep'.logs = rep.logs /\ rep'.manifests = rep.manifests
      /\ rep'.found = rep.found /\ rep'.copy = rep.copy /\ rep'.number = rep.number
      /\ rep'.copied = rep.copied /\ dir'.logs = dir.logs /\ dir'.manifests = dir.manifests
      /\ rep.next \in Nat /\ rep'.next \in Nat /\ rep.next <= rep'.next
  <2>1. rep.next \in Nat
    BY DEF TypeOK, RepTypeOK
  <2> QED BY <1>2, <2>1 DEF Converted
<1>5. h \in DOMAIN dir.logs
  BY <1>1, TailLists DEF LogsListed, TypeOK, RepTypeOK
<1> HIDE DEF E, h
<1>6. /\ dir'.tables \in FilesOver(Known, Numbers) /\ IsFiniteSet(DOMAIN dir'.tables)
      /\ DOMAIN dir.tables \subseteq DOMAIN dir'.tables
      /\ \A n \in DOMAIN dir.tables : dir'.tables[n] = dir.tables[n]
      /\ \A n \in DOMAIN dir'.tables \ DOMAIN dir.tables :
           n = rep.next /\ rep'.next = rep.next + 1 /\ (k <= 1 => ~dir'.tables[n].damaged)
      /\ rep'.numbers \in Seq(Numbers) /\ Distinct(rep'.numbers)
      /\ Listed(rep.numbers) \subseteq Listed(rep'.numbers)
      /\ Listed(rep'.numbers) \subseteq Listed(rep.numbers) \cup (DOMAIN dir'.tables \ DOMAIN dir.tables)
  BY <1>2 DEF Converted
<1>7. TypeOK'
  <2>1. DirTypeOK'
    BY <1>1, <1>2 DEF TypeOK, DirTypeOK, Known, Converted
  <2>2. RepTypeOK'
    <3>1. PICK numbers \in Seq(Numbers), next \in Nat : numbers = rep'.numbers /\ next = rep'.next
      BY <1>4, <1>6
    <3>2. rep' = [pc |-> "archive", logs |-> rep.logs, numbers |-> numbers,
                  manifests |-> rep.manifests, next |-> next, found |-> rep.found,
                  copy |-> rep.copy, number |-> rep.number, max |-> rep.max, copied |-> rep.copied]
      BY <1>2, <3>1 DEF Converted
    <3> QED BY <1>1, <3>2 DEF TypeOK, RepTypeOK, Known, States
  <2> QED BY <1>1, <1>3, <2>1, <2>2 DEF TypeOK, Known, FaultsGrow
<1>8. NumbersGrow'
  <2>1. /\ \A n \in DOMAIN dir.tables : n \in Nat /\ n < rep.next
        /\ \A n \in DOMAIN dir.logs : n \in Nat /\ n < rep.next
        /\ rep.next # 0
    BY <1>1, Types DEF NumbersGrow, Numbers
  <2> QED BY <1>4, <1>6, <2>1 DEF NumbersGrow
<1>9. LogsListed'
  BY <1>1, <1>3, <1>4, <1>6 DEF LogsListed, Running, FaultsGrow
<1>10. TablesListed'
  BY <1>1, <1>3, <1>4, <1>6 DEF TablesListed, CopyInPlace, Copying, FaultsGrow
<1>11. CopyInPlace' /\ SourceCopied'
  BY <1>1, <1>4 DEF CopyInPlace, Copying, SourceCopied
<1>12. VersionWhole'
  BY <1>1, <1>3, <1>4 DEF VersionWhole, FaultsGrow
<1>13. Covers'
  <2>1. \A n \in DOMAIN dir.tables : Covered(n) => Covered(n)'
    BY <1>1, <1>6 DEF Covered
  <2>2. ASSUME faults = 0 \/ crashes = 0, NEW n \in DOMAIN dir'.tables \ DOMAIN dir.tables
        PROVE  <<"table", n>> \notin DOMAIN lost
    <3>1. rep.next \notin Archived
      BY <1>1, <1>4, <2>2, Types DEF FreshNumbers, NextFresh
    <3> QED BY <1>6, <3>1, Types
  <2>3. AllCovered'
    BY <1>1, <1>3, <2>1, <2>2 DEF Covers, AllCovered, Covered, FaultsGrow
  <2>4. DamagedCovered'
    BY <1>1, <1>3, <1>4, <1>6, <2>1 DEF Covers, DamagedCovered, FaultsGrow
  <2> QED BY <1>4, <2>3, <2>4 DEF Covers, SourceCovered
<1>14. FreshNumbers'
  <2>1. Archived' = Archived
    BY <1>1 DEF Archived
  <2>2. NextFresh'
    BY <1>1, <1>3, <1>4, <2>1, Types DEF FreshNumbers, NextFresh, Running, FaultsGrow
  <2>3. SomeBeyond'
    BY <1>1, <1>3, <1>4, <1>6, <2>1 DEF FreshNumbers, SomeBeyond, FaultsGrow
  <2> QED BY <1>4, <2>2, <2>3 DEF FreshNumbers, FirstRun
<1>15. NothingGone'
  <2>1. ASSUME NEW e, Present(e) PROVE Present(e)'
    BY <1>1, <1>4, <1>6, <2>1 DEF Present, InLogs, InTables, InLost
  <2> QED BY <1>1, <1>3, <2>1 DEF NothingGone, FaultsGrow
<1>16. AllInHand'
  <2>1. SUFFICES ASSUME crashes = 0, faults' = 0, NEW e \in began
                 PROVE  InHand(e)'
    BY <1>1 DEF AllInHand
  <2>2. k = 0 /\ InHand(e)
    BY <1>3, <2>1 DEF AllInHand, FaultsGrow
  <2>3. CASE e \in E
    <3>1. PICK n \in Listed(rep'.numbers) : n \in DOMAIN dir'.tables /\ e \in dir'.tables[n].entries
      BY <1>2, <2>2, <2>3 DEF Converted
    <3> QED BY <3>1 DEF InHand, ToScan
  <2>4. CASE ToConvert(e) /\ e \notin E
    BY <1>4, <2>4 DEF InHand, ToConvert, E, h
  <2>5. CASE ToScan(e)
    BY <1>1, <1>6, <2>5 DEF InHand, ToScan
  <2>6. CASE Found(e) \/ e \in rep.copied
    BY <1>4, <1>6, <2>6 DEF InHand, Found, TablesListed
  <2> QED BY <2>2, <2>3, <2>4, <2>5, <2>6 DEF InHand
<1> QED BY <1>7, <1>8, <1>9, <1>10, <1>11, <1>12, <1>13, <1>14, <1>15, <1>16

(* A log moves to lost/, where nothing has its name, or stays.                *)
LEMMA ArchiveLogKeepsInv ==
  ASSUME RepairInv, ArchiveLog
  PROVE  RepairInv'
<1> DEFINE h == Head(rep.logs)
<1> USE DEF RepairInv, Lists
<1>1. rep.pc = "archive" /\ began' = began /\ crashes' = crashes /\ Running
  BY DEF ArchiveLog, Running
<1>2. rep' = [pc |-> "convert", logs |-> Tail(rep.logs), numbers |-> rep.numbers,
              manifests |-> rep.manifests, next |-> rep.next, found |-> rep.found,
              copy |-> rep.copy, number |-> rep.number, max |-> rep.max, copied |-> rep.copied]
  BY DEF ArchiveLog, TypeOK, RepTypeOK
<1>3. /\ rep.logs \in Seq(Numbers) /\ rep.logs # <<>> /\ Distinct(rep.logs)
      /\ Listed(rep.logs) \subseteq DOMAIN dir.logs /\ h \in DOMAIN dir.logs /\ h \in Nat
      /\ dir.logs[h] \in FileOf(Known) /\ <<"log", h>> \notin DOMAIN lost
      /\ Tail(rep.logs) \in Seq(Numbers) /\ Distinct(Tail(rep.logs))
      /\ Listed(Tail(rep.logs)) = Listed(rep.logs) \ {h}
  <2>1. rep.logs \in Seq(Numbers) /\ rep.logs # <<>> /\ Distinct(rep.logs)
        /\ Listed(rep.logs) \subseteq DOMAIN dir.logs
    BY <1>1 DEF LogsListed, TypeOK, RepTypeOK
  <2>2. h \in DOMAIN dir.logs /\ h \in Nat
    BY <2>1, TailLists DEF Numbers
  <2> QED BY <2>1, <2>2, Types, TailLists DEF LogsListed
<1>4. \E k \in {0, 1} :
        /\ faults' = faults + k
        /\ dir' = [logs |-> dir'.logs, tables |-> dir.tables, manifests |-> dir.manifests,
                   current |-> dir.current, tmp |-> dir.tmp, edit |-> dir.edit]
        /\ \/ /\ k = 0 /\ Removed(dir'.logs, Numbers, dir.logs, h)
              /\ Written(lost', LostNames, lost, <<"log", h>>, dir.logs[h])
           \/ k = 1 /\ dir'.logs = dir.logs /\ lost' = lost
  <2>1. CASE /\ Failing(0) /\ lost' = With(lost, <<"log", h>>, dir.logs[h])
             /\ dir' = [dir EXCEPT !.logs = Without(@, h)]
    <3>1. dir' = [logs |-> Without(dir.logs, h), tables |-> dir.tables, manifests |-> dir.manifests,
                  current |-> dir.current, tmp |-> dir.tmp, edit |-> dir.edit]
      BY <2>1 DEF TypeOK, DirTypeOK
    <3>2. Removed(dir'.logs, Numbers, dir.logs, h)
      BY <3>1, Types, WithoutFile
    <3>3. <<"log", h>> \in LostNames
      BY <1>3 DEF LostNames
    <3>4. Written(lost', LostNames, lost, <<"log", h>>, dir.logs[h])
      BY <1>3, <2>1, <3>3, Types, WithFile
    <3>5. faults' = faults + 0
      BY <2>1 DEF Failing
    <3>6. dir' = [logs |-> dir'.logs, tables |-> dir.tables, manifests |-> dir.manifests,
                  current |-> dir.current, tmp |-> dir.tmp, edit |-> dir.edit]
      BY <3>1
    <3> QED BY <3>2, <3>4, <3>5, <3>6
  <2>2. CASE Failing(1) /\ UNCHANGED <<dir, lost>>
    <3>1. dir' = [logs |-> dir'.logs, tables |-> dir.tables, manifests |-> dir.manifests,
                  current |-> dir.current, tmp |-> dir.tmp, edit |-> dir.edit]
      BY <2>2 DEF TypeOK, DirTypeOK
    <3> QED BY <2>2, <3>1 DEF Failing
  <2> QED BY <2>1, <2>2 DEF ArchiveLog
<1>5. PICK k \in {0, 1} :
        /\ faults' = faults + k
        /\ dir' = [logs |-> dir'.logs, tables |-> dir.tables, manifests |-> dir.manifests,
                   current |-> dir.current, tmp |-> dir.tmp, edit |-> dir.edit]
        /\ \/ /\ k = 0 /\ Removed(dir'.logs, Numbers, dir.logs, h)
              /\ Written(lost', LostNames, lost, <<"log", h>>, dir.logs[h])
           \/ k = 1 /\ dir'.logs = dir.logs /\ lost' = lost
  BY <1>4
<1>6. FaultsGrow(k)
  BY <1>1, <1>5, FailingGrows
<1> HIDE DEF h
<1>7. /\ dir'.logs \in FilesOver(Known, Numbers) /\ IsFiniteSet(DOMAIN dir'.logs)
      /\ DOMAIN dir'.logs \subseteq DOMAIN dir.logs /\ DOMAIN dir.logs \ {h} \subseteq DOMAIN dir'.logs
      /\ k = 0 => DOMAIN dir'.logs = DOMAIN dir.logs \ {h}
      /\ \A n \in DOMAIN dir'.logs : dir'.logs[n] = dir.logs[n]
      /\ lost' \in FilesOver(Known, LostNames)
      /\ DOMAIN lost \subseteq DOMAIN lost' /\ \A n \in DOMAIN lost : lost'[n] = lost[n]
      /\ DOMAIN lost' \subseteq DOMAIN lost \cup {<<"log", h>>}
      /\ h \in DOMAIN dir'.logs => lost' = lost
      /\ h \notin DOMAIN dir'.logs =>
           <<"log", h>> \in DOMAIN lost' /\ lost'[<<"log", h>>] = dir.logs[h]
  <2>1. IsFiniteSet(DOMAIN dir.logs) /\ IsFiniteSet(DOMAIN dir.logs \ {h})
    BY FS_RemoveElement DEF LogsListed
  <2>2. CASE k = 1
    BY <1>3, <1>5, <2>1, <2>2, Types
  <2>3. CASE k = 0
    <3>1. /\ Removed(dir'.logs, Numbers, dir.logs, h)
          /\ Written(lost', LostNames, lost, <<"log", h>>, dir.logs[h])
      BY <1>5, <2>3
    <3>2. /\ dir'.logs \in FilesOver(Known, Numbers) /\ DOMAIN dir'.logs = DOMAIN dir.logs \ {h}
          /\ \A n \in DOMAIN dir'.logs : dir'.logs[n] = dir.logs[n]
      BY <3>1 DEF Removed
    <3>3. /\ lost' \in FilesOver(Known, LostNames)
          /\ DOMAIN lost' = DOMAIN lost \cup {<<"log", h>>} /\ lost'[<<"log", h>>] = dir.logs[h]
      BY <3>1 DEF Written
    <3>4. \A n \in DOMAIN lost : lost'[n] = lost[n]
      BY <1>3, <3>1 DEF Written
    <3> QED BY <2>1, <3>2, <3>3, <3>4
  <2> QED BY <2>2, <2>3
<1>8. /\ rep'.pc = "convert" /\ rep'.logs = Tail(rep.logs) /\ rep'.numbers = rep.numbers
      /\ rep'.manifests = rep.manifests /\ rep'.next = rep.next /\ rep'.found = rep.found
      /\ rep'.copy = rep.copy /\ rep'.number = rep.number /\ rep'.copied = rep.copied
      /\ dir'.tables = dir.tables /\ dir'.manifests = dir.manifests
  BY <1>2, <1>5
<1>9. TypeOK'
  <2>1. DirTypeOK'
    <3>1. PICK logs \in FilesOver(Known, Numbers) : logs = dir'.logs
      BY <1>7
    <3>2. dir' = [logs |-> logs, tables |-> dir.tables, manifests |-> dir.manifests,
                  current |-> dir.current, tmp |-> dir.tmp, edit |-> dir.edit]
      BY <1>5, <3>1
    <3> QED BY <1>1, <3>2 DEF TypeOK, DirTypeOK, Known
  <2>2. RepTypeOK'
    BY <1>1, <1>2, <1>3 DEF TypeOK, RepTypeOK, Known, States
  <2> QED BY <1>1, <1>6, <1>7, <2>1, <2>2 DEF TypeOK, Known, FaultsGrow
<1>10. NumbersGrow'
  BY <1>1, <1>7, <1>8 DEF NumbersGrow
<1>11. LogsListed'
  <2>1. ASSUME NEW n \in DOMAIN dir'.logs PROVE <<"log", n>> \notin DOMAIN lost'
    <3>1. n \in DOMAIN dir.logs /\ <<"log", n>> \notin DOMAIN lost
      BY <1>7 DEF LogsListed
    <3>2. CASE n = h
      BY <1>7, <3>1, <3>2
    <3>3. CASE n # h
      BY <1>7, <3>1, <3>3
    <3> QED BY <3>2, <3>3
  <2>2. Listed(rep'.logs) \subseteq DOMAIN dir'.logs
    BY <1>3, <1>7, <1>8
  <2>3. faults' = 0 => Listed(rep'.logs) = DOMAIN dir'.logs
    BY <1>1, <1>3, <1>6, <1>7, <1>8 DEF LogsListed, FaultsGrow
  <2> QED BY <1>1, <1>3, <1>7, <1>8, <2>1, <2>2, <2>3 DEF LogsListed
<1>12. TablesListed'
  BY <1>1, <1>6, <1>8 DEF TablesListed, FaultsGrow
<1>13. CopyInPlace' /\ SourceCopied'
  BY <1>1, <1>8 DEF CopyInPlace, SourceCopied, Copying
<1>14. VersionWhole'
  BY <1>1, <1>6, <1>8 DEF VersionWhole, FaultsGrow
<1>15. Archived' = Archived
  BY <1>7 DEF Archived
<1>16. Covers'
  <2>1. \A n : Covered(n) => Covered(n)'
    BY <1>7, <1>8 DEF Covered
  <2>2. AllCovered' /\ DamagedCovered'
    BY <1>1, <1>6, <1>8, <2>1 DEF Covers, AllCovered, DamagedCovered, FaultsGrow
  <2> QED BY <1>8, <2>2 DEF Covers, SourceCovered
<1>17. FreshNumbers'
  <2>1. NextFresh'
    BY <1>1, <1>6, <1>8, <1>15 DEF FreshNumbers, NextFresh, FaultsGrow
  <2>2. SomeBeyond'
    BY <1>1, <1>6, <1>8, <1>15 DEF FreshNumbers, SomeBeyond, FaultsGrow
  <2> QED BY <1>8, <2>1, <2>2 DEF FreshNumbers, FirstRun
<1>18. NothingGone'
  <2>1. ASSUME NEW e, Present(e) PROVE Present(e)'
    <3>1. CASE InLogs(e)
      <4>1. PICK n \in DOMAIN dir.logs : e \in dir.logs[n].entries
        BY <3>1 DEF InLogs
      <4>2. CASE n \in DOMAIN dir'.logs
        BY <1>7, <4>1, <4>2 DEF Present, InLogs
      <4>3. CASE n \notin DOMAIN dir'.logs
        <5>1. n = h
          BY <1>7, <4>3
        <5> QED BY <1>7, <4>1, <4>3, <5>1 DEF Present, InLost
      <4> QED BY <4>2, <4>3
    <3>2. CASE InTables(e)
      BY <1>8, <3>2 DEF Present, InTables
    <3>3. CASE InLost(e)
      BY <1>7, <3>3 DEF Present, InLost
    <3> QED BY <2>1, <3>1, <3>2, <3>3 DEF Present
  <2> QED BY <1>1, <1>6, <2>1 DEF NothingGone, FaultsGrow
<1>19. AllInHand'
  <2>1. ASSUME NEW e, ToConvert(e) PROVE ToConvert(e)'
    BY <1>1, <1>7, <1>8, <2>1 DEF ToConvert, h
  <2>2. ASSUME NEW e PROVE (ToScan(e) => ToScan(e)') /\ (Found(e) => Found(e)')
    BY <1>1, <1>8 DEF ToScan, Found
  <2> QED BY <1>1, <1>6, <1>8, <2>1, <2>2 DEF AllInHand, InHand, FaultsGrow
<1> QED BY <1>9, <1>10, <1>11, <1>12, <1>13, <1>14, <1>16, <1>17, <1>18, <1>19

(* A table whose scan begins: a copy is opened under a number that is new.    *)
LEMMA OpenCopyKeepsInv ==
  ASSUME RepairInv, rep.pc = "convert", rep.logs = <<>>, rep.numbers # <<>>,
         NEW k \in {0, 1}, faults' = faults + k,
         NEW seen \in SUBSET dir.tables[Head(rep.numbers)].entries,
         k = 0 => seen = dir.tables[Head(rep.numbers)].entries,
         k = 0 => dir.tables[Head(rep.numbers)].damaged,
         rep' = [rep EXCEPT !.pc = "src", !.copy = rep.next, !.next = @ + 1,
                            !.number = Head(rep.numbers), !.max = LargestSequence(seen)],
         dir' = [dir EXCEPT !.tables = With(@, rep.next, Unfinished)],
         UNCHANGED <<lost, began, crashes>>
  PROVE  RepairInv'
<1> USE DEF RepairInv, Lists
<1>0. PICK n, c, max : n = Head(rep.numbers) /\ c = rep.next /\ max = LargestSequence(seen)
  OBVIOUS
<1>1. /\ rep' = [pc |-> "src", logs |-> rep.logs, numbers |-> rep.numbers,
                 manifests |-> rep.manifests, next |-> c + 1, found |-> rep.found,
                 copy |-> c, number |-> n, max |-> max, copied |-> rep.copied]
      /\ dir' = [logs |-> dir.logs, tables |-> With(dir.tables, c, Unfinished),
                 manifests |-> dir.manifests, current |-> dir.current, tmp |-> dir.tmp,
                 edit |-> dir.edit]
  BY <1>0 DEF TypeOK, DirTypeOK, RepTypeOK
<1>2. /\ rep'.pc = "src" /\ rep'.logs = rep.logs /\ rep'.numbers = rep.numbers
      /\ rep'.manifests = rep.manifests /\ rep'.next = c + 1 /\ rep'.found = rep.found
      /\ rep'.copy = c /\ rep'.number = n /\ rep'.max = max /\ rep'.copied = rep.copied
      /\ dir'.logs = dir.logs /\ dir'.manifests = dir.manifests
      /\ dir'.tables = With(dir.tables, c, Unfinished)
  <2>1. dir'.logs = dir.logs /\ dir'.manifests = dir.manifests
        /\ dir'.tables = With(dir.tables, c, Unfinished)
    BY <1>1
  <2>2. /\ rep'.pc = "src" /\ rep'.logs = rep.logs /\ rep'.numbers = rep.numbers
        /\ rep'.manifests = rep.manifests /\ rep'.next = c + 1 /\ rep'.found = rep.found
        /\ rep'.copy = c /\ rep'.number = n /\ rep'.max = max /\ rep'.copied = rep.copied
    <3>1. rep' = [pc |-> "src", logs |-> rep.logs, numbers |-> rep.numbers,
                  manifests |-> rep.manifests, next |-> c + 1, found |-> rep.found,
                  copy |-> c, number |-> n, max |-> max, copied |-> rep.copied]
      BY <1>1
    <3> QED BY ONLY <3>1
  <2> QED BY <2>1, <2>2
<1>3. /\ rep.copied = {} /\ rep.numbers \in Seq(Numbers) /\ Distinct(rep.numbers)
      /\ c \in Nat /\ rep.copy = 0 /\ Running
  BY <1>0 DEF CopyInPlace, Copying, TablesListed, TypeOK, RepTypeOK, Running
<1>4. n \in Listed(rep.numbers) /\ n \in Numbers
  BY <1>0, <1>3, TailLists
<1>5. Listed(rep.numbers) \subseteq DOMAIN dir.tables /\ n \in DOMAIN dir.tables
  BY <1>4 DEF TablesListed
<1>6. Added(Unfinished)
  <2>1. Unfinished \in FileOf(Known)
    BY Held
  <2> QED BY <1>0, <1>2, <1>3, <2>1, NewTable
<1>7. /\ dir'.tables \in FilesOver(Known, Numbers) /\ IsFiniteSet(DOMAIN dir'.tables)
      /\ DOMAIN dir'.tables = DOMAIN dir.tables \cup {c} /\ dir'.tables[c] = Unfinished
      /\ \A m \in DOMAIN dir.tables : dir'.tables[m] = dir.tables[m]
      /\ c \notin DOMAIN dir.tables
  BY <1>0, <1>6 DEF Added
<1>8. /\ \A m \in DOMAIN dir.tables : m \in Nat /\ m < c
      /\ \A m \in DOMAIN dir.logs : m \in Nat /\ m < c
      /\ n < c
  BY <1>0, <1>3, <1>5, Types DEF NumbersGrow, Numbers
<1>9. c \notin Listed(rep.numbers) /\ n # c
  BY <1>5, <1>7
<1>10. max \in 0..kMaxSequenceNumber /\ \A e \in seen : e.seq <= max
  <2>1. \A e \in seen : e.seq \in 0..kMaxSequenceNumber
    BY <1>0, <1>5, Types DEF TypeOK
  <2> QED BY <1>0, <2>1, MaxSequenceBounds, RepairAssumption
<1>11. FaultsGrow(k)
  BY FailingGrows
<1>12. Unfinished.entries = {} /\ Unfinished.damaged
  BY Held
<1>13. TypeOK'
  <2>1. DirTypeOK'
    <3>1. dir' = [logs |-> dir.logs, tables |-> dir'.tables, manifests |-> dir.manifests,
                  current |-> dir.current, tmp |-> dir.tmp, edit |-> dir.edit]
      BY <1>1
    <3> QED BY <1>7, <3>1 DEF TypeOK, DirTypeOK, Known
  <2>2. "src" \in States /\ c + 1 \in Nat /\ n \in Nat
    BY <1>3, <1>4 DEF States, Numbers
  <2>3. RepTypeOK'
    BY <1>1, <1>3, <1>10, <2>2 DEF TypeOK, RepTypeOK, Known
  <2> QED BY <1>11, <2>1, <2>3 DEF TypeOK, Known, FaultsGrow
<1>14. NumbersGrow'
  BY <1>2, <1>3, <1>7, <1>8 DEF NumbersGrow
<1>15. LogsListed'
  BY <1>2, <1>3, <1>7, <1>11 DEF LogsListed, Running, FaultsGrow
<1>16. TablesListed'
  BY <1>2, <1>5, <1>7, <1>9, <1>11 DEF TablesListed, FaultsGrow
<1>17. CopyInPlace' /\ SourceCopied'
  <2>1. faults' = 0 => UpTo(dir'.tables[n].entries, max)
    BY <1>0, <1>5, <1>7, <1>10, <1>11 DEF UpTo, FaultsGrow
  <2> QED BY <1>0, <1>2, <1>3, <1>5, <1>7, <1>8, <1>9, <2>1 DEF CopyInPlace, SourceCopied, Copying
<1>18. VersionWhole'
  BY <1>2, <1>11 DEF VersionWhole, FaultsGrow
<1>19. Archived' = Archived
  BY DEF Archived
<1>20. Covers'
  <2>1. \A m \in DOMAIN dir.tables : Covered(m) => Covered(m)'
    BY <1>7 DEF Covered
  <2>2. ASSUME faults = 0 \/ crashes = 0 PROVE Covered(c)'
    <3>1. c \notin Archived
      BY <1>0, <1>3, <2>2, Types DEF FreshNumbers, NextFresh
    <3> QED BY <3>1, Types DEF Covered
  <2>3. AllCovered'
    BY <1>7, <1>11, <2>1, <2>2 DEF Covers, AllCovered, FaultsGrow
  <2>4. DamagedCovered'
    <3>1. SUFFICES ASSUME Fewer', NEW m \in DOMAIN dir'.tables, dir'.tables[m].damaged,
                          crashes = 0 \/ m \in Listed(rep.numbers)
                   PROVE  Covered(m)'
      BY <1>2 DEF DamagedCovered
    <3>2. CASE m = c
      BY <1>9, <2>2, <3>1, <3>2
    <3>3. CASE m # c
      BY <1>7, <1>11, <2>1, <3>1, <3>3 DEF Covers, DamagedCovered, FaultsGrow
    <3> QED BY <3>2, <3>3
  <2>5. SourceCovered'
    <3>1. Fewer' => Covered(n)
      <4>1. CASE k = 0
        BY <1>0, <1>4, <1>5, <1>11, <4>1 DEF Covers, DamagedCovered, FaultsGrow
      <4>2. CASE k = 1
        BY <1>5, <1>11, <4>2 DEF Covers, AllCovered, FaultsGrow
      <4> QED BY <4>1, <4>2
    <3> QED BY <1>2, <1>5, <2>1, <3>1 DEF SourceCovered, Covered
  <2> QED BY <2>3, <2>4, <2>5 DEF Covers
<1>21. FreshNumbers'
  <2>1. NextFresh'
    <3>1. ASSUME NEW m \in Archived, m < c PROVE m < c + 1
      BY <1>3, <3>1, Types
    <3> QED BY <1>0, <1>2, <1>3, <1>11, <1>19, <3>1 DEF FreshNumbers, NextFresh, FaultsGrow
  <2>2. SomeBeyond'
    <3>1. SUFFICES ASSUME faults' = 0, NEW m \in Archived
                   PROVE  \E d \in DOMAIN dir'.tables : m <= d /\ (d = c => m <= n)
      BY <1>2, <1>19 DEF SomeBeyond
    <3>2. PICK d \in DOMAIN dir.tables : m <= d
      BY <1>11, <3>1 DEF FreshNumbers, SomeBeyond, FaultsGrow
    <3> QED BY <1>7, <3>2
  <2> QED BY <1>2, <2>1, <2>2 DEF FreshNumbers, FirstRun
<1>22. NothingGone'
  <2>1. ASSUME NEW e, Present(e) PROVE Present(e)'
    BY <1>2, <1>7, <2>1 DEF Present, InLogs, InTables, InLost
  <2> QED BY <1>11, <2>1 DEF NothingGone, FaultsGrow
<1>23. AllInHand'
  <2>1. ASSUME NEW e, ToScan(e) PROVE ToScan(e)'
    BY <1>2, <1>7, <2>1 DEF ToScan
  <2>2. ASSUME NEW e, Found(e) PROVE Found(e)'
    BY <1>2, <1>7, <2>2 DEF Found, TablesListed
  <2>3. ASSUME NEW e, ToConvert(e) PROVE ToConvert(e)'
    BY <1>2, <2>3 DEF ToConvert
  <2> QED BY <1>2, <1>11, <2>1, <2>2, <2>3 DEF AllInHand, InHand, FaultsGrow
<1> QED BY <1>13, <1>14, <1>15, <1>16, <1>17, <1>18, <1>20, <1>21, <1>22, <1>23

(* A table moves to lost/, or, when the call fails, stays.                    *)
Moved(n, k) ==
    /\ dir' = [logs |-> dir.logs, tables |-> dir'.tables, manifests |-> dir.manifests,
               current |-> dir.current, tmp |-> dir.tmp, edit |-> dir.edit]
    /\ dir'.tables \in FilesOver(Known, Numbers) /\ IsFiniteSet(DOMAIN dir'.tables)
    /\ lost' \in FilesOver(Known, LostNames)
    /\ DOMAIN dir.tables \ {n} \subseteq DOMAIN dir'.tables
    /\ DOMAIN dir'.tables \subseteq DOMAIN dir.tables
    /\ \A m \in DOMAIN dir'.tables : dir'.tables[m] = dir.tables[m]
    /\ \/ /\ n \notin DOMAIN dir'.tables /\ faults' = faults + k
          /\ DOMAIN lost' = DOMAIN lost \cup {<<"table", n>>}
          /\ lost'[<<"table", n>>] = dir.tables[n]
          /\ \A m \in DOMAIN lost \ {<<"table", n>>} : lost'[m] = lost[m]
       \/ n \in DOMAIN dir'.tables /\ faults' = faults + (k + 1) /\ lost' = lost

(* ArchiveTable does one or the other.                                        *)
LEMMA TableMoved ==
  ASSUME TypeOK, LogsListed, NEW k \in {0, 1}, NEW n \in DOMAIN dir.tables, ArchiveTable(k, n)
  PROVE  Moved(n, k)
<1>1. CASE /\ Failing(k)
           /\ lost' = With(lost, <<"table", n>>, dir.tables[n])
           /\ dir' = [dir EXCEPT !.tables = Without(@, n)]
  <2>1. dir' = [logs |-> dir.logs, tables |-> Without(dir.tables, n), manifests |-> dir.manifests,
                current |-> dir.current, tmp |-> dir.tmp, edit |-> dir.edit]
    BY <1>1 DEF TypeOK, DirTypeOK
  <2>2. Removed(dir'.tables, Numbers, dir.tables, n)
    BY <2>1, Types, WithoutFile
  <2>3. <<"table", n>> \in LostNames
    BY Types DEF LostNames, Numbers
  <2>4. Written(lost', LostNames, lost, <<"table", n>>, dir.tables[n])
    BY <1>1, <2>3, Types, WithFile
  <2>5. IsFiniteSet(DOMAIN dir'.tables)
    BY <2>2, FS_RemoveElement DEF Removed, LogsListed
  <2>6. dir' = [logs |-> dir.logs, tables |-> dir'.tables, manifests |-> dir.manifests,
                current |-> dir.current, tmp |-> dir.tmp, edit |-> dir.edit]
    BY <2>1
  <2> QED BY <1>1, <2>2, <2>4, <2>5, <2>6 DEF Moved, Removed, Written, Failing
<1>2. CASE Failing(k + 1) /\ UNCHANGED <<dir, lost>>
  <2>1. dir' = [logs |-> dir.logs, tables |-> dir'.tables, manifests |-> dir.manifests,
                current |-> dir.current, tmp |-> dir.tmp, edit |-> dir.edit]
    BY <1>2 DEF TypeOK, DirTypeOK
  <2> QED BY <1>2, <2>1, Types DEF Moved, Failing, LogsListed
<1> QED BY <1>1, <1>2 DEF ArchiveTable

(* A table that is archived loses none of the entries that are in some file.  *)
LEMMA MovedKeepsPresent ==
  ASSUME TypeOK, NEW k \in {0, 1}, NEW n \in DOMAIN dir.tables, Moved(n, k), Covered(n),
         NEW e, Present(e)
  PROVE  Present(e)'
<1>1. dir'.logs = dir.logs
  BY DEF Moved
<1>2. CASE InLogs(e)
  BY <1>1, <1>2 DEF Present, InLogs
<1>3. CASE InTables(e)
  <2>1. PICK m \in DOMAIN dir.tables : e \in dir.tables[m].entries
    BY <1>3 DEF InTables
  <2>2. CASE m \in DOMAIN dir'.tables
    BY <2>1, <2>2 DEF Present, InTables, Moved
  <2>3. CASE m \notin DOMAIN dir'.tables
    <3>1. m = n
      BY <2>1, <2>3 DEF Moved
    <3>2. <<"table", n>> \in DOMAIN lost' /\ lost'[<<"table", n>>] = dir.tables[n]
      BY <2>3, <3>1 DEF Moved
    <3> QED BY <2>1, <3>1, <3>2 DEF Present, InLost
  <2> QED BY <2>2, <2>3
<1>4. CASE InLost(e)
  <2>1. PICK m \in DOMAIN lost : e \in lost[m].entries
    BY <1>4 DEF InLost
  <2>2. m \in DOMAIN lost' /\ e \in lost'[m].entries
    <3>1. CASE m = <<"table", n>> /\ n \notin DOMAIN dir'.tables
      BY <2>1, <3>1 DEF Moved, Covered
    <3>2. CASE m # <<"table", n>> /\ n \notin DOMAIN dir'.tables
      BY <2>1, <3>2 DEF Moved
    <3>3. CASE n \in DOMAIN dir'.tables
      BY <2>1, <3>3 DEF Moved
    <3> QED BY <3>1, <3>2, <3>3
  <2> QED BY <2>2 DEF Present, InLost
<1> QED BY <1>2, <1>3, <1>4 DEF Present

(* What lost/ knows of tables after that.                                     *)
LEMMA MovedNames ==
  ASSUME TypeOK, NEW k \in {0, 1}, NEW n \in DOMAIN dir.tables, Moved(n, k)
  PROVE  /\ n \notin DOMAIN dir'.tables => Archived' = Archived \cup {n}
         /\ n \in DOMAIN dir'.tables => Archived' = Archived
         /\ \A m \in DOMAIN dir'.tables : Covered(m) => Covered(m)'
         /\ \A m : <<"log", m>> \in DOMAIN lost' <=> <<"log", m>> \in DOMAIN lost
<1>1. CASE n \in DOMAIN dir'.tables
  BY <1>1 DEF Moved, Archived, Covered
<1>2. CASE n \notin DOMAIN dir'.tables
  <2>1. /\ DOMAIN lost' = DOMAIN lost \cup {<<"table", n>>}
        /\ \A m \in DOMAIN lost \ {<<"table", n>>} : lost'[m] = lost[m]
    BY <1>2 DEF Moved
  <2>2. ASSUME NEW m PROVE m \in Archived' <=> m \in Archived \/ m = n
    <3>1. \A l \in DOMAIN lost' : l[1] = "table" => l \in DOMAIN lost \/ l[2] = n
      BY <2>1
    <3>2. ASSUME m \in Archived' PROVE m \in Archived \/ m = n
      BY <3>1, <3>2 DEF Archived
    <3>3. Archived \subseteq Archived'
      BY <2>1 DEF Archived
    <3>4. n \in Archived'
      <4>1. <<"table", n>> \in DOMAIN lost' /\ <<"table", n>>[1] = "table" /\ <<"table", n>>[2] = n
        BY <2>1
      <4> QED BY <4>1 DEF Archived
    <3> QED BY <3>2, <3>3, <3>4
  <2>3. ASSUME NEW m \in DOMAIN dir'.tables, Covered(m) PROVE Covered(m)'
    <3>1. m # n /\ dir'.tables[m] = dir.tables[m]
      BY <1>2, <2>3 DEF Moved
    <3> QED BY <2>1, <2>3, <3>1 DEF Covered
  <2>4. \A m : <<"log", m>> \in DOMAIN lost' <=> <<"log", m>> \in DOMAIN lost
    BY <2>1
  <2> QED BY <1>2, <2>2, <2>3, <2>4
<1> QED BY <1>1, <1>2

(* What can be read of the source is added to the copy, and the source is     *)
(* archived, or stays.                                                        *)
LEMMA ArchiveSourceKeepsInv ==
  ASSUME RepairInv, ArchiveSource
  PROVE  RepairInv'
<1> USE DEF RepairInv, Lists
<1>0. PICK n, c : n = rep.number /\ c = rep.copy
  OBVIOUS
<1>1. rep.pc = "src" /\ UNCHANGED <<began, crashes>> /\ Running
  BY DEF ArchiveSource, Running
<1>2. PICK k \in {0, 1}, read \in SUBSET dir.tables[n].entries :
        /\ k = 0 => read = dir.tables[n].entries
        /\ ArchiveTable(k, n)
        /\ rep' = [rep EXCEPT !.pc = "copy", !.copied = read]
  BY <1>0 DEF ArchiveSource
<1>3. /\ rep.numbers # <<>> /\ n = Head(rep.numbers) /\ n \in Listed(rep.numbers)
      /\ n \in DOMAIN dir.tables /\ c \in DOMAIN dir.tables /\ n < c /\ n \in Nat /\ c \in Nat
      /\ c # n /\ c \notin Listed(rep.numbers) /\ dir.tables[c] = Unfinished
      /\ rep.copied = {} /\ dir.tables[n].entries \in SUBSET Known
      /\ Listed(rep.numbers) \subseteq DOMAIN dir.tables
  <2>1. /\ rep.numbers # <<>> /\ n = Head(rep.numbers) /\ rep.numbers \in Seq(Numbers)
        /\ Distinct(rep.numbers) /\ c \in DOMAIN dir.tables \ Listed(rep.numbers) /\ n < c
        /\ dir.tables[c] = Unfinished /\ rep.copied = {} /\ n \in Nat /\ c \in Nat
        /\ Listed(rep.numbers) \subseteq DOMAIN dir.tables
    BY <1>0, <1>1 DEF CopyInPlace, Copying, TypeOK, RepTypeOK, TablesListed
  <2>2. n \in Listed(rep.numbers)
    BY <2>1, TailLists
  <2> QED BY <2>1, <2>2, Types
<1>4. Moved(n, k)
  BY <1>2, <1>3, TableMoved
<1>5. PICK f \in {0, 1} :
        /\ FaultsGrow(k + f)
        /\ f = 0 => n \notin DOMAIN dir'.tables
        /\ f = 1 => n \in DOMAIN dir'.tables
  <2>1. CASE n \notin DOMAIN dir'.tables
    BY <1>1, <1>4, <2>1, FailingGrows DEF Moved
  <2>2. CASE n \in DOMAIN dir'.tables
    BY <1>1, <1>4, <2>2, FailingGrows DEF Moved
  <2> QED BY <2>1, <2>2
<1>6. rep' = [pc |-> "copy", logs |-> rep.logs, numbers |-> rep.numbers,
              manifests |-> rep.manifests, next |-> rep.next, found |-> rep.found,
              copy |-> c, number |-> n, max |-> rep.max, copied |-> read]
  BY <1>0, <1>2 DEF TypeOK, RepTypeOK
<1>7. /\ rep'.pc = "copy" /\ rep'.logs = rep.logs /\ rep'.numbers = rep.numbers
      /\ rep'.manifests = rep.manifests /\ rep'.next = rep.next /\ rep'.found = rep.found
      /\ rep'.copy = c /\ rep'.number = n /\ rep'.max = rep.max /\ rep'.copied = read
  BY ONLY <1>6
<1>8. /\ dir'.logs = dir.logs /\ dir'.manifests = dir.manifests
      /\ dir'.tables \in FilesOver(Known, Numbers) /\ IsFiniteSet(DOMAIN dir'.tables)
      /\ lost' \in FilesOver(Known, LostNames)
      /\ DOMAIN dir.tables \ {n} \subseteq DOMAIN dir'.tables
      /\ DOMAIN dir'.tables \subseteq DOMAIN dir.tables
      /\ \A m \in DOMAIN dir'.tables : dir'.tables[m] = dir.tables[m]
  BY <1>4 DEF Moved
<1>9. /\ n \notin DOMAIN dir'.tables => Archived' = Archived \cup {n}
      /\ n \in DOMAIN dir'.tables => Archived' = Archived
      /\ \A m \in DOMAIN dir'.tables : Covered(m) => Covered(m)'
      /\ \A m : <<"log", m>> \in DOMAIN lost' <=> <<"log", m>> \in DOMAIN lost
  BY <1>3, <1>4, MovedNames
<1>10. TypeOK'
  <2>1. DirTypeOK'
    <3>1. dir' = [logs |-> dir.logs, tables |-> dir'.tables, manifests |-> dir.manifests,
                  current |-> dir.current, tmp |-> dir.tmp, edit |-> dir.edit]
      BY <1>4 DEF Moved
    <3> QED BY <1>1, <1>8, <3>1 DEF TypeOK, DirTypeOK, Known
  <2>2. read \in SUBSET Known /\ "copy" \in States
    BY <1>3 DEF States
  <2>3. RepTypeOK'
    BY <1>1, <1>3, <1>6, <2>2 DEF TypeOK, RepTypeOK, Known
  <2> QED BY <1>1, <1>5, <1>8, <2>1, <2>3 DEF TypeOK, Known, FaultsGrow
<1>11. NumbersGrow'
  BY <1>1, <1>7, <1>8 DEF NumbersGrow
<1>12. LogsListed'
  BY <1>1, <1>5, <1>7, <1>8, <1>9 DEF LogsListed, Running, FaultsGrow
<1>13. TablesListed'
  <2>1. \A t \in rep.found : t.number # n /\ t.number # c /\ t.number \in DOMAIN dir.tables
    BY <1>0, <1>3 DEF TablesListed
  <2>2. \A m \in Listed(rep.numbers) : m \in DOMAIN dir'.tables \/ m = n
    BY <1>3, <1>8
  <2> QED BY <1>0, <1>5, <1>7, <1>8, <2>1, <2>2 DEF TablesListed, FaultsGrow
<1>14. CopyInPlace'
  BY <1>3, <1>7, <1>8 DEF CopyInPlace, Copying
<1>15. SourceCopied'
  <2>1. ASSUME faults' = 0
        PROVE  /\ n \notin DOMAIN dir'.tables /\ <<"table", n>> \in DOMAIN lost'
               /\ read = lost'[<<"table", n>>].entries /\ UpTo(read, rep.max)
    <3>1. faults = 0 /\ k = 0 /\ f = 0
      BY <1>5, <2>1 DEF FaultsGrow
    <3>2. UpTo(read, rep.max)
      BY <1>0, <1>1, <1>2, <3>1 DEF CopyInPlace
    <3> QED BY <1>2, <1>4, <1>5, <3>1, <3>2 DEF Moved
  <2>2. ASSUME faults' <= 1, n \in DOMAIN dir'.tables PROVE read = dir'.tables[n].entries
    <3>1. f = 1 /\ k = 0
      BY <1>5, <2>2 DEF FaultsGrow, TypeOK
    <3> QED BY <1>2, <1>8, <2>2, <3>1
  <2> QED BY <1>7, <2>1, <2>2 DEF SourceCopied
<1>16. VersionWhole'
  BY <1>1, <1>5, <1>7, <1>8 DEF VersionWhole, FaultsGrow
<1>17. Covers'
  <2>1. AllCovered'
    BY <1>5, <1>8, <1>9 DEF Covers, AllCovered, FaultsGrow
  <2>2. DamagedCovered'
    BY <1>1, <1>5, <1>7, <1>8, <1>9 DEF Covers, DamagedCovered, FaultsGrow
  <2> QED BY <1>7, <2>1, <2>2 DEF Covers, SourceCovered
<1>18. FreshNumbers'
  <2>1. NextFresh'
    <3>1. n < rep.next
      BY <1>1, <1>3 DEF NumbersGrow
    <3> QED BY <1>1, <1>5, <1>7, <1>9, <3>1 DEF FreshNumbers, NextFresh, FaultsGrow
  <2>2. SomeBeyond'
    <3>1. SUFFICES ASSUME faults' = 0, NEW m \in Archived'
                   PROVE  \E d \in DOMAIN dir'.tables : m <= d /\ (d = c => m <= n)
      BY <1>7 DEF SomeBeyond
    <3>2. faults = 0 /\ n \notin DOMAIN dir'.tables /\ c \in DOMAIN dir'.tables
      <4>1. faults = 0 /\ k + f = 0
        BY <1>5, <3>1 DEF FaultsGrow
      <4>2. f = 0
        BY <4>1
      <4> QED BY <1>3, <1>5, <1>8, <4>1, <4>2
    <3>3. CASE m = n
      BY <1>3, <3>2, <3>3
    <3>4. CASE m # n
      <4>1. m \in Archived /\ m \in Nat
        BY <1>9, <3>1, <3>2, <3>4, Types
      <4>2. PICK d \in DOMAIN dir.tables : m <= d /\ (d = c => m <= n)
        BY <1>0, <3>2, <4>1 DEF FreshNumbers, SomeBeyond
      <4>3. CASE d = n
        BY <1>3, <3>2, <4>1, <4>2, <4>3
      <4>4. CASE d # n
        BY <1>8, <4>2, <4>4
      <4> QED BY <4>3, <4>4
    <3> QED BY <3>3, <3>4
  <2> QED BY <1>7, <2>1, <2>2 DEF FreshNumbers, FirstRun
<1>19. NothingGone'
  <2>1. SUFFICES ASSUME Fewer', NEW e \in began PROVE Present(e)'
    BY <1>1 DEF NothingGone
  <2>2. Fewer /\ Covered(n) /\ Present(e)
    BY <1>0, <1>1, <1>5, <2>1 DEF Covers, SourceCovered, NothingGone, FaultsGrow
  <2> QED BY <1>3, <1>4, <2>2, MovedKeepsPresent
<1>20. AllInHand'
  <2>1. SUFFICES ASSUME crashes = 0, faults' = 0, NEW e \in began PROVE InHand(e)'
    BY <1>1 DEF AllInHand
  <2>2. faults = 0 /\ k = 0 /\ InHand(e)
    BY <1>5, <2>1 DEF AllInHand, FaultsGrow
  <2>3. CASE ToScan(e)
    <3>1. PICK m \in Listed(rep.numbers) : m \in DOMAIN dir.tables /\ e \in dir.tables[m].entries
      BY <1>1, <2>3 DEF ToScan
    <3>2. CASE m = n
      BY <1>2, <1>7, <2>2, <3>1, <3>2 DEF InHand
    <3>3. CASE m # n
      BY <1>7, <1>8, <3>1, <3>3 DEF InHand, ToScan
    <3> QED BY <3>2, <3>3
  <2>4. CASE Found(e)
    <3>1. \A t \in rep.found : t.number # n /\ t.number \in DOMAIN dir.tables
      BY <1>3 DEF TablesListed
    <3> QED BY <1>7, <1>8, <2>4, <3>1 DEF InHand, Found
  <2>5. CASE ToConvert(e)
    BY <1>1, <1>7, <1>8, <2>5 DEF InHand, ToConvert
  <2> QED BY <1>3, <2>2, <2>3, <2>4, <2>5 DEF InHand
<1> QED BY <1>10, <1>11, <1>12, <1>13, <1>14, <1>15, <1>16, <1>17, <1>18, <1>19, <1>20

(* The copy is finished.                                                      *)
LEMMA CopyBuiltKeepsInv ==
  ASSUME RepairInv, rep.pc = "copy", rep.copied # {},
         dir' = [dir EXCEPT !.tables = With(@, rep.copy, Holding(rep.copied, FALSE))],
         rep' = [rep EXCEPT !.pc = "rename"],
         UNCHANGED <<faults, lost, began, crashes>>
  PROVE  RepairInv'
<1> USE DEF RepairInv, Lists
<1>1. /\ dir' = [logs |-> dir.logs, tables |-> With(dir.tables, rep.copy, Holding(rep.copied, FALSE)),
                 manifests |-> dir.manifests, current |-> dir.current, tmp |-> dir.tmp,
                 edit |-> dir.edit]
      /\ rep' = [pc |-> "rename", logs |-> rep.logs, numbers |-> rep.numbers,
                 manifests |-> rep.manifests, next |-> rep.next, found |-> rep.found,
                 copy |-> rep.copy, number |-> rep.number, max |-> rep.max, copied |-> rep.copied]
  BY DEF TypeOK, DirTypeOK, RepTypeOK
<1>2. /\ rep.copy \in DOMAIN dir.tables /\ rep.copy \notin Listed(rep.numbers)
      /\ dir.tables[rep.copy] = Unfinished /\ rep.copied \in SUBSET Known
      /\ \A t \in rep.found : t.number # rep.copy /\ t.number \in DOMAIN dir.tables
      /\ rep.number < rep.copy /\ rep.number \in Nat /\ rep.copy \in Nat /\ rep.number # rep.copy
  BY DEF CopyInPlace, Copying, TypeOK, RepTypeOK, TablesListed
<1>3. /\ Holding(rep.copied, FALSE) \in FileOf(Known) /\ Unfinished.entries = {}
      /\ Unfinished.damaged
      /\ ~Holding(rep.copied, FALSE).damaged /\ Holding(rep.copied, FALSE).entries = rep.copied
  BY <1>2, Held
<1>4. Written(dir'.tables, Numbers, dir.tables, rep.copy, Holding(rep.copied, FALSE))
  <2>1. rep.copy \in Numbers /\ dir.tables \in FilesOver(Known, Numbers)
    BY <1>2, Types
  <2>2. dir'.tables = With(dir.tables, rep.copy, Holding(rep.copied, FALSE))
    BY <1>1
  <2> QED BY <1>3, <2>1, <2>2, WithFile
<1>5. /\ dir'.tables \in FilesOver(Known, Numbers) /\ DOMAIN dir'.tables = DOMAIN dir.tables
      /\ dir'.tables[rep.copy] = Holding(rep.copied, FALSE)
      /\ \A n \in DOMAIN dir.tables : n # rep.copy => dir'.tables[n] = dir.tables[n]
  BY <1>2, <1>4 DEF Written
<1>6. /\ rep'.pc = "rename" /\ rep'.logs = rep.logs /\ rep'.numbers = rep.numbers
      /\ rep'.manifests = rep.manifests /\ rep'.next = rep.next /\ rep'.found = rep.found
      /\ rep'.copy = rep.copy /\ rep'.number = rep.number /\ rep'.max = rep.max
      /\ rep'.copied = rep.copied /\ dir'.logs = dir.logs /\ dir'.manifests = dir.manifests
  BY <1>1
<1>7. TypeOK'
  <2>1. DirTypeOK'
    <3>1. dir' = [logs |-> dir.logs, tables |-> dir'.tables, manifests |-> dir.manifests,
                  current |-> dir.current, tmp |-> dir.tmp, edit |-> dir.edit]
      BY <1>1
    <3> QED BY <1>5, <3>1 DEF TypeOK, DirTypeOK, Known
  <2>2. RepTypeOK'
    BY <1>1 DEF TypeOK, RepTypeOK, Known, States
  <2> QED BY <2>1, <2>2 DEF TypeOK, Known
<1>8. NumbersGrow' /\ LogsListed' /\ VersionWhole'
  BY <1>5, <1>6 DEF NumbersGrow, LogsListed, VersionWhole, Running
<1>9. TablesListed'
  BY <1>2, <1>5, <1>6 DEF TablesListed
<1>10. CopyInPlace' /\ SourceCopied'
  BY <1>2, <1>5, <1>6 DEF CopyInPlace, Copying, SourceCopied
<1>11. Archived' = Archived
  BY DEF Archived
<1>12. Covers'
  <2>1. \A n \in DOMAIN dir.tables : Covered(n) => Covered(n)'
    BY <1>2, <1>3, <1>5 DEF Covered
  <2>2. AllCovered'
    BY <1>5, <2>1 DEF Covers, AllCovered
  <2>3. DamagedCovered'
    <3>1. ASSUME NEW n \in DOMAIN dir'.tables, dir'.tables[n].damaged
          PROVE  n \in DOMAIN dir.tables /\ dir.tables[n].damaged
      BY <1>2, <1>3, <1>5, <3>1
    <3> QED BY <1>5, <1>6, <2>1, <3>1 DEF Covers, DamagedCovered, Fewer
  <2> QED BY <1>6, <2>2, <2>3 DEF Covers, SourceCovered
<1>13. FreshNumbers'
  BY <1>5, <1>6, <1>11 DEF FreshNumbers, NextFresh, SomeBeyond, FirstRun, Running
<1>14. NothingGone'
  <2>1. ASSUME NEW e, Present(e) PROVE Present(e)'
    BY <1>2, <1>3, <1>5, <1>6, <2>1 DEF Present, InLogs, InTables, InLost
  <2> QED BY <2>1 DEF NothingGone, Fewer
<1>15. AllInHand'
  <2>1. ASSUME NEW e, ToScan(e) PROVE ToScan(e)'
    BY <1>2, <1>5, <1>6, <2>1 DEF ToScan
  <2>2. ASSUME NEW e, Found(e) PROVE Found(e)'
    BY <1>2, <1>5, <1>6, <2>2 DEF Found
  <2>3. ASSUME NEW e, ToConvert(e) PROVE ToConvert(e)'
    BY <1>6, <2>3 DEF ToConvert
  <2> QED BY <1>6, <2>1, <2>2, <2>3 DEF AllInHand, InHand
<1> QED BY <1>7, <1>8, <1>9, <1>10, <1>12, <1>13, <1>14, <1>15

(* A step that ends with a table: its number leaves the list, and it may have *)
(* been found.  It was read to its end, archived or left; or its copy was     *)
(* renamed, deleted or left without an entry.                                 *)
EndsTable(k) ==
    /\ rep.pc \in {"convert", "copy", "rename"} /\ rep.logs = <<>> /\ rep.numbers # <<>>
    /\ UNCHANGED <<began, crashes>> /\ faults' = faults + k
    /\ rep' = [pc |-> "convert", logs |-> rep.logs, numbers |-> Tail(rep.numbers),
               manifests |-> rep.manifests, next |-> rep'.next, found |-> rep'.found,
               copy |-> 0, number |-> 0, max |-> 0, copied |-> {}]
    /\ rep'.next \in {rep.next, rep.next + 1}
    /\ dir' = [logs |-> dir.logs, tables |-> dir'.tables, manifests |-> dir.manifests,
               current |-> dir.current, tmp |-> dir.tmp, edit |-> dir.edit]
    /\ dir'.tables \in FilesOver(Known, Numbers) /\ IsFiniteSet(DOMAIN dir'.tables)
    /\ lost' \in FilesOver(Known, LostNames)
    /\ \A m : <<"log", m>> \in DOMAIN lost' <=> <<"log", m>> \in DOMAIN lost
    /\ DOMAIN dir'.tables \subseteq DOMAIN dir.tables \cup {rep.number}
    /\ \A m \in DOMAIN dir.tables \ {rep.copy, Head(rep.numbers)} :
         m \in DOMAIN dir'.tables /\ dir'.tables[m] = dir.tables[m]
    /\ rep.found \subseteq rep'.found /\ rep'.found \in SUBSET Infos
    /\ \A t \in rep'.found \ rep.found :
         /\ t.number = Head(rep.numbers) /\ t.number \in DOMAIN dir'.tables
         /\ faults' = 0 => /\ ~dir'.tables[t.number].damaged
                           /\ UpTo(dir'.tables[t.number].entries, t.max)

(* What such a step does with the entries and with lost/.                     *)
EndsWell ==
    /\ faults' = 0 =>
         /\ lost' = lost
         /\ \A m \in DOMAIN dir'.tables : Covered(m)'
         /\ DOMAIN dir.tables \subseteq DOMAIN dir'.tables \/ rep.number \in DOMAIN dir'.tables
         /\ \A e : \/ Head(rep.numbers) \in DOMAIN dir.tables
                      /\ e \in dir.tables[Head(rep.numbers)].entries
                   \/ e \in rep.copied
                   => \E t \in rep'.found :
                        t.number = Head(rep.numbers) /\ e \in dir'.tables[t.number].entries
    /\ Fewer' => /\ \A e \in began : Present(e) => Present(e)'
                 /\ \A m \in DOMAIN dir'.tables : dir'.tables[m].damaged =>
                      \/ m \in DOMAIN dir.tables /\ dir.tables[m].damaged /\ (Covered(m) => Covered(m)')
                      \/ Covered(m)'
    /\ crashes = 0 => \A m \in Archived' : m \in Archived \/ m \in DOMAIN dir.tables

(* Such a step leaves the lists in order.                                     *)
LEMMA NextTableLists ==
  ASSUME RepairInv, NEW k \in Nat, EndsTable(k)
  PROVE  TypeOK' /\ Lists'
<1> USE DEF RepairInv, EndsTable
<1>0. PICK n : n = Head(rep.numbers)
  OBVIOUS
<1>1. /\ rep.numbers \in Seq(Numbers) /\ Distinct(rep.numbers) /\ rep.next \in Nat
      /\ rep.number \in Nat /\ rep.copy \in Nat /\ faults \in Nat
  BY DEF TypeOK, RepTypeOK, Lists, TablesListed
<1>2. /\ Tail(rep.numbers) \in Seq(Numbers) /\ n \in Listed(rep.numbers) /\ n \in Numbers
      /\ Distinct(Tail(rep.numbers)) /\ Listed(Tail(rep.numbers)) = Listed(rep.numbers) \ {n}
  BY <1>0, <1>1, TailLists
<1>3. /\ DOMAIN dir.tables \in SUBSET Numbers /\ DOMAIN dir.logs \in SUBSET Numbers
      /\ DOMAIN dir'.tables \in SUBSET Numbers
  BY Types, FilesInside
<1>4. /\ rep.pc = "convert" => rep.copy = 0 /\ rep.number = 0
      /\ rep.pc # "convert" => rep.number = n /\ rep.copy \in DOMAIN dir.tables
                              /\ rep.number < rep.copy /\ rep.copy \notin Listed(rep.numbers)
  BY <1>0 DEF Lists, CopyInPlace, Copying
<1>5. FaultsGrow(k)
  BY FailingGrows
<1>6. /\ rep'.pc = "convert" /\ rep'.logs = rep.logs /\ rep'.numbers = Tail(rep.numbers)
      /\ rep'.manifests = rep.manifests /\ rep'.copy = 0 /\ rep'.number = 0 /\ rep'.copied = {}
      /\ dir'.logs = dir.logs /\ dir'.manifests = dir.manifests /\ rep'.next \in Nat
      /\ rep.next <= rep'.next
  BY <1>1
<1>7. \A m \in Listed(rep.numbers) \ {n} :
        m \in DOMAIN dir.tables /\ m # rep.copy /\ m \in DOMAIN dir'.tables
        /\ dir'.tables[m] = dir.tables[m]
  <2>1. ASSUME NEW m \in Listed(rep.numbers) \ {n} PROVE m \in DOMAIN dir.tables
    BY <1>4, <2>1 DEF Lists, TablesListed
  <2>2. \A m \in Listed(rep.numbers) : m # rep.copy
    BY <1>1, <1>4 DEF Listed, Numbers
  <2> QED BY <1>0, <2>1, <2>2
<1>8. TypeOK'
  <2>1. DirTypeOK'
    BY DEF TypeOK, DirTypeOK, Known
  <2>2. RepTypeOK'
    <3>1. PICK next \in Nat, found \in SUBSET Infos : next = rep'.next /\ found = rep'.found
      BY <1>6
    <3>2. rep' = [pc |-> "convert", logs |-> rep.logs, numbers |-> Tail(rep.numbers),
                  manifests |-> rep.manifests, next |-> next, found |-> found,
                  copy |-> 0, number |-> 0, max |-> 0, copied |-> {}]
      BY <3>1
    <3>3. rep.logs \in Seq(Numbers) /\ rep.manifests \in SUBSET Nat
      BY DEF TypeOK, RepTypeOK
    <3>4. 0 \in Nat /\ 0 \in 0..kMaxSequenceNumber /\ "convert" \in States
      BY RepairAssumption DEF States
    <3>5. Tail(rep.numbers) \in Seq(Numbers)
      BY <1>2
    <3> QED BY <3>2, <3>3, <3>4, <3>5 DEF RepTypeOK, Known
  <2> QED BY <1>5, <2>1, <2>2 DEF TypeOK, Known, FaultsGrow
<1>9. Running
  BY DEF Running
<1>10. NumbersGrow'
  <2>1. \A m \in DOMAIN dir.tables \cup DOMAIN dir.logs : m \in Nat /\ m < rep.next
    BY <1>3, <1>9 DEF Lists, NumbersGrow, Numbers
  <2>2. ASSUME NEW m \in DOMAIN dir'.tables PROVE m < rep.next
    <3>1. CASE m \in DOMAIN dir.tables
      BY <2>1, <3>1
    <3>2. CASE m = rep.number
      <4>1. rep.pc # "convert"
        BY <1>3, <1>4, <3>2 DEF Numbers
      <4>2. rep.number < rep.copy /\ rep.copy < rep.next
        BY <1>4, <2>1, <4>1
      <4> QED BY <1>1, <3>2, <4>2
    <3> QED BY <3>1, <3>2
  <2>3. rep.next # 0
    BY <1>9 DEF Lists, NumbersGrow
  <2> QED BY <1>1, <1>3, <1>6, <2>1, <2>2, <2>3 DEF NumbersGrow, Numbers
<1>11. LogsListed'
  BY <1>5, <1>6, <1>9 DEF Lists, LogsListed, Running, FaultsGrow
<1>12. TablesListed'
  <2>1. \A m \in Listed(Tail(rep.numbers)) : m \in DOMAIN dir'.tables
    BY <1>2, <1>7
  <2>2. ASSUME NEW t \in rep'.found
        PROVE  /\ t.number \in DOMAIN dir'.tables \ Listed(Tail(rep.numbers))
               /\ faults' = 0 => /\ ~dir'.tables[t.number].damaged
                                 /\ UpTo(dir'.tables[t.number].entries, t.max)
    <3>1. CASE t \in rep.found
      <4>1. t.number \in DOMAIN dir.tables \ (Listed(rep.numbers) \cup {rep.copy})
        BY <3>1 DEF Lists, TablesListed
      <4>2. t.number \in DOMAIN dir'.tables /\ dir'.tables[t.number] = dir.tables[t.number]
        BY <1>0, <1>2, <4>1
      <4> QED BY <1>2, <1>5, <3>1, <4>1, <4>2 DEF Lists, TablesListed, FaultsGrow
    <3>2. CASE t \notin rep.found
      BY <1>0, <1>2, <3>2
    <3> QED BY <3>1, <3>2
  <2>3. 0 \notin DOMAIN dir'.tables
    BY <1>3 DEF Numbers
  <2>4. \A m \in Listed(rep'.numbers) : m \in DOMAIN dir'.tables
    BY <1>6, <2>1
  <2>5. \A t \in rep'.found : t.number \in DOMAIN dir'.tables \ (Listed(rep'.numbers) \cup {rep'.copy})
    BY <1>6, <2>2, <2>3
  <2>6. Distinct(rep'.numbers)
    BY <1>6, <1>2
  <2> QED BY <1>6, <2>2, <2>4, <2>5, <2>6 DEF TablesListed
<1>13. CopyInPlace' /\ SourceCopied'
  BY <1>6 DEF CopyInPlace, Copying, SourceCopied
<1>14. VersionWhole'
  BY <1>5, <1>6 DEF Lists, VersionWhole, FaultsGrow
<1> QED BY <1>8, <1>10, <1>11, <1>12, <1>13, <1>14 DEF Lists

(* Such a step keeps the invariant.                                           *)
LEMMA NextTableKeepsInv ==
  ASSUME RepairInv, NEW k \in Nat, EndsTable(k), EndsWell
  PROVE  RepairInv'
<1>0. PICK n : n = Head(rep.numbers)
  OBVIOUS
<1>1. TypeOK' /\ Lists'
  BY NextTableLists
<1>2. /\ rep.numbers \in Seq(Numbers) /\ Distinct(rep.numbers) /\ rep.next \in Nat
      /\ rep.number \in Nat /\ rep.copy \in Nat
  BY DEF TypeOK, RepTypeOK, Lists, TablesListed, RepairInv
<1>3. n \in Listed(rep.numbers) /\ Listed(Tail(rep.numbers)) = Listed(rep.numbers) \ {n}
  BY <1>0, <1>2, TailLists DEF EndsTable
<1>4. /\ rep'.pc = "convert" /\ rep'.logs = rep.logs /\ rep'.numbers = Tail(rep.numbers)
      /\ rep'.copy = 0 /\ rep'.number = 0 /\ rep'.copied = {} /\ dir'.logs = dir.logs
      /\ rep.pc \in {"convert", "copy", "rename"} /\ Running
      /\ began' = began /\ crashes' = crashes
      /\ rep'.next \in Nat /\ rep.next <= rep'.next
  BY <1>2 DEF EndsTable, Running
<1>5. FaultsGrow(k)
  BY FailingGrows DEF EndsTable, RepairInv
<1>6. /\ \A m \in DOMAIN dir.tables \ {rep.copy, n} :
           m \in DOMAIN dir'.tables /\ dir'.tables[m] = dir.tables[m]
      /\ DOMAIN dir'.tables \subseteq DOMAIN dir.tables \cup {rep.number}
      /\ rep.found \subseteq rep'.found
  BY <1>0 DEF EndsTable
<1>7. /\ rep.pc = "convert" => rep.copy = 0 /\ rep.number = 0
      /\ rep.pc # "convert" =>
           rep.number = n /\ rep.copy \in DOMAIN dir.tables /\ rep.copy \notin Listed(rep.numbers)
  BY <1>0, <1>4 DEF RepairInv, Lists, CopyInPlace, Copying
<1>8. /\ DOMAIN dir.tables \in SUBSET Numbers /\ DOMAIN dir'.tables \in SUBSET Numbers
      /\ Archived \in SUBSET Nat
  BY Types, FilesInside DEF RepairInv, EndsTable
<1>9. Covers'
  <2>1. AllCovered'
    BY DEF AllCovered, EndsWell
  <2>2. DamagedCovered'
    <3>1. SUFFICES ASSUME Fewer', NEW m \in DOMAIN dir'.tables, dir'.tables[m].damaged,
                          crashes = 0 \/ m \in Listed(Tail(rep.numbers))
                   PROVE  Covered(m)'
      BY <1>4 DEF DamagedCovered
    <3>2. CASE m \in DOMAIN dir.tables /\ dir.tables[m].damaged /\ (Covered(m) => Covered(m)')
      <4>1. Covered(m)
        BY <1>3, <1>5, <3>1, <3>2 DEF RepairInv, Covers, DamagedCovered, FaultsGrow
      <4> QED BY <3>2, <4>1
    <3> QED BY <3>1, <3>2 DEF EndsWell
  <2> QED BY <1>4, <2>1, <2>2 DEF Covers, SourceCovered
<1>10. FreshNumbers'
  <2>1. NextFresh'
    <3>1. SUFFICES ASSUME faults' = 0 \/ crashes = 0, NEW m \in Archived' PROVE m < rep'.next
      BY <1>4 DEF NextFresh
    <3>2. CASE m \in Archived
      <4>1. m < rep.next /\ m \in Nat
        BY <1>4, <1>5, <1>8, <3>1, <3>2 DEF RepairInv, FreshNumbers, NextFresh, FaultsGrow
      <4> QED BY <1>2, <1>4, <4>1
    <3>3. CASE m \in DOMAIN dir.tables
      <4>1. m < rep.next /\ m \in Nat
        BY <1>4, <1>8, <3>3 DEF RepairInv, Lists, NumbersGrow, Numbers
      <4> QED BY <1>2, <1>4, <4>1
    <3>4. faults' = 0 => Archived' = Archived
      BY DEF EndsWell, Archived
    <3> QED BY <3>1, <3>2, <3>3, <3>4 DEF EndsWell
  <2>2. SomeBeyond'
    <3>1. ASSUME faults' = 0, NEW m \in Archived PROVE \E d \in DOMAIN dir'.tables : m <= d
      <4>1. PICK d \in DOMAIN dir.tables : m <= d /\ (d = rep.copy => m <= rep.number)
        BY <1>5, <3>1 DEF RepairInv, FreshNumbers, SomeBeyond, FaultsGrow
      <4>2. CASE d \in DOMAIN dir'.tables
        BY <4>1, <4>2
      <4>3. CASE d \notin DOMAIN dir'.tables
        <5>1. rep.number \in DOMAIN dir'.tables
          BY <3>1, <4>3 DEF EndsWell
        <5>2. rep.number = n /\ rep.number # 0
          BY <1>4, <1>7, <1>8, <5>1 DEF Numbers
        <5>3. d = rep.copy
          BY <1>6, <4>3, <5>1, <5>2
        <5> QED BY <4>1, <5>1, <5>3
      <4> QED BY <4>2, <4>3
    <3>2. 0 \notin DOMAIN dir'.tables
      BY <1>8 DEF Numbers
    <3>3. faults' = 0 => Archived' = Archived
      BY DEF EndsWell, Archived
    <3>4. ASSUME faults' = 0, NEW m \in Archived'
          PROVE  \E d \in DOMAIN dir'.tables : m <= d /\ (d = rep'.copy => m <= rep'.number)
      BY <1>4, <3>1, <3>2, <3>3, <3>4
    <3> QED BY <3>4 DEF SomeBeyond
  <2> QED BY <1>4, <2>1, <2>2 DEF FreshNumbers, FirstRun
<1>11. NothingGone'
  BY <1>4, <1>5 DEF RepairInv, NothingGone, FaultsGrow, EndsWell
<1>12. AllInHand'
  <2>1. SUFFICES ASSUME crashes = 0, faults' = 0, NEW e \in began PROVE InHand(e)'
    BY <1>4 DEF AllInHand
  <2>2. InHand(e)
    BY <1>5, <2>1 DEF RepairInv, AllInHand, FaultsGrow
  <2>3. CASE (n \in DOMAIN dir.tables /\ e \in dir.tables[n].entries) \/ e \in rep.copied
    <3>1. \E t \in rep'.found : t.number = n /\ e \in dir'.tables[t.number].entries
      BY <1>0, <2>1, <2>3 DEF EndsWell
    <3> QED BY <3>1 DEF InHand, Found
  <2>4. CASE ToConvert(e)
    BY <1>4, <2>4 DEF InHand, ToConvert
  <2>5. CASE ToScan(e) /\ ~(n \in DOMAIN dir.tables /\ e \in dir.tables[n].entries)
    <3>1. PICK m \in Listed(rep.numbers) \ {n} : m \in DOMAIN dir.tables /\ e \in dir.tables[m].entries
      BY <1>4, <2>5 DEF ToScan
    <3>2. m # rep.copy
      BY <1>7, <1>8, <3>1 DEF Numbers
    <3> QED BY <1>3, <1>4, <1>6, <3>1, <3>2 DEF InHand, ToScan
  <2>6. CASE Found(e)
    <3>1. PICK t \in rep.found : e \in dir.tables[t.number].entries
      BY <2>6 DEF Found
    <3>2. t.number \in DOMAIN dir.tables /\ t.number # n /\ t.number # rep.copy
      BY <1>3, <3>1 DEF RepairInv, Lists, TablesListed
    <3> QED BY <1>6, <3>1, <3>2 DEF InHand, Found
  <2> QED BY <2>2, <2>3, <2>4, <2>5, <2>6 DEF InHand
<1> QED BY <1>1, <1>9, <1>10, <1>11, <1>12 DEF RepairInv

(* The record of the Repairer when a table is done with.                      *)
PassedOn ==
    rep' = [pc |-> "convert", logs |-> rep.logs, numbers |-> Tail(rep.numbers),
            manifests |-> rep.manifests, next |-> rep'.next, found |-> rep'.found,
            copy |-> 0, number |-> 0, max |-> 0, copied |-> {}]

(* NextTable gives it that form, ...                                          *)
LEMMA TablePassed ==
  ASSUME TypeOK, NEW found, rep' = NextTable(found)
  PROVE  PassedOn /\ rep'.next = rep.next /\ rep'.found = found
<1>1. rep' = [pc |-> "convert", logs |-> rep.logs, numbers |-> Tail(rep.numbers),
              manifests |-> rep.manifests, next |-> rep.next, found |-> found,
              copy |-> 0, number |-> 0, max |-> 0, copied |-> {}]
  BY DEF TypeOK, RepTypeOK, NextTable
<1>2. rep'.next = rep.next /\ rep'.found = found
  BY ONLY <1>1
<1> QED BY <1>1, <1>2 DEF PassedOn

(* ... and so does a table that is given up.                                  *)
LEMMA TableGivenUp ==
  ASSUME TypeOK, rep' = [NextTable(rep.found) EXCEPT !.next = @ + 1]
  PROVE  PassedOn /\ rep'.next = rep.next + 1 /\ rep'.found = rep.found
<1>1. rep' = [pc |-> "convert", logs |-> rep.logs, numbers |-> Tail(rep.numbers),
              manifests |-> rep.manifests, next |-> rep.next + 1, found |-> rep.found,
              copy |-> 0, number |-> 0, max |-> 0, copied |-> {}]
  BY DEF TypeOK, RepTypeOK, NextTable
<1>2. rep'.next = rep.next + 1 /\ rep'.found = rep.found
  BY ONLY <1>1
<1> QED BY <1>1, <1>2 DEF PassedOn

(* Where a table is done with.                                                *)
AtTable ==
    rep.pc \in {"convert", "copy", "rename"} /\ rep.logs = <<>> /\ rep.numbers # <<>>

(* The table and its copy there.                                              *)
TableAt(n) ==
    /\ n \in Listed(rep.numbers) /\ n \in Numbers
    /\ rep.pc = "convert" => /\ rep.copy = 0 /\ rep.number = 0 /\ rep.copied = {}
                             /\ n \in DOMAIN dir.tables
    /\ rep.pc # "convert" => /\ rep.number = n /\ rep.copy \in DOMAIN dir.tables
                             /\ rep.copy # n
                             /\ dir.tables[rep.copy].entries \subseteq rep.copied
    /\ \A t \in rep.found : t.number \in DOMAIN dir.tables /\ t.number # n /\ t.number # rep.copy
    /\ dir = [logs |-> dir.logs, tables |-> dir.tables, manifests |-> dir.manifests,
              current |-> dir.current, tmp |-> dir.tmp, edit |-> dir.edit]
    /\ dir.tables \in FilesOver(Known, Numbers) /\ IsFiniteSet(DOMAIN dir.tables)
    /\ lost \in FilesOver(Known, LostNames) /\ rep.found \in SUBSET Infos
    /\ rep.copied \in SUBSET Known

(* It is there when a table is done with.                                     *)
LEMMA TableInTurn ==
  ASSUME RepairInv, AtTable, NEW n, n = Head(rep.numbers)
  PROVE  TableAt(n)
<1> USE DEF RepairInv, Lists
<1>1. rep.numbers \in Seq(Numbers) /\ Distinct(rep.numbers)
  BY DEF TypeOK, RepTypeOK, TablesListed
<1>2. n \in Listed(rep.numbers) /\ n \in Numbers
  BY <1>1, TailLists DEF AtTable
<1>3. rep.pc = "convert" => rep.copy = 0 /\ rep.number = 0 /\ rep.copied = {} /\ n \in DOMAIN dir.tables
  BY <1>2 DEF CopyInPlace, Copying, TablesListed
<1>4. rep.pc # "convert" => /\ rep.number = n /\ rep.copy \in DOMAIN dir.tables /\ rep.copy # n
                            /\ dir.tables[rep.copy].entries \subseteq rep.copied
  <2>1. SUFFICES ASSUME rep.pc # "convert"
                 PROVE  /\ rep.number = n /\ rep.copy \in DOMAIN dir.tables /\ rep.copy # n
                        /\ dir.tables[rep.copy].entries \subseteq rep.copied
    OBVIOUS
  <2>2. rep.number = n /\ rep.copy \in DOMAIN dir.tables /\ rep.copy \notin Listed(rep.numbers)
    BY <2>1 DEF CopyInPlace, Copying, AtTable
  <2>3. dir.tables[rep.copy] \in {Unfinished, Holding(rep.copied, FALSE)}
    BY <2>1 DEF CopyInPlace, AtTable
  <2> QED BY <1>2, <2>2, <2>3 DEF Unfinished, Holding
<1>5. \A t \in rep.found : t.number \in DOMAIN dir.tables /\ t.number # n /\ t.number # rep.copy
  BY <1>2 DEF TablesListed
<1>6. /\ dir = [logs |-> dir.logs, tables |-> dir.tables, manifests |-> dir.manifests,
                current |-> dir.current, tmp |-> dir.tmp, edit |-> dir.edit]
      /\ dir.tables \in FilesOver(Known, Numbers) /\ IsFiniteSet(DOMAIN dir.tables)
      /\ lost \in FilesOver(Known, LostNames) /\ rep.found \in SUBSET Infos
      /\ rep.copied \in SUBSET Known
  BY DEF TypeOK, DirTypeOK, RepTypeOK, LogsListed
<1> QED BY <1>2, <1>3, <1>4, <1>5, <1>6 DEF TableAt

(* A table that was read to its end is kept.                                  *)
LEMMA FoundKeepsInv ==
  ASSUME RepairInv, AtTable, rep.pc = "convert", ~dir.tables[Head(rep.numbers)].damaged,
         rep' = NextTable(rep.found \cup {TableInfo(Head(rep.numbers),
                                  LargestSequence(dir.tables[Head(rep.numbers)].entries))}),
         UNCHANGED <<faults, dir, lost, began, crashes>>
  PROVE  RepairInv'
<1>0. PICK n, info : /\ n = Head(rep.numbers)
                     /\ info = TableInfo(n, LargestSequence(dir.tables[n].entries))
  OBVIOUS
<1>1. TableAt(n)
  BY <1>0, TableInTurn
<1>2. PassedOn /\ rep'.next = rep.next /\ rep'.found = rep.found \cup {info}
  BY <1>0, TablePassed DEF RepairInv
<1>3. /\ info \in Infos /\ info.number = n /\ UpTo(dir.tables[n].entries, info.max)
  <2>1. \A e \in dir.tables[n].entries : e.seq \in 0..kMaxSequenceNumber
    BY <1>1, Types DEF TableAt, RepairInv, TypeOK
  <2> QED BY <1>0, <1>1, <2>1, MaxSequenceBounds, RepairAssumption
        DEF TableAt, TableInfo, Infos, UpTo, Numbers
<1>4. EndsTable(0)
  <2>1. faults' = faults + 0
    BY DEF RepairInv, TypeOK
  <2>2. \A t \in rep'.found \ rep.found : t = info
    BY <1>2
  <2>3. rep'.found \in SUBSET Infos
    BY <1>1, <1>2, <1>3 DEF TableAt
  <2> QED BY <1>0, <1>1, <1>2, <1>3, <2>1, <2>2, <2>3 DEF EndsTable, AtTable, TableAt, PassedOn
<1>5. EndsWell
  <2>1. ASSUME faults' = 0, NEW m \in DOMAIN dir'.tables PROVE Covered(m)'
    BY <2>1 DEF RepairInv, Covers, AllCovered, Covered
  <2>2. ASSUME NEW m \in DOMAIN dir'.tables PROVE Covered(m) => Covered(m)'
    BY DEF Covered
  <2>3. \A e : Present(e) => Present(e)'
    BY DEF Present, InLogs, InTables, InLost
  <2>4. Archived' = Archived
    BY DEF Archived
  <2>5. ASSUME NEW e, e \in dir.tables[n].entries \/ e \in rep.copied
        PROVE  \E t \in rep'.found : t.number = n /\ e \in dir'.tables[t.number].entries
    BY <1>1, <1>2, <1>3, <2>5 DEF TableAt
  <2> QED BY <1>0, <2>1, <2>2, <2>3, <2>4, <2>5 DEF EndsWell
<1> QED BY <1>4, <1>5, NextTableKeepsInv

(* A table is left as it is, as a call failed or nothing of it was copied.    *)
LEMMA LeftKeepsInv ==
  ASSUME RepairInv, AtTable, PassedOn, rep'.next \in {rep.next, rep.next + 1},
         rep'.found = rep.found, UNCHANGED <<dir, lost, began, crashes>>,
         NEW k \in Nat, faults' = faults + k, k # 0 \/ (rep.pc = "copy" /\ rep.copied = {})
  PROVE  RepairInv'
<1>0. PICK n : n = Head(rep.numbers)
  OBVIOUS
<1>1. TableAt(n)
  BY <1>0, TableInTurn
<1>2. EndsTable(k)
  BY <1>0, <1>1 DEF EndsTable, AtTable, TableAt, PassedOn
<1>3. FaultsGrow(k)
  BY FailingGrows DEF RepairInv
<1>4. EndsWell
  <2>1. ASSUME faults' = 0, NEW m \in DOMAIN dir'.tables PROVE Covered(m)'
    BY <1>3, <2>1 DEF RepairInv, Covers, AllCovered, Covered, FaultsGrow
  <2>2. ASSUME NEW m \in DOMAIN dir'.tables PROVE Covered(m) => Covered(m)'
    BY DEF Covered
  <2>3. \A e : Present(e) => Present(e)'
    BY DEF Present, InLogs, InTables, InLost
  <2>4. Archived' = Archived
    BY DEF Archived
  <2>5. faults' = 0 => n \notin DOMAIN dir.tables /\ rep.copied = {}
    BY <1>1, <1>3 DEF RepairInv, Lists, SourceCopied, FaultsGrow, TableAt
  <2> QED BY <1>0, <2>1, <2>2, <2>3, <2>4, <2>5 DEF EndsWell
<1> QED BY <1>2, <1>4, NextTableKeepsInv

(* A table is archived, or stays though it should have been.                  *)
LEMMA ArchivedScanKeepsInv ==
  ASSUME RepairInv, AtTable, rep.pc = "convert", ArchiveTable(1, Head(rep.numbers)),
         rep' = NextTable(rep.found), UNCHANGED <<began, crashes>>
  PROVE  RepairInv'
<1>0. PICK n : n = Head(rep.numbers)
  OBVIOUS
<1>1. TableAt(n)
  BY <1>0, TableInTurn
<1>2. PassedOn /\ rep'.next = rep.next /\ rep'.found = rep.found
  BY TablePassed DEF RepairInv
<1>3. n \in DOMAIN dir.tables /\ Moved(n, 1)
  BY <1>0, <1>1, TableMoved DEF TableAt, RepairInv, Lists
<1>4. PICK k \in {1, 2} : faults' = faults + k
  BY <1>3 DEF Moved
<1>5. FaultsGrow(k)
  BY <1>4, FailingGrows DEF RepairInv
<1>6. /\ n \notin DOMAIN dir'.tables => Archived' = Archived \cup {n}
      /\ n \in DOMAIN dir'.tables => Archived' = Archived
      /\ \A m \in DOMAIN dir'.tables : Covered(m) => Covered(m)'
      /\ \A m : <<"log", m>> \in DOMAIN lost' <=> <<"log", m>> \in DOMAIN lost
  BY <1>3, MovedNames DEF RepairInv
<1>7. EndsTable(k)
  BY <1>0, <1>1, <1>2, <1>3, <1>4, <1>6 DEF EndsTable, AtTable, TableAt, PassedOn, Moved
<1>8. EndsWell
  <2>1. faults' # 0
    BY <1>5 DEF FaultsGrow
  <2>2. ASSUME Fewer', NEW e, Present(e) PROVE Present(e)'
    <3>1. Covered(n)
      BY <1>3, <1>5, <2>2 DEF RepairInv, Covers, AllCovered, FaultsGrow
    <3> QED BY <1>3, <2>2, <3>1, MovedKeepsPresent DEF RepairInv
  <2>3. \A m \in DOMAIN dir'.tables : m \in DOMAIN dir.tables /\ dir'.tables[m] = dir.tables[m]
    BY <1>3 DEF Moved
  <2>4. \A m \in Archived' : m \in Archived \/ m \in DOMAIN dir.tables
    BY <1>3, <1>6
  <2> QED BY <1>6, <2>1, <2>2, <2>3, <2>4 DEF EndsWell
<1> QED BY <1>7, <1>8, NextTableKeepsInv

(* A table is scanned.                                                        *)
LEMMA ScanTableKeepsInv ==
  ASSUME RepairInv, ScanTable
  PROVE  RepairInv'
<1>1. /\ rep.pc = "convert" /\ rep.logs = <<>> /\ rep.numbers # <<>> /\ AtTable
      /\ UNCHANGED <<began, crashes>> /\ faults \in Nat
  BY DEF ScanTable, AtTable, RepairInv, TypeOK
<1>2. PICK n : n = Head(rep.numbers)
  OBVIOUS
<1>3. ASSUME NEW k \in {0, 1}, NEW seen \in SUBSET dir.tables[n].entries, RepairTable(k, n, seen),
             k = 0 => seen = dir.tables[n].entries /\ dir.tables[n].damaged, UNCHANGED lost
      PROVE  RepairInv'
  <2>1. CASE /\ Failing(k)
             /\ rep' = [rep EXCEPT !.pc = "src", !.copy = rep.next, !.next = @ + 1, !.number = n,
                                   !.max = LargestSequence(seen)]
             /\ dir' = [dir EXCEPT !.tables = With(@, rep.next, Unfinished)]
    <3>1. faults' = faults + k
      BY <2>1 DEF Failing
    <3> QED BY <1>1, <1>2, <1>3, <2>1, <3>1, OpenCopyKeepsInv
  <2>2. CASE /\ Failing(k + 1) /\ rep' = [NextTable(rep.found) EXCEPT !.next = @ + 1] /\ dir' = dir
    <3>1. PassedOn /\ rep'.next = rep.next + 1 /\ rep'.found = rep.found
      BY <2>2, TableGivenUp DEF RepairInv
    <3>2. faults' = faults + (k + 1) /\ k + 1 \in Nat /\ k + 1 # 0
      BY <2>2 DEF Failing
    <3> QED BY <1>1, <1>3, <2>2, <3>1, <3>2, LeftKeepsInv
  <2> QED BY <1>3, <2>1, <2>2 DEF RepairTable
<1>4. CASE /\ ~dir.tables[n].damaged /\ Failing(0)
           /\ rep' = NextTable(rep.found \cup {TableInfo(n, LargestSequence(dir.tables[n].entries))})
           /\ UNCHANGED <<dir, lost>>
  <2>1. faults' = faults
    BY <1>1, <1>4 DEF Failing
  <2> QED BY <1>1, <1>2, <1>4, <2>1, FoundKeepsInv
<1>5. CASE ArchiveTable(1, n) /\ rep' = NextTable(rep.found)
  BY <1>1, <1>2, <1>5, ArchivedScanKeepsInv
<1>6. CASE dir.tables[n].damaged /\ RepairTable(0, n, dir.tables[n].entries) /\ UNCHANGED lost
  BY <1>3, <1>6
<1>7. CASE \E seen \in SUBSET dir.tables[n].entries : RepairTable(1, n, seen) /\ UNCHANGED lost
  BY <1>3, <1>7
<1> QED BY <1>2, <1>4, <1>5, <1>6, <1>7 DEF ScanTable

(* A copy is deleted, or left where it was, because a call failed.            *)
LEMMA DropCopyKeepsInv ==
  ASSUME RepairInv, rep.pc \in {"copy", "rename"}, DropCopy, UNCHANGED <<lost, began, crashes>>
  PROVE  RepairInv'
<1>0. PICK n : n = Head(rep.numbers)
  OBVIOUS
<1>1. AtTable
  BY DEF RepairInv, Lists, LogsListed, CopyInPlace, Copying, AtTable
<1>2. TableAt(n)
  BY <1>0, <1>1, TableInTurn
<1>3. PassedOn /\ rep'.next = rep.next /\ rep'.found = rep.found
  BY TablePassed DEF RepairInv, DropCopy
<1>4. CASE Failing(2) /\ dir' = dir
  <2>1. faults' = faults + 2
    BY <1>4 DEF Failing
  <2> QED BY <1>1, <1>3, <1>4, <2>1, LeftKeepsInv
<1>5. CASE Failing(1) /\ dir' = [dir EXCEPT !.tables = Without(@, rep.copy)]
  <2>1. dir' = [logs |-> dir.logs, tables |-> Without(dir.tables, rep.copy),
                manifests |-> dir.manifests, current |-> dir.current, tmp |-> dir.tmp,
                edit |-> dir.edit]
    BY <1>5 DEF RepairInv, TypeOK, DirTypeOK
  <2>2. dir'.tables = Without(dir.tables, rep.copy) /\ dir'.logs = dir.logs
    BY ONLY <2>1
  <2>3. Removed(dir'.tables, Numbers, dir.tables, rep.copy)
    BY <1>2, <2>2, WithoutFile DEF TableAt
  <2>4. /\ dir' = [logs |-> dir.logs, tables |-> dir'.tables, manifests |-> dir.manifests,
                   current |-> dir.current, tmp |-> dir.tmp, edit |-> dir.edit]
        /\ dir'.tables \in FilesOver(Known, Numbers)
        /\ DOMAIN dir'.tables = DOMAIN dir.tables \ {rep.copy}
        /\ \A m \in DOMAIN dir'.tables : dir'.tables[m] = dir.tables[m]
    BY <2>1, <2>2, <2>3 DEF Removed
  <2>5. IsFiniteSet(DOMAIN dir'.tables)
    BY <1>2, <2>4, FS_RemoveElement DEF TableAt
  <2>6. faults' = faults + 1
    BY <1>5 DEF Failing
  <2>7. FaultsGrow(1)
    BY <2>6, FailingGrows DEF RepairInv
  <2>8. EndsTable(1)
    BY <1>0, <1>1, <1>2, <1>3, <2>4, <2>5, <2>6 DEF EndsTable, AtTable, TableAt, PassedOn
  <2>9. EndsWell
    <3>1. faults' # 0
      BY <2>7 DEF FaultsGrow
    <3>2. ASSUME Fewer', NEW e, Present(e) PROVE Present(e)'
      <4>1. <<"table", rep.number>> \in DOMAIN lost /\ rep.copied = lost[<<"table", rep.number>>].entries
        BY <2>7, <3>2 DEF RepairInv, Lists, SourceCopied, FaultsGrow
      <4>2. dir.tables[rep.copy].entries \subseteq rep.copied
        BY <1>2 DEF TableAt
      <4>3. CASE InTables(e)
        <5>1. PICK m \in DOMAIN dir.tables : e \in dir.tables[m].entries
          BY <4>3 DEF InTables
        <5>2. CASE m = rep.copy
          BY <4>1, <4>2, <5>1, <5>2 DEF Present, InLost
        <5>3. CASE m # rep.copy
          BY <2>4, <5>1, <5>3 DEF Present, InTables
        <5> QED BY <5>2, <5>3
      <4>4. CASE InLogs(e) \/ InLost(e)
        BY <2>2, <4>4 DEF Present, InLogs, InLost
      <4> QED BY <3>2, <4>3, <4>4 DEF Present
    <3>3. \A m \in DOMAIN dir'.tables : m \in DOMAIN dir.tables /\ (Covered(m) => Covered(m)')
      BY <2>4 DEF Covered
    <3>4. Archived' = Archived
      BY DEF Archived
    <3> QED BY <2>4, <3>1, <3>2, <3>3, <3>4 DEF EndsWell
  <2> QED BY <2>8, <2>9, NextTableKeepsInv
<1> QED BY <1>4, <1>5 DEF DropCopy

(* The copy takes the place of the source.                                    *)
LEMMA RenamedKeepsInv ==
  ASSUME RepairInv, rep.pc = "rename", UNCHANGED <<faults, lost, began, crashes>>,
         dir' = [dir EXCEPT !.tables = With(Without(@, rep.copy), rep.number, @[rep.copy])],
         rep' = NextTable(rep.found \cup {TableInfo(rep.number, rep.max)})
  PROVE  RepairInv'
<1>0. PICK n, info : n = Head(rep.numbers) /\ info = TableInfo(n, rep.max)
  OBVIOUS
<1>1. AtTable
  BY DEF RepairInv, Lists, LogsListed, CopyInPlace, Copying, AtTable
<1>2. TableAt(n) /\ rep.number = n
  BY <1>0, <1>1, TableInTurn DEF TableAt
<1>3. PassedOn /\ rep'.next = rep.next /\ rep'.found = rep.found \cup {info}
  BY <1>0, <1>2, TablePassed DEF RepairInv
<1>4. info \in Infos /\ info.number = n /\ info.max = rep.max
  <2>1. rep.max \in 0..kMaxSequenceNumber
    BY DEF RepairInv, TypeOK, RepTypeOK
  <2> QED BY <1>0, <1>2, <2>1 DEF TableAt, Numbers, TableInfo, Infos
<1>5. /\ rep.copy \in DOMAIN dir.tables /\ rep.copy # n
      /\ dir.tables[rep.copy] = Holding(rep.copied, FALSE)
      /\ dir.tables[rep.copy].entries = rep.copied /\ ~dir.tables[rep.copy].damaged
      /\ dir.tables[rep.copy] \in FileOf(Known)
  <2>1. dir.tables[rep.copy] = Holding(rep.copied, FALSE)
    BY DEF RepairInv, Lists, CopyInPlace
  <2> QED BY <1>2, <2>1, Held DEF TableAt
<1>6. dir' = [logs |-> dir.logs,
              tables |-> With(Without(dir.tables, rep.copy), n, dir.tables[rep.copy]),
              manifests |-> dir.manifests, current |-> dir.current, tmp |-> dir.tmp,
              edit |-> dir.edit]
  BY <1>2 DEF RepairInv, TypeOK, DirTypeOK
<1>7. /\ dir'.tables = With(Without(dir.tables, rep.copy), n, dir.tables[rep.copy])
      /\ dir'.logs = dir.logs
  BY ONLY <1>6
<1>8. /\ dir' = [logs |-> dir.logs, tables |-> dir'.tables, manifests |-> dir.manifests,
                 current |-> dir.current, tmp |-> dir.tmp, edit |-> dir.edit]
      /\ dir'.tables \in FilesOver(Known, Numbers)
      /\ DOMAIN dir'.tables = (DOMAIN dir.tables \ {rep.copy}) \cup {n}
      /\ dir'.tables[n] = dir.tables[rep.copy]
      /\ \A m \in DOMAIN dir.tables \ {rep.copy, n} :
           m \in DOMAIN dir'.tables /\ dir'.tables[m] = dir.tables[m]
      /\ IsFiniteSet(DOMAIN dir'.tables)
  <2>1. PICK g : g = Without(dir.tables, rep.copy)
    OBVIOUS
  <2>2. Removed(g, Numbers, dir.tables, rep.copy)
    BY <1>2, <2>1, WithoutFile DEF TableAt
  <2>3. Written(dir'.tables, Numbers, g, n, dir.tables[rep.copy])
    <3>1. g \in FilesOver(Known, Numbers) /\ n \in Numbers
      BY <1>2, <2>2 DEF Removed, TableAt
    <3> QED BY <1>5, <1>7, <2>1, <3>1, WithFile
  <2>4. IsFiniteSet(DOMAIN dir'.tables)
    <3>1. DOMAIN dir'.tables = (DOMAIN dir.tables \ {rep.copy}) \cup {n}
      BY <2>2, <2>3 DEF Removed, Written
    <3>2. IsFiniteSet(DOMAIN dir.tables \ {rep.copy})
      BY <1>2, FS_RemoveElement DEF TableAt
    <3> QED BY <3>1, <3>2, FS_AddElement
  <2> QED BY <1>6, <1>7, <2>2, <2>3, <2>4 DEF Removed, Written
<1>9. EndsTable(0)
  <2>1. faults' = faults + 0
    BY DEF RepairInv, TypeOK
  <2>2. \A t \in rep'.found \ rep.found : t = info
    BY <1>3
  <2>3. rep'.found \in SUBSET Infos
    BY <1>2, <1>3, <1>4 DEF TableAt
  <2>4. faults' = 0 => ~dir'.tables[n].damaged /\ UpTo(dir'.tables[n].entries, info.max)
    BY <1>4, <1>5, <1>8 DEF RepairInv, Lists, SourceCopied
  <2>5. /\ dir'.tables \in FilesOver(Known, Numbers) /\ IsFiniteSet(DOMAIN dir'.tables)
        /\ DOMAIN dir'.tables \subseteq DOMAIN dir.tables \cup {rep.number}
        /\ \A m \in DOMAIN dir.tables \ {rep.copy, Head(rep.numbers)} :
             m \in DOMAIN dir'.tables /\ dir'.tables[m] = dir.tables[m]
        /\ n \in DOMAIN dir'.tables
    BY <1>0, <1>2, <1>8
  <2>6. \A t \in rep'.found \ rep.found :
          /\ t.number = Head(rep.numbers) /\ t.number \in DOMAIN dir'.tables
          /\ faults' = 0 => /\ ~dir'.tables[t.number].damaged
                            /\ UpTo(dir'.tables[t.number].entries, t.max)
    BY <1>0, <1>4, <2>2, <2>4, <2>5
  <2>7. rep'.next \in {rep.next, rep.next + 1} /\ rep.found \subseteq rep'.found
    BY <1>3
  <2>8. lost' \in FilesOver(Known, LostNames)
        /\ \A m : <<"log", m>> \in DOMAIN lost' <=> <<"log", m>> \in DOMAIN lost
    BY <1>2 DEF TableAt
  <2> QED BY <1>1, <1>3, <1>8, <2>1, <2>3, <2>5, <2>6, <2>7, <2>8 DEF EndsTable, AtTable, PassedOn
<1>10. EndsWell
  <2>1. ASSUME NEW m \in DOMAIN dir'.tables, m # n
        PROVE  m \in DOMAIN dir.tables /\ dir'.tables[m] = dir.tables[m]
    BY <1>8, <2>1
  <2>2. \A m \in DOMAIN dir'.tables : m # n => (Covered(m) => Covered(m)')
    BY <2>1 DEF Covered
  <2>3. ASSUME faults' = 0, NEW m \in DOMAIN dir'.tables PROVE Covered(m)'
    <3>1. CASE m = n
      BY <1>2, <1>5, <1>8, <2>3, <3>1 DEF RepairInv, Lists, SourceCopied, Covered
    <3>2. CASE m # n
      BY <2>1, <2>2, <2>3, <3>2 DEF RepairInv, Covers, AllCovered
    <3> QED BY <3>1, <3>2
  <2>4. ASSUME faults' = 0, NEW e,
               (n \in DOMAIN dir.tables /\ e \in dir.tables[n].entries) \/ e \in rep.copied
        PROVE  \E t \in rep'.found : t.number = n /\ e \in dir'.tables[t.number].entries
    <3>1. e \in rep.copied
      BY <1>2, <2>4 DEF RepairInv, Lists, SourceCopied
    <3>2. e \in dir'.tables[info.number].entries
      BY <1>4, <1>5, <1>8, <3>1
    <3> QED BY <1>3, <1>4, <3>2
  <2>5. ASSUME Fewer', NEW e, Present(e) PROVE Present(e)'
    <3>1. n \in DOMAIN dir.tables => rep.copied = dir.tables[n].entries
      BY <1>2, <2>5 DEF RepairInv, Lists, SourceCopied, Fewer, TypeOK
    <3>2. CASE InTables(e)
      <4>1. PICK m \in DOMAIN dir.tables : e \in dir.tables[m].entries
        BY <3>2 DEF InTables
      <4>2. CASE m = n \/ m = rep.copy
        <5>1. e \in dir'.tables[n].entries /\ n \in DOMAIN dir'.tables
          BY <1>5, <1>8, <3>1, <4>1, <4>2
        <5> QED BY <5>1 DEF Present, InTables
      <4>3. CASE m # n /\ m # rep.copy
        BY <1>8, <4>1, <4>3 DEF Present, InTables
      <4> QED BY <4>2, <4>3
    <3>3. CASE InLogs(e) \/ InLost(e)
      BY <1>7, <3>3 DEF Present, InLogs, InLost
    <3> QED BY <2>5, <3>2, <3>3 DEF Present
  <2>6. ASSUME NEW m \in DOMAIN dir'.tables, dir'.tables[m].damaged
        PROVE  m \in DOMAIN dir.tables /\ dir.tables[m].damaged /\ (Covered(m) => Covered(m)')
    <3>1. m # n
      BY <1>5, <1>8, <2>6
    <3> QED BY <2>1, <2>2, <2>6, <3>1
  <2>7. Archived' = Archived
    BY DEF Archived
  <2>8. rep.number \in DOMAIN dir'.tables
    BY <1>2, <1>8
  <2> QED BY <1>0, <2>3, <2>4, <2>5, <2>6, <2>7, <2>8 DEF EndsWell
<1> QED BY <1>9, <1>10, NextTableKeepsInv

(* The copy is renamed, or dropped.                                           *)
LEMMA RenameCopyKeepsInv ==
  ASSUME RepairInv, RenameCopy
  PROVE  RepairInv'
<1>1. rep.pc = "rename" /\ UNCHANGED <<lost, began, crashes>>
  BY DEF RenameCopy
<1>2. CASE DropCopy
  BY <1>1, <1>2, DropCopyKeepsInv
<1>3. CASE /\ Failing(0)
           /\ dir' = [dir EXCEPT !.tables = With(Without(@, rep.copy), rep.number, @[rep.copy])]
           /\ rep' = NextTable(rep.found \cup {TableInfo(rep.number, rep.max)})
  <2>1. faults' = faults
    BY <1>3 DEF Failing, RepairInv, TypeOK
  <2> QED BY <1>1, <1>3, <2>1, RenamedKeepsInv
<1> QED BY <1>2, <1>3 DEF RenameCopy

(* The copy is finished, abandoned without an entry, or dropped.              *)
LEMMA FinishCopyKeepsInv ==
  ASSUME RepairInv, FinishCopy
  PROVE  RepairInv'
<1>1. rep.pc = "copy" /\ UNCHANGED <<lost, began, crashes>> /\ AtTable /\ faults \in Nat
  BY DEF FinishCopy, RepairInv, Lists, LogsListed, CopyInPlace, Copying, AtTable, TypeOK
<1>2. CASE DropCopy
  BY <1>1, <1>2, DropCopyKeepsInv
<1>3. CASE rep.copied = {} /\ Failing(0) /\ dir' = dir /\ rep' = NextTable(rep.found)
  <2>1. PassedOn /\ rep'.next = rep.next /\ rep'.found = rep.found
    BY <1>3, TablePassed DEF RepairInv
  <2>2. faults' = faults + 0
    BY <1>3 DEF Failing
  <2> QED BY <1>1, <1>3, <2>1, <2>2, LeftKeepsInv
<1>4. CASE /\ rep.copied # {} /\ Failing(0)
           /\ dir' = [dir EXCEPT !.tables = With(@, rep.copy, Holding(rep.copied, FALSE))]
           /\ rep' = [rep EXCEPT !.pc = "rename"]
  <2>1. faults' = faults
    BY <1>1, <1>4 DEF Failing
  <2> QED BY <1>1, <1>4, <2>1, CopyBuiltKeepsInv
<1> QED BY <1>2, <1>3, <1>4 DEF FinishCopy

-----------------------------------------------------------------------------
(* The directory is listed; the next number is beyond what it holds, and, as  *)
(* no call failed or this is the first run, beyond all that was archived.     *)
LEMMA FindFilesKeepsInv ==
  ASSUME RepairInv, FindFiles
  PROVE  RepairInv'
<1> DEFINE all == DOMAIN dir.logs \cup DOMAIN dir.tables
                  \cup (IF dir.tmp = NULL THEN {} ELSE {1})
           Greatest0(n) == \A m \in all : m <= n
           g0 == CHOOSE n \in all \cup {0} : Greatest0(n)
<1> USE DEF RepairInv, Lists
<1>1. rep.pc = "find" /\ UNCHANGED <<dir, lost, began, crashes>>
  BY DEF FindFiles
<1>2. /\ DOMAIN dir.logs \in SUBSET Numbers /\ DOMAIN dir.tables \in SUBSET Numbers
      /\ IsFiniteSet(DOMAIN dir.logs) /\ IsFiniteSet(DOMAIN dir.tables)
      /\ rep.copy = 0 /\ rep.number = 0 /\ rep.copied = {} /\ rep.found = {}
      /\ rep.logs = <<>> /\ rep.numbers = <<>> /\ 0 \notin DOMAIN dir.tables
  BY <1>1, Types DEF LogsListed, CopyInPlace, Copying, TablesListed, Numbers
<1>3. PICK g \in Nat : g = g0 /\ \A m \in DOMAIN dir.logs \cup DOMAIN dir.tables : m \in Nat /\ m <= g
  <2>1. all \in SUBSET Nat /\ IsFiniteSet(all)
    <3>1. IsFiniteSet(DOMAIN dir.logs \cup DOMAIN dir.tables)
      BY <1>2, FS_Union
    <3>2. IsFiniteSet(IF dir.tmp = NULL THEN {} ELSE {1})
      BY FS_EmptySet, FS_Singleton
    <3>3. IsFiniteSet(all)
      BY <3>1, <3>2, FS_Union
    <3> QED BY <1>2, <3>3 DEF Numbers
  <2>2. PICK b \in Nat : \A x \in all : x <= b
    BY <2>1, FiniteBounded
  <2>3. \E n \in all \cup {0} : \A m \in all : m <= n
    BY <2>1, <2>2, Greatest
  <2>4. \E n \in all \cup {0} : Greatest0(n)
    BY <2>3
  <2>5. DOMAIN dir.logs \cup DOMAIN dir.tables \subseteq all
    OBVIOUS
  <2> HIDE DEF all, Greatest0
  <2>6. g0 \in all \cup {0} /\ Greatest0(g0)
    BY <2>4
  <2> HIDE DEF g0
  <2> QED BY <2>1, <2>5, <2>6 DEF Greatest0
<1>4. \/ /\ Failing(0)
         /\ \E logs \in Orders(DOMAIN dir.logs), tables \in Orders(DOMAIN dir.tables) :
              rep' = [Start EXCEPT !.pc = "convert", !.logs = logs, !.numbers = tables,
                                   !.manifests = dir.manifests, !.next = 1 + g0]
      \/ Failing(1) /\ rep' = [rep EXCEPT !.pc = "failed"]
  BY DEF FindFiles
<1> HIDE DEF g0
<1>5. CASE Failing(1) /\ rep' = [rep EXCEPT !.pc = "failed"]
  <2>1. rep' = [pc |-> "failed", logs |-> rep.logs, numbers |-> rep.numbers,
                manifests |-> rep.manifests, next |-> rep.next, found |-> rep.found,
                copy |-> rep.copy, number |-> rep.number, max |-> rep.max, copied |-> rep.copied]
    BY <1>5 DEF TypeOK, RepTypeOK
  <2>2. /\ rep'.pc = "failed" /\ rep'.logs = rep.logs /\ rep'.numbers = rep.numbers
        /\ rep'.manifests = rep.manifests /\ rep'.next = rep.next /\ rep'.found = rep.found
        /\ rep'.copy = rep.copy /\ rep'.number = rep.number /\ rep'.max = rep.max
        /\ rep'.copied = rep.copied
    BY ONLY <2>1
  <2>3. FaultsGrow(1)
    BY <1>1, <1>5, FailingGrows DEF Failing
  <2>4. TypeOK'
    <3>1. DirTypeOK'
      BY <1>1 DEF TypeOK, DirTypeOK, Known
    <3>2. RepTypeOK'
      BY <1>1, <2>1 DEF TypeOK, RepTypeOK, Known, States
    <3> QED BY <1>1, <2>3, <3>1, <3>2 DEF TypeOK, Known, FaultsGrow
  <2>5. NumbersGrow' /\ LogsListed' /\ VersionWhole' /\ CopyInPlace' /\ SourceCopied'
    BY <1>1, <1>2, <2>2 DEF NumbersGrow, LogsListed, VersionWhole, CopyInPlace, SourceCopied,
                           Copying, Running
  <2>6. TablesListed'
    BY <1>1, <1>2, <2>2 DEF TablesListed
  <2>7. Archived' = Archived /\ \A n : Covered(n)' <=> Covered(n)
    BY <1>1 DEF Archived, Covered
  <2>8. Covers'
    BY <1>1, <1>2, <2>2, <2>3, <2>7 DEF Covers, AllCovered, DamagedCovered, SourceCovered, FaultsGrow
  <2>9. FreshNumbers'
    BY <1>1, <2>2, <2>3, <2>7 DEF FreshNumbers, NextFresh, SomeBeyond, FirstRun, Running, FaultsGrow
  <2>10. NothingGone'
    BY <1>1, <2>3 DEF NothingGone, Present, InLogs, InTables, InLost, FaultsGrow
  <2>11. AllInHand'
    BY <2>3 DEF AllInHand, FaultsGrow
  <2> QED BY <2>4, <2>5, <2>6, <2>8, <2>9, <2>10, <2>11
<1>6. ASSUME Failing(0), NEW logs \in Orders(DOMAIN dir.logs),
             NEW numbers \in Orders(DOMAIN dir.tables),
             rep' = [Start EXCEPT !.pc = "convert", !.logs = logs, !.numbers = numbers,
                                  !.manifests = dir.manifests, !.next = 1 + g0]
      PROVE  RepairInv'
  <2>1. /\ logs \in Seq(Numbers) /\ Distinct(logs) /\ Listed(logs) = DOMAIN dir.logs
        /\ numbers \in Seq(Numbers) /\ Distinct(numbers) /\ Listed(numbers) = DOMAIN dir.tables
    BY <1>2, OrdersList
  <2>2. rep' = [pc |-> "convert", logs |-> logs, numbers |-> numbers,
                manifests |-> dir.manifests, next |-> 1 + g, found |-> {}, copy |-> 0,
                number |-> 0, max |-> 0, copied |-> {}]
    BY <1>3, <1>6 DEF Start
  <2>3. /\ rep'.pc = "convert" /\ rep'.logs = logs /\ rep'.numbers = numbers
        /\ rep'.manifests = dir.manifests /\ rep'.next = 1 + g /\ rep'.found = {}
        /\ rep'.copy = 0 /\ rep'.number = 0 /\ rep'.copied = {}
    BY ONLY <2>2
  <2>4. faults' = faults
    BY <1>6 DEF Failing, TypeOK
  <2>5. TypeOK'
    <3>1. DirTypeOK'
      BY <1>1 DEF TypeOK, DirTypeOK, Known
    <3>2. "convert" \in States /\ 1 + g \in Nat /\ dir.manifests \in SUBSET Nat
          /\ 0 \in Nat /\ 0 \in 0..kMaxSequenceNumber
      BY RepairAssumption DEF TypeOK, DirTypeOK, States
    <3>3. RepTypeOK'
      BY <2>1, <2>2, <3>2 DEF RepTypeOK, Known
    <3> QED BY <1>1, <2>4, <3>1, <3>3 DEF TypeOK, Known
  <2>6. NumbersGrow'
    BY <1>1, <1>3, <2>3 DEF NumbersGrow
  <2>7. LogsListed'
    BY <1>1, <1>2, <2>1, <2>3, <2>4 DEF LogsListed, Running
  <2>8. TablesListed'
    BY <1>1, <2>1, <2>3 DEF TablesListed
  <2>9. CopyInPlace' /\ SourceCopied' /\ VersionWhole'
    BY <1>1, <2>3 DEF CopyInPlace, Copying, SourceCopied, VersionWhole
  <2>10. Archived' = Archived /\ \A n : Covered(n)' <=> Covered(n)
    BY <1>1 DEF Archived, Covered
  <2>11. Covers'
    BY <1>1, <2>1, <2>3, <2>4, <2>10
       DEF Covers, AllCovered, DamagedCovered, SourceCovered, Fewer
  <2>12. FreshNumbers'
    <3>1. NextFresh'
      <4>1. ASSUME faults = 0, NEW m \in Archived PROVE m < 1 + g
        <5>1. m \in Nat /\ \E d \in DOMAIN dir.tables : m <= d
          BY <4>1, Types DEF SomeBeyond, FreshNumbers
        <5> QED BY <1>3, <5>1
      <4>2. ASSUME crashes = 0 PROVE Archived = {}
        BY <1>1, <4>2 DEF FirstRun, FreshNumbers, Archived
      <4> QED BY <1>1, <2>3, <2>4, <2>10, <4>1, <4>2 DEF NextFresh
    <3>2. SomeBeyond'
      BY <1>1, <1>2, <2>3, <2>4, <2>10 DEF SomeBeyond, FreshNumbers
    <3>3. FirstRun'
      BY <2>3 DEF FirstRun
    <3> QED BY <3>1, <3>2, <3>3 DEF FreshNumbers
  <2>13. NothingGone'
    BY <1>1, <2>4 DEF NothingGone, Present, InLogs, InTables, InLost, Fewer
  <2>14. AllInHand'
    <3>1. ASSUME NEW e PROVE /\ ToConvert(e)' <=> ToConvert(e)
                             /\ ToScan(e)' <=> ToScan(e)
                             /\ Found(e)' <=> Found(e)
      BY <1>1, <1>2, <2>1, <2>3 DEF ToConvert, ToScan, Found
    <3> QED BY <1>1, <1>2, <2>3, <2>4, <3>1 DEF AllInHand, InHand
  <2> QED BY <2>5, <2>6, <2>7, <2>8, <2>9, <2>11, <2>12, <2>13, <2>14
<1> QED BY <1>4, <1>5, <1>6

(* The process dies, and perhaps leaves a table or a MANIFEST that is not     *)
(* finished; a table's number is new, so that it may be archived when the     *)
(* repair is run again.                                                       *)
LEMMA CrashKeepsInv ==
  ASSUME RepairInv, Crash
  PROVE  RepairInv'
<1> USE DEF RepairInv, Lists
<1>0. PICK c : c = rep.next
  OBVIOUS
<1>1. /\ rep.pc # "find" /\ crashes' = crashes + 1 /\ rep' = Start
      /\ UNCHANGED <<lost, began, faults>>
  BY DEF Crash
<1>2. /\ rep'.pc = "find" /\ rep'.logs = <<>> /\ rep'.numbers = <<>> /\ rep'.manifests = {}
      /\ rep'.next = 1 /\ rep'.found = {} /\ rep'.copy = 0 /\ rep'.number = 0
      /\ rep'.copied = {} /\ Listed(rep'.logs) = {} /\ Listed(rep'.numbers) = {}
  BY <1>1 DEF Start, Listed
<1>3. /\ dir.tables \in FilesOver(Known, Numbers) /\ DOMAIN dir.tables \in SUBSET Numbers
      /\ IsFiniteSet(DOMAIN dir.logs) /\ IsFiniteSet(DOMAIN dir.tables)
      /\ rep.next \in Nat /\ crashes \in Nat /\ faults \in Nat
  BY Types DEF LogsListed, TypeOK, RepTypeOK
<1>4. /\ dir' = [logs |-> dir.logs, tables |-> dir'.tables, manifests |-> dir.manifests,
                 current |-> dir.current, tmp |-> dir'.tmp, edit |-> dir.edit]
      /\ dir'.tmp \in {dir.tmp, Unfinished}
      /\ dir'.tables \in FilesOver(Known, Numbers) /\ IsFiniteSet(DOMAIN dir'.tables)
      /\ DOMAIN dir.tables \subseteq DOMAIN dir'.tables
      /\ \A n \in DOMAIN dir.tables : dir'.tables[n] = dir.tables[n]
      /\ \A n \in DOMAIN dir'.tables \ DOMAIN dir.tables : n = c /\ Running
  <2>1. CASE dir' = dir
    <3>1. dir' = [logs |-> dir.logs, tables |-> dir.tables, manifests |-> dir.manifests,
                  current |-> dir.current, tmp |-> dir.tmp, edit |-> dir.edit]
      BY <2>1 DEF TypeOK, DirTypeOK
    <3> QED BY <1>3, <2>1, <3>1
  <2>2. CASE /\ rep.pc = "convert" /\ rep.logs # <<>>
             /\ dir' = [dir EXCEPT !.tables = With(@, rep.next, Unfinished)]
    <3>1. dir' = [logs |-> dir.logs, tables |-> With(dir.tables, rep.next, Unfinished),
                  manifests |-> dir.manifests, current |-> dir.current, tmp |-> dir.tmp,
                  edit |-> dir.edit]
      BY <2>2 DEF TypeOK, DirTypeOK
    <3>2. dir'.tables = With(dir.tables, rep.next, Unfinished) /\ dir'.tmp = dir.tmp
      BY ONLY <3>1
    <3>3. Unfinished \in FileOf(Known)
      BY Held
    <3>4. Added(Unfinished) /\ Running
      BY <2>2, <3>2, <3>3, NewTable DEF Running
    <3>5. dir' = [logs |-> dir.logs, tables |-> dir'.tables, manifests |-> dir.manifests,
                  current |-> dir.current, tmp |-> dir'.tmp, edit |-> dir.edit]
      BY <3>1, <3>2
    <3> QED BY <1>0, <3>2, <3>4, <3>5 DEF Added
  <2>3. CASE dir' = [dir EXCEPT !.tmp = Unfinished]
    <3>1. dir' = [logs |-> dir.logs, tables |-> dir.tables, manifests |-> dir.manifests,
                  current |-> dir.current, tmp |-> Unfinished, edit |-> dir.edit]
      BY <2>3 DEF TypeOK, DirTypeOK
    <3>2. dir'.tables = dir.tables /\ dir'.tmp = Unfinished
      BY ONLY <3>1
    <3> QED BY <1>3, <3>1, <3>2
  <2> QED BY <2>1, <2>2, <2>3 DEF Crash
<1>5. dir'.logs = dir.logs /\ dir'.manifests = dir.manifests
  BY <1>4
<1>6. TypeOK'
  <2>1. DirTypeOK'
    <3>1. dir'.tmp \in Edit \cup {NULL, Unfinished}
      BY <1>4 DEF TypeOK, DirTypeOK
    <3> QED BY <1>1, <1>4, <3>1 DEF TypeOK, DirTypeOK, Known
  <2>2. RepTypeOK'
    <3>1. 0 \in 0..kMaxSequenceNumber
      BY RepairAssumption
    <3> QED BY <1>1, <3>1 DEF RepTypeOK, Start, States
  <2> QED BY <1>1, <1>3, <2>1, <2>2 DEF TypeOK, Known
<1>7. NumbersGrow' /\ VersionWhole' /\ CopyInPlace' /\ SourceCopied'
  BY <1>2 DEF NumbersGrow, VersionWhole, CopyInPlace, SourceCopied, Copying, Running
<1>8. LogsListed'
  BY <1>1, <1>2, <1>3, <1>4, <1>5 DEF LogsListed, Distinct, Running
<1>9. TablesListed'
  BY <1>2 DEF TablesListed, Distinct
<1>10. Archived' = Archived
  BY <1>1 DEF Archived
<1>11. Fewer' => Fewer /\ (faults = 0 \/ crashes = 0)
  BY <1>1, <1>3 DEF Fewer
<1>12. \A n \in DOMAIN dir.tables : Covered(n) => Covered(n)'
  BY <1>1, <1>4 DEF Covered
<1>13. ASSUME faults = 0 \/ crashes = 0, NEW n \in DOMAIN dir'.tables, n \notin DOMAIN dir.tables
       PROVE  Covered(n)'
  <2>1. n = c /\ Running
    BY <1>4, <1>13
  <2>2. c \notin Archived
    BY <1>0, <1>3, <1>13, <2>1, Types DEF FreshNumbers, NextFresh
  <2>3. <<"table", n>> \notin DOMAIN lost
    BY <2>1, <2>2, Types
  <2> QED BY <1>1, <2>3 DEF Covered
<1>14. Covers'
  <2>1. AllCovered'
    BY <1>1, <1>12, <1>13 DEF Covers, AllCovered
  <2>2. DamagedCovered'
    <3>1. SUFFICES ASSUME Fewer', NEW n \in DOMAIN dir'.tables, dir'.tables[n].damaged
                   PROVE  Covered(n)'
      BY DEF DamagedCovered
    <3>2. CASE n \in DOMAIN dir.tables
      <4>1. Covered(n)
        BY <1>4, <1>11, <3>1, <3>2 DEF Covers, AllCovered, DamagedCovered
      <4> QED BY <1>12, <3>2, <4>1
    <3>3. CASE n \notin DOMAIN dir.tables
      BY <1>11, <1>13, <3>1, <3>3
    <3> QED BY <3>2, <3>3
  <2> QED BY <1>2, <2>1, <2>2 DEF Covers, SourceCovered
<1>15. FreshNumbers'
  <2>1. NextFresh' /\ FirstRun'
    BY <1>1, <1>2, <1>3 DEF NextFresh, FirstRun, Running
  <2>2. SomeBeyond'
    <3>1. 0 \notin DOMAIN dir'.tables
      BY <1>4, FilesInside DEF Numbers
    <3>2. ASSUME faults = 0, NEW m \in Archived PROVE \E d \in DOMAIN dir'.tables : m <= d
      BY <1>4, <3>2 DEF SomeBeyond, FreshNumbers
    <3> QED BY <1>1, <1>2, <1>10, <3>1, <3>2 DEF SomeBeyond
  <2> QED BY <2>1, <2>2 DEF FreshNumbers
<1>16. NothingGone'
  <2>1. ASSUME NEW e, Present(e) PROVE Present(e)'
    BY <1>1, <1>4, <1>5, <2>1 DEF Present, InLogs, InTables, InLost
  <2> QED BY <1>1, <1>11, <2>1 DEF NothingGone
<1>17. AllInHand'
  BY <1>1, <1>3 DEF AllInHand
<1> QED BY <1>6, <1>7, <1>8, <1>9, <1>14, <1>15, <1>16, <1>17

-----------------------------------------------------------------------------
(* The files that a repair starts from.                                       *)
Made(user, file, bad, seems, broken) ==
    LET entry(s) == InternalKey(user[s], s, kTypeValue)
        good(n) == {entry(s) : s \in {x \in 1..Writes \ bad : file[x] = n}}
        holding(n) == Holding(good(n) \cup (IF n \in DOMAIN seems THEN seems[n] ELSE {}),
                              n \in broken)
        used == {file[s] : s \in 1..Writes}
    IN  /\ \A s, t \in 1..Writes : s < t => file[s] <= file[t]
        /\ dir = [logs |-> [n \in OldLogs \cap used |-> holding(n)],
                  tables |-> [n \in OldTables \cap used |-> holding(n)],
                  manifests |-> {3}, current |-> 3, tmp |-> NULL, edit |-> NULL]
        /\ began = {entry(s) : s \in 1..Writes \ bad}
        /\ lost = <<>> /\ rep = Start /\ crashes = 0 /\ faults = 0

(* They fulfil the invariant.                                                 *)
LEMMA InitInv ==
  ASSUME Init
  PROVE  RepairInv
<1> DEFINE W == 1..Writes
<1>1. PICK user \in [W -> Users], file \in [W -> OldTables \cup OldLogs],
           bad \in {b \in SUBSET W : Cardinality(b) <= MaxDamaged} :
        \E seems \in [{file[s] : s \in bad} -> SUBSET Garbage] :
        \E broken \in SUBSET (DOMAIN seems \cap OldTables) : Made(user, file, bad, seems, broken)
  BY Zenon DEF Init, Made
<1>2. PICK seems \in [{file[s] : s \in bad} -> SUBSET Garbage], broken \in SUBSET OldTables :
        Made(user, file, bad, seems, broken)
  BY <1>1
<1> DEFINE entry(s) == InternalKey(user[s], s, kTypeValue)
           good(n) == {entry(s) : s \in {x \in W \ bad : file[x] = n}}
           seen(n) == IF n \in DOMAIN seems THEN seems[n] ELSE {}
           holding(n) == Holding(good(n) \cup seen(n), n \in broken)
           used == {file[s] : s \in W}
<1>3. /\ dir = [logs |-> [n \in OldLogs \cap used |-> holding(n)],
                tables |-> [n \in OldTables \cap used |-> holding(n)],
                manifests |-> {3}, current |-> 3, tmp |-> NULL, edit |-> NULL]
      /\ began = {entry(s) : s \in W \ bad}
      /\ lost = <<>> /\ rep = Start /\ crashes = 0 /\ faults = 0
  BY <1>2 DEF Made
<1>4. \A s \in W : entry(s).seq = s
  BY DEF InternalKey
<1> HIDE DEF entry
<1>5. \A n : good(n) \in SUBSET began /\ seen(n) \in SUBSET Garbage
  BY <1>3
<1>6. \A n : holding(n) \in FileOf(Known) /\ good(n) \subseteq holding(n).entries
  BY <1>5 DEF Holding, FileOf, Known
<1>7. used \subseteq OldTables \cup OldLogs /\ IsFiniteSet(used)
  <2>1. IsFiniteSet(W)
    BY FS_Interval, RepairAssumption
  <2>2. file \in Surjection(W, used)
    BY DEF Surjection
  <2> QED BY <2>1, <2>2, FS_Surjection
<1>8. \A s \in W \ bad : file[s] \in used /\ entry(s) \in holding(file[s]).entries
  BY <1>6
<1> HIDE DEF used, holding
<1>9. IsFiniteSet(OldLogs \cap used) /\ IsFiniteSet(OldTables \cap used)
  BY <1>7, FS_Subset
<1>10. /\ DOMAIN dir.logs = OldLogs \cap used /\ DOMAIN dir.tables = OldTables \cap used
       /\ \A n \in DOMAIN dir.logs : dir.logs[n] = holding(n)
       /\ \A n \in DOMAIN dir.tables : dir.tables[n] = holding(n)
  BY <1>3
<1>11. DOMAIN lost = {} /\ Archived = {}
  BY <1>3 DEF Archived
<1>12. /\ rep.pc = "find" /\ rep.logs = <<>> /\ rep.numbers = <<>> /\ rep.manifests = {}
       /\ rep.next = 1 /\ rep.found = {} /\ rep.copy = 0 /\ rep.number = 0 /\ rep.copied = {}
  BY <1>3 DEF Start
<1>13. TypeOK
  <2>1. [n \in OldLogs \cap used |-> holding(n)] \in FilesOver(Known, Numbers)
    <3>1. [n \in OldLogs \cap used |-> holding(n)] \in [OldLogs \cap used -> FileOf(Known)]
      BY <1>6
    <3>2. OldLogs \cap used \in SUBSET Numbers
      BY RepairAssumption DEF Numbers
    <3> QED BY <3>1, <3>2, Zenon DEF FilesOver
  <2>2. [n \in OldTables \cap used |-> holding(n)] \in FilesOver(Known, Numbers)
    <3>1. [n \in OldTables \cap used |-> holding(n)] \in [OldTables \cap used -> FileOf(Known)]
      BY <1>6
    <3>2. OldTables \cap used \in SUBSET Numbers
      BY RepairAssumption DEF Numbers
    <3> QED BY <3>1, <3>2, Zenon DEF FilesOver
  <2>3. DirTypeOK
    BY <1>3, <2>1, <2>2 DEF DirTypeOK
  <2>4. RepTypeOK
    <3>1. 0 \in 0..kMaxSequenceNumber
      BY RepairAssumption
    <3> QED BY <1>3, <3>1 DEF RepTypeOK, Start, States
  <2>5. lost \in FilesOver(Known, LostNames)
    <3>1. <<>> \in [{} -> FileOf(Known)]
      OBVIOUS
    <3> QED BY <1>3, <3>1 DEF FilesOver
  <2>6. \A e \in Known : e.seq \in 0..kMaxSequenceNumber
    <3>1. \A e \in began : e.seq \in W
      BY <1>3, <1>4
    <3> QED BY <3>1, RepairAssumption DEF Known
  <2> QED BY <1>3, <2>3, <2>4, <2>5, <2>6 DEF TypeOK
<1>14. Lists
  <2>1. NumbersGrow /\ CopyInPlace /\ SourceCopied /\ VersionWhole
    BY <1>12 DEF NumbersGrow, CopyInPlace, SourceCopied, Copying, VersionWhole, Running
  <2>2. LogsListed
    BY <1>9, <1>10, <1>11, <1>12 DEF LogsListed, Distinct, Running
  <2>3. TablesListed
    BY <1>12 DEF TablesListed, Distinct, Listed
  <2> QED BY <2>1, <2>2, <2>3 DEF Lists
<1>15. Covers /\ FreshNumbers
  BY <1>11, <1>12 DEF Covers, AllCovered, DamagedCovered, SourceCovered, Covered, FreshNumbers,
                      NextFresh, SomeBeyond, FirstRun, Running
<1>16. ASSUME NEW e \in began PROVE InLogs(e) \/ InTables(e)
  <2>1. PICK s \in W \ bad : e = entry(s)
    BY <1>3
  <2>2. file[s] \in used /\ e \in holding(file[s]).entries
    BY <1>8, <2>1
  <2>3. CASE file[s] \in OldLogs
    BY <1>10, <2>2, <2>3 DEF InLogs
  <2>4. CASE file[s] \in OldTables
    BY <1>10, <2>2, <2>4 DEF InTables
  <2> QED BY <1>7, <2>2, <2>3, <2>4
<1>17. NothingGone
  BY <1>16 DEF NothingGone, Present
<1>18. AllInHand
  BY <1>12, <1>16 DEF AllInHand, InHand, ToConvert, ToScan, Found, InLogs, InTables
<1> QED BY <1>13, <1>14, <1>15, <1>17, <1>18 DEF RepairInv

-----------------------------------------------------------------------------
(* What the invariant says of the promises.                                   *)
LEMMA InvIsSafe ==
  ASSUME RepairInv
  PROVE  RepairSafe
<1>1. NothingDestroyed
  <2>1. SUFFICES ASSUME Fewer, NEW e \in began
                 PROVE  e \in EntriesIn(Files(dir.logs) \cup Files(dir.tables) \cup Files(lost))
    BY DEF NothingDestroyed, Fewer
  <2>2. InLogs(e) \/ InTables(e) \/ InLost(e)
    BY <2>1 DEF RepairInv, NothingGone, Present
  <2> QED BY <2>2 DEF InLogs, InTables, InLost, EntriesIn, Files
<1>2. ASSUME rep.pc = "done" PROVE RepairKeepsEntries
  <2> DEFINE new == {dir.tables[n] : n \in dir.edit.files}
  <2>1. /\ dir.edit \in Edit /\ dir.edit.files = {t.number : t \in rep.found}
        /\ dir.edit.next = rep.next /\ \A t \in rep.found : t.max <= dir.edit.last
        /\ 1 \in dir.manifests /\ (faults = 0 => dir.manifests = {1}) /\ dir.current = 1
    BY <1>2 DEF RepairInv, Lists, VersionWhole, Fits
  <2>2. \A t \in rep.found : t.number \in DOMAIN dir.tables /\ t.max \in 0..kMaxSequenceNumber
    BY DEF RepairInv, Lists, TablesListed, TypeOK, RepTypeOK, Infos
  <2>3. \A f \in new : \E t \in rep.found : f = dir.tables[t.number]
    BY <2>1
  <2>4. \A e : e \in EntriesIn(new) <=> Found(e)
    BY <2>1 DEF EntriesIn, Found
  <2>5. dir.edit.files \subseteq DOMAIN dir.tables
    BY <2>1, <2>2
  <2>6. \A n \in DOMAIN dir.tables \cup DOMAIN dir.logs : n < dir.edit.next
    BY <1>2, <2>1 DEF RepairInv, Lists, NumbersGrow, Running
  <2>7. ASSUME NEW e \in EntriesIn(new) PROVE e \in Known
    BY <2>2, <2>4, <2>7, Types DEF Found, RepairInv
  <2>8. rep.numbers = <<>> /\ rep.copied = {} /\ rep.logs = <<>> /\ Listed(<<>>) = {}
    BY <1>2 DEF RepairInv, Lists, LogsListed, TablesListed, CopyInPlace, Listed
  <2>9. faults = 0 => DOMAIN dir.logs = {}
    BY <1>2, <2>8 DEF RepairInv, Lists, LogsListed, Running
  <2>10. faults = 0 => dir.logs = <<>>
    <3>1. DOMAIN dir.logs = {} => dir.logs \in [{} -> FileOf(Known)]
      BY Types DEF RepairInv, FilesOver
    <3> QED BY <2>9, <3>1
  <2>11. ASSUME faults = 0, NEW f \in new PROVE ~f.damaged
    BY <2>3, <2>11 DEF RepairInv, Lists, TablesListed
  <2>12. ASSUME faults = 0, NEW e \in EntriesIn(new) PROVE e.seq <= dir.edit.last
    <3>1. PICK t \in rep.found : e \in dir.tables[t.number].entries
      BY <2>4, <2>12 DEF Found
    <3>2. e.seq <= t.max /\ e.seq \in 0..kMaxSequenceNumber
      BY <2>7, <2>12, <3>1 DEF RepairInv, Lists, TablesListed, UpTo, TypeOK
    <3>3. t.max \in Nat /\ dir.edit.last \in Nat /\ t.max <= dir.edit.last
      BY <2>1, <2>2 DEF Edit
    <3> QED BY <3>2, <3>3
  <2>13. ASSUME faults = 0, crashes = 0, NEW e \in began PROVE e \in EntriesIn(new)
    <3>1. InHand(e)
      BY <2>13 DEF RepairInv, AllInHand
    <3>2. Found(e)
      BY <1>2, <2>8, <2>9, <2>13, <3>1 DEF InHand, ToConvert, ToScan
    <3> QED BY <2>4, <3>2
  <2>14. EntriesIn(new) \subseteq began \cup Garbage
    BY <2>7 DEF Known
  <2> QED BY <2>1, <2>5, <2>6, <2>10, <2>11, <2>12, <2>13, <2>14 DEF RepairKeepsEntries
<1> QED BY <1>1, <1>2 DEF RepairSafe, RepairKeepsEntries

(* Every step keeps the invariant.                                            *)
LEMMA StepKeepsInv ==
  ASSUME RepairInv, [Next]_vars
  PROVE  RepairInv'
<1>1. CASE UNCHANGED vars
  BY <1>1, StutterKeepsInv
<1>2. CASE Next
  BY <1>2, FindFilesKeepsInv, ConvertKeepsInv, ArchiveLogKeepsInv, ScanTableKeepsInv,
     ArchiveSourceKeepsInv, FinishCopyKeepsInv, RenameCopyKeepsInv, WriteTemporaryKeepsInv,
     ArchiveManifestKeepsInv, InstallManifestKeepsInv, SetCurrentKeepsInv, CrashKeepsInv DEF Next
<1> QED BY <1>1, <1>2

(* The variables have their types throughout a repair (db/repair.cc:41).      *)
THEOREM RepairTypes == Spec => []TypeOK
<1>1. Init => RepairInv
  BY InitInv
<1>2. RepairInv /\ [Next]_vars => RepairInv'
  BY StepKeepsInv
<1>3. RepairInv => TypeOK
  BY DEF RepairInv
<1> QED BY <1>1, <1>2, <1>3, PTL DEF Spec

(* A repair keeps its promises (db/repair.cc:154, 318, 348), whatever files   *)
(* it starts from, whatever they seem to hold where they are damaged,         *)
(* whichever calls fail, renames into lost/ included, and wherever it dies.   *)
THEOREM RepairIsSafe == Spec => []RepairSafe
<1>1. Init => RepairInv
  BY InitInv
<1>2. RepairInv /\ [Next]_vars => RepairInv'
  BY StepKeepsInv
<1>3. RepairInv => RepairSafe
  BY InvIsSafe
<1> QED BY <1>1, <1>2, <1>3, PTL DEF Spec

-----------------------------------------------------------------------------
(* The queue of the background thread. *)

CallStates == {"out", "locked", "started", "signalled", "pushed"}
BGStates == {"none", "enter", "waiting", "woken", "test", "run"}

SchedTypeOK ==
  /\ started_bgthread_ \in BOOLEAN
  /\ queue_ \in Seq(Nat) /\ scheduled \in Seq(Nat) /\ ran \in Seq(Nat)
  /\ call \in [Callers -> CallStates]
  /\ bg \in BGStates

(* Who is inside Schedule holds the mutex; so does BGThread when it looks  *)
(* at the queue.  The two can be one thread, that runs an item.            *)
MutexHeld ==
  /\ \A t \in Callers : call[t] # "out" => mu_ = t /\ (t = BGTHREAD => bg = "run")
  /\ bg = "test" => mu_ = BGTHREAD

(* The thread is awake while the queue has something, and from the signal  *)
(* of a caller until its item is there.                                    *)
Awake ==
  /\ started_bgthread_ <=> bg # "none"
  /\ queue_ # <<>> => bg \notin {"none", "waiting"}
  /\ \A t \in Callers :
       /\ call[t] = "started" => bg # "none"
       /\ call[t] \in {"signalled", "pushed"} => bg \notin {"none", "waiting"}

SchedInv == SchedTypeOK /\ MutexHeld /\ Awake /\ RunsInOrder

(* SchedInv holds before the first call.                                    *)
LEMMA SchedInitInv == SchedInit => SchedInv
<1> SUFFICES ASSUME SchedInit PROVE SchedInv
  OBVIOUS
<1>1. <<>> \in Seq(Nat) /\ <<>> \o <<>> = <<>>
  BY ConcatEmptySeq
<1> QED BY <1>1 DEF SchedInit, SchedInv, SchedTypeOK, MutexHeld, Awake, RunsInOrder,
                    CallStates, BGStates

(* Nobody is inside Schedule while BGThread looks at the queue. *)
LEMMA TestAlone ==
  ASSUME SchedInv, bg = "test"
  PROVE  \A t \in Callers : call[t] = "out"
  BY EnvAssumption DEF SchedInv, SchedTypeOK, MutexHeld, BGStates

(* Every step of a caller or of the background thread keeps SchedInv.       *)
LEMMA SchedStepInv ==
  ASSUME SchedInv, [SchedNext]_schedVars
  PROVE  SchedInv'
<1> USE DEF SchedInv
<1>1. ASSUME NEW t \in Callers, LockQueue(t) PROVE SchedInv'
  <2>1. bg # "test" /\ \A u \in Callers : call[u] = "out"
    BY <1>1, EnvAssumption DEF Callers, LockQueue, MutexHeld
  <2> QED BY <1>1, <2>1 DEF LockQueue, CallMoves, SchedTypeOK, MutexHeld, Awake, RunsInOrder,
                            CallStates, BGStates
<1>2. ASSUME NEW t \in Callers, StartBGThread(t) PROVE SchedInv'
  BY <1>2 DEF StartBGThread, CallMoves, SchedTypeOK, MutexHeld, Awake, RunsInOrder,
              CallStates, BGStates
<1>3. ASSUME NEW t \in Callers, Signal(t) PROVE SchedInv'
  BY <1>3 DEF Signal, Signalled, CallMoves, SchedTypeOK, MutexHeld, Awake, RunsInOrder,
              CallStates, BGStates
<1>4. ASSUME NEW t \in Callers, Push(t) PROVE SchedInv'
  <2> DEFINE item == Len(scheduled) + 1
  <2>1. item \in Nat
    BY DEF SchedTypeOK
  <2>2. (ran \o Append(queue_, item)) = Append(ran \o queue_, item)
    <3>1. Append(queue_, item) = queue_ \o <<item>> /\ <<item>> \in Seq(Nat)
      BY <2>1, AppendIsConcat DEF SchedTypeOK
    <3>2. Append(ran \o queue_, item) = (ran \o queue_) \o <<item>>
      BY <2>1, AppendIsConcat, ConcatProperties DEF SchedTypeOK
    <3>3. (ran \o queue_) \o <<item>> = ran \o (queue_ \o <<item>>)
      BY <3>1, ConcatAssociative DEF SchedTypeOK
    <3> QED BY <3>1, <3>2, <3>3
  <2>3. RunsInOrder'
    BY <1>4, <2>2 DEF Push, RunsInOrder
  <2>4. SchedTypeOK' /\ queue_' # <<>>
    <3>1. /\ Append(queue_, item) \in Seq(Nat) /\ Append(queue_, item) # <<>>
          /\ Append(scheduled, item) \in Seq(Nat)
      BY <2>1, AppendProperties DEF SchedTypeOK
    <3> QED BY <1>4, <3>1 DEF Push, CallMoves, SchedTypeOK, CallStates
  <2>5. MutexHeld' /\ Awake'
    BY <1>4, <2>4 DEF Push, CallMoves, SchedTypeOK, MutexHeld, Awake, CallStates
  <2> QED BY <2>3, <2>4, <2>5
<1>5. ASSUME NEW t \in Callers, UnlockQueue(t) PROVE SchedInv'
  BY <1>5 DEF UnlockQueue, CallMoves, SchedTypeOK, MutexHeld, Awake, RunsInOrder,
              CallStates, BGStates
<1>6. CASE BGLock
  <2>1. \A t \in Callers : call[t] = "out"
    BY <1>6, EnvAssumption DEF BGLock, MutexHeld, SchedTypeOK
  <2> QED BY <1>6, <2>1 DEF BGLock, SchedTypeOK, MutexHeld, Awake, RunsInOrder, BGStates
<1>7. CASE Wait
  <2>1. \A t \in Callers : call[t] = "out"
    BY <1>7, TestAlone DEF Wait
  <2> QED BY <1>7, <2>1 DEF Wait, SchedTypeOK, MutexHeld, Awake, RunsInOrder, BGStates
<1>8. CASE SpuriousWakeup
  BY <1>8 DEF SpuriousWakeup, SchedTypeOK, MutexHeld, Awake, RunsInOrder, BGStates
<1>9. CASE Pop
  <2>1. \A t \in Callers : call[t] = "out"
    BY <1>9, TestAlone DEF Pop
  <2>2. Append(ran, Head(queue_)) \in Seq(Nat) /\ Tail(queue_) \in Seq(Nat)
    BY <1>9, HeadTailProperties, AppendProperties DEF Pop, SchedTypeOK
  <2>3. Append(ran, Head(queue_)) \o Tail(queue_) = ran \o queue_
    <3>1. Head(queue_) \in Nat /\ queue_ = <<Head(queue_)>> \o Tail(queue_)
      BY <1>9, HeadTailProperties DEF Pop, SchedTypeOK
    <3>2. Append(ran, Head(queue_)) = ran \o <<Head(queue_)>> /\ <<Head(queue_)>> \in Seq(Nat)
      BY <3>1, AppendIsConcat DEF SchedTypeOK
    <3>3. (ran \o <<Head(queue_)>>) \o Tail(queue_) = ran \o (<<Head(queue_)>> \o Tail(queue_))
      BY <2>2, <3>2, ConcatAssociative DEF SchedTypeOK
    <3> QED BY <3>1, <3>2, <3>3
  <2> QED BY <1>9, <2>1, <2>2, <2>3
          DEF Pop, SchedTypeOK, MutexHeld, Awake, RunsInOrder, BGStates
<1>10. CASE Return
  BY <1>10 DEF Return, SchedTypeOK, MutexHeld, Awake, RunsInOrder, BGStates
<1>11. CASE UNCHANGED schedVars
  BY <1>11 DEF schedVars, SchedTypeOK, MutexHeld, Awake, RunsInOrder
<1> QED
  BY <1>1, <1>2, <1>3, <1>4, <1>5, <1>6, <1>7, <1>8, <1>9, <1>10, <1>11 DEF SchedNext

(* No item is left lying in the queue, and items run in the order of the   *)
(* calls, whoever schedules how many (util/env_posix.cc:610-650).          *)
THEOREM WorkRuns ==
  SchedSpec => [](NoItemStranded /\ RunsInOrder)
<1>1. SchedInit => SchedInv
  BY SchedInitInv
<1>2. SchedInv /\ [SchedNext]_schedVars => SchedInv'
  BY SchedStepInv
<1>3. SchedInv => NoItemStranded /\ RunsInOrder
  BY DEF SchedInv, Awake, NoItemStranded
<1> QED BY <1>1, <1>2, <1>3, PTL DEF SchedSpec

-----------------------------------------------------------------------------
(* The limits on open files. *)

ReaderStates == {"out", "peek_mmap", "take_mmap", "map", "release_mmap",
                 "peek_fd", "take_fd", "keep", "reopen", "release_fd"}

ReadableTypeOK ==
  /\ at \in [Readers -> ReaderStates]
  /\ mapped \in Nat /\ kept \in Nat /\ reopened \in Nat
  /\ allowed \in [{"mmap", "fd"} -> Nat]

(* The threads that have a unit of a limit in hand: it is for an object    *)
(* they are about to make, or of one they have just destroyed.             *)
Taken(states) == {t \in Readers : at[t] \in states}
MmapsInHand == Cardinality(Taken({"map", "release_mmap"}))
FdsInHand == Cardinality(Taken({"keep", "release_fd"}))

(* Every unit is to be had, in hand, or an object's. *)
UnitsAccounted ==
  /\ allowed["mmap"] + mapped + MmapsInHand = MaxMmaps
  /\ allowed["fd"] + kept + FdsInHand = MaxOpenFiles

ReadableInv == ReadableTypeOK /\ UnitsAccounted

(* The threads with a unit in hand can be counted.                          *)
LEMMA InHandFinite ==
  ASSUME NEW states
  PROVE  IsFiniteSet(Taken(states)) /\ Cardinality(Taken(states)) \in Nat
  BY FS_Subset, FS_CardinalityType, EnvAssumption DEF Taken

(* One thread moves: the threads in the states gain it, lose it, or are    *)
(* the same.                                                               *)
LEMMA InHandMoves ==
  ASSUME ReadableTypeOK, NEW states, NEW t \in Readers, NEW here, NEW there,
         Goes(t, here, there)
  PROVE  Cardinality(Taken(states)') =
           Cardinality(Taken(states))
             + (IF there \in states THEN 1 ELSE 0) - (IF here \in states THEN 1 ELSE 0)
<1>1. \A u \in Readers : at'[u] = IF u = t THEN there ELSE at[u]
  BY DEF Goes, ReadableTypeOK
<1>2. at[t] = here
  BY DEF Goes
<1>3. IsFiniteSet(Taken(states)) /\ Cardinality(Taken(states)) \in Nat
  BY InHandFinite
<1>4. CASE there \in states /\ here \in states
  <2>1. Taken(states)' = Taken(states)
    BY <1>1, <1>2, <1>4 DEF Taken
  <2> QED BY <1>3, <1>4, <2>1
<1>5. CASE there \in states /\ here \notin states
  <2>1. Taken(states)' = Taken(states) \cup {t} /\ t \notin Taken(states)
    BY <1>1, <1>2, <1>5 DEF Taken
  <2> QED BY <1>3, <1>5, <2>1, FS_AddElement
<1>6. CASE there \notin states /\ here \in states
  <2>1. Taken(states)' = Taken(states) \ {t} /\ t \in Taken(states)
    BY <1>1, <1>2, <1>6 DEF Taken
  <2>2. Cardinality(Taken(states) \ {t}) = Cardinality(Taken(states)) - 1
    BY <1>3, <2>1, FS_RemoveElement
  <2> QED BY <1>3, <1>6, <2>1, <2>2
<1>7. CASE there \notin states /\ here \notin states
  <2>1. Taken(states)' = Taken(states)
    BY <1>1, <1>2, <1>7 DEF Taken
  <2> QED BY <1>3, <1>7, <2>1
<1> QED BY <1>4, <1>5, <1>6, <1>7

(* ReadableInv holds when nothing is open.                                  *)
LEMMA ReadableInitInv == ReadableInit => ReadableInv
<1> SUFFICES ASSUME ReadableInit PROVE ReadableInv
  OBVIOUS
<1>1. Taken({"map", "release_mmap"}) = {} /\ Taken({"keep", "release_fd"}) = {}
  BY DEF ReadableInit, Taken
<1>2. MmapsInHand = 0 /\ FdsInHand = 0
  BY <1>1, FS_EmptySet DEF MmapsInHand, FdsInHand
<1> QED BY <1>2, EnvAssumption DEF ReadableInit, ReadableInv, ReadableTypeOK,
                    ReaderStates, UnitsAccounted, Limit

(* A thread that moves on takes its unit into or out of the count.          *)
LEMMA UnitsMove ==
  ASSUME ReadableTypeOK, NEW t \in Readers, NEW here, NEW there,
         Goes(t, here, there)
  PROVE  /\ MmapsInHand' = MmapsInHand + (IF there \in {"map", "release_mmap"} THEN 1 ELSE 0)
                             - (IF here \in {"map", "release_mmap"} THEN 1 ELSE 0)
         /\ FdsInHand' = FdsInHand + (IF there \in {"keep", "release_fd"} THEN 1 ELSE 0)
                           - (IF here \in {"keep", "release_fd"} THEN 1 ELSE 0)
  BY InHandMoves DEF MmapsInHand, FdsInHand

(* Every step on an open file keeps ReadableInv.                            *)
LEMMA ReadableStepInv ==
  ASSUME ReadableInv, [ReadableNext]_readableVars
  PROVE  ReadableInv'
<1> USE DEF ReadableInv
<1>a. MmapsInHand \in Nat /\ FdsInHand \in Nat
  BY InHandFinite DEF MmapsInHand, FdsInHand
<1>b. MaxMmaps \in Nat /\ MaxOpenFiles \in Nat
  BY EnvAssumption
<1>1. ASSUME NEW t \in Readers, OpenFile(t) PROVE ReadableInv'
  <2>1. MmapsInHand' = MmapsInHand /\ FdsInHand' = FdsInHand
    BY <1>1, <1>a, UnitsMove DEF OpenFile
  <2>2. ReadableTypeOK'
    BY <1>1 DEF OpenFile, Goes, ObjectsSame, ReadableTypeOK, ReaderStates
  <2>3. UnitsAccounted'
    BY <1>1, <1>a, <1>b, <2>1 DEF OpenFile, ObjectsSame, ReadableTypeOK, UnitsAccounted
  <2> QED BY <2>2, <2>3
<1>2. ASSUME NEW t \in Readers, PeekMmap(t) PROVE ReadableInv'
  <2>1. MmapsInHand' = MmapsInHand /\ FdsInHand' = FdsInHand
    BY <1>2, <1>a, UnitsMove DEF PeekMmap, Peek
  <2>2. ReadableTypeOK'
    BY <1>2 DEF PeekMmap, Peek, Goes, ObjectsSame, ReadableTypeOK, ReaderStates
  <2>3. UnitsAccounted'
    BY <1>2, <1>a, <1>b, <2>1 DEF PeekMmap, Peek, ObjectsSame, ReadableTypeOK, UnitsAccounted
  <2> QED BY <2>2, <2>3
<1>3. ASSUME NEW t \in Readers, TakeMmap(t) PROVE ReadableInv'
  <2>1. /\ MmapsInHand' = MmapsInHand + (IF allowed["mmap"] <= 0 THEN 0 ELSE 1)
        /\ FdsInHand' = FdsInHand
    BY <1>3, <1>a, UnitsMove DEF TakeMmap, Take
  <2>2. allowed' = [allowed EXCEPT !["mmap"] = IF @ <= 0 THEN @ ELSE @ - 1]
    BY <1>3 DEF TakeMmap, Take
  <2>3. ReadableTypeOK'
    BY <1>3, <2>2 DEF TakeMmap, Take, Goes, ObjectsSame, ReadableTypeOK, ReaderStates
  <2>4. UnitsAccounted'
    BY <1>3, <1>a, <1>b, <2>1, <2>2 DEF TakeMmap, Take, ObjectsSame, ReadableTypeOK, UnitsAccounted
  <2> QED BY <2>3, <2>4
<1>4. ASSUME NEW t \in Readers, Goes(t, "map", "out"), mapped' = mapped + 1,
             UNCHANGED <<allowed, kept, reopened>>
      PROVE  ReadableInv'
  <2>1. MmapsInHand' = MmapsInHand - 1 /\ FdsInHand' = FdsInHand
    BY <1>4, <1>a, UnitsMove
  <2>2. ReadableTypeOK'
    BY <1>4 DEF Goes, ReadableTypeOK, ReaderStates
  <2>3. UnitsAccounted'
    BY <1>4, <1>a, <1>b, <2>1 DEF ReadableTypeOK, UnitsAccounted
  <2> QED BY <2>2, <2>3
<1>5. ASSUME NEW t \in Readers, Goes(t, "map", "release_mmap"), UNCHANGED mapped,
             UNCHANGED <<allowed, kept, reopened>>
      PROVE  ReadableInv'
  <2>1. MmapsInHand' = MmapsInHand /\ FdsInHand' = FdsInHand
    BY <1>5, <1>a, UnitsMove
  <2>2. ReadableTypeOK'
    BY <1>5 DEF Goes, ReadableTypeOK, ReaderStates
  <2>3. UnitsAccounted'
    BY <1>5, <1>a, <1>b, <2>1 DEF ReadableTypeOK, UnitsAccounted
  <2> QED BY <2>2, <2>3
<1>6. ASSUME NEW t \in Readers, PeekFd(t) PROVE ReadableInv'
  <2>1. MmapsInHand' = MmapsInHand /\ FdsInHand' = FdsInHand
    BY <1>6, <1>a, UnitsMove DEF PeekFd, Peek
  <2>2. ReadableTypeOK'
    BY <1>6 DEF PeekFd, Peek, Goes, ObjectsSame, ReadableTypeOK, ReaderStates
  <2>3. UnitsAccounted'
    BY <1>6, <1>a, <1>b, <2>1 DEF PeekFd, Peek, ObjectsSame, ReadableTypeOK, UnitsAccounted
  <2> QED BY <2>2, <2>3
<1>7. ASSUME NEW t \in Readers, TakeFd(t) PROVE ReadableInv'
  <2>1. /\ FdsInHand' = FdsInHand + (IF allowed["fd"] <= 0 THEN 0 ELSE 1)
        /\ MmapsInHand' = MmapsInHand
    BY <1>7, <1>a, UnitsMove DEF TakeFd, Take
  <2>2. allowed' = [allowed EXCEPT !["fd"] = IF @ <= 0 THEN @ ELSE @ - 1]
    BY <1>7 DEF TakeFd, Take
  <2>3. ReadableTypeOK'
    BY <1>7, <2>2 DEF TakeFd, Take, Goes, ObjectsSame, ReadableTypeOK, ReaderStates
  <2>4. UnitsAccounted'
    BY <1>7, <1>a, <1>b, <2>1, <2>2 DEF TakeFd, Take, ObjectsSame, ReadableTypeOK, UnitsAccounted
  <2> QED BY <2>3, <2>4
<1>8. ASSUME NEW t \in Readers, Keep(t) PROVE ReadableInv'
  <2>1. MmapsInHand' = MmapsInHand /\ FdsInHand' = FdsInHand - 1
    BY <1>8, <1>a, UnitsMove DEF Keep
  <2>2. ReadableTypeOK'
    BY <1>8 DEF Keep, Goes, ObjectsSame, ReadableTypeOK, ReaderStates
  <2>3. UnitsAccounted'
    BY <1>8, <1>a, <1>b, <2>1 DEF Keep, ObjectsSame, ReadableTypeOK, UnitsAccounted
  <2> QED BY <2>2, <2>3
<1>9. ASSUME NEW t \in Readers, Reopen(t) PROVE ReadableInv'
  <2>1. MmapsInHand' = MmapsInHand /\ FdsInHand' = FdsInHand
    BY <1>9, <1>a, UnitsMove DEF Reopen
  <2>2. ReadableTypeOK'
    BY <1>9 DEF Reopen, Goes, ObjectsSame, ReadableTypeOK, ReaderStates
  <2>3. UnitsAccounted'
    BY <1>9, <1>a, <1>b, <2>1 DEF Reopen, ObjectsSame, ReadableTypeOK, UnitsAccounted
  <2> QED BY <2>2, <2>3
<1>10. ASSUME NEW t \in Readers, Unmap(t) PROVE ReadableInv'
  <2>1. MmapsInHand' = MmapsInHand + 1 /\ FdsInHand' = FdsInHand
    BY <1>10, <1>a, UnitsMove DEF Unmap
  <2>2. ReadableTypeOK'
    BY <1>10 DEF Unmap, Goes, ObjectsSame, ReadableTypeOK, ReaderStates
  <2>3. UnitsAccounted'
    BY <1>10, <1>a, <1>b, <2>1 DEF Unmap, ObjectsSame, ReadableTypeOK, UnitsAccounted
  <2> QED BY <2>2, <2>3
<1>11. ASSUME NEW t \in Readers, CloseKept(t) PROVE ReadableInv'
  <2>1. MmapsInHand' = MmapsInHand /\ FdsInHand' = FdsInHand + 1
    BY <1>11, <1>a, UnitsMove DEF CloseKept
  <2>2. ReadableTypeOK'
    BY <1>11 DEF CloseKept, Goes, ObjectsSame, ReadableTypeOK, ReaderStates
  <2>3. UnitsAccounted'
    BY <1>11, <1>a, <1>b, <2>1 DEF CloseKept, ObjectsSame, ReadableTypeOK, UnitsAccounted
  <2> QED BY <2>2, <2>3
<1>12. ASSUME NEW t \in Readers, CloseReopened(t) PROVE ReadableInv'
  BY <1>12 DEF CloseReopened, ReadableTypeOK, UnitsAccounted, MmapsInHand, FdsInHand, Taken
<1>13. ASSUME NEW t \in Readers, ReleaseMmap(t) PROVE ReadableInv'
  <2>1. MmapsInHand' = MmapsInHand - 1 /\ FdsInHand' = FdsInHand
    BY <1>13, <1>a, UnitsMove DEF ReleaseMmap, Release
  <2>2. ReadableTypeOK'
    BY <1>13 DEF ReleaseMmap, Release, Goes, ObjectsSame, ReadableTypeOK, ReaderStates
  <2>3. /\ allowed' = [allowed EXCEPT !["mmap"] = @ + 1]
        /\ UNCHANGED <<mapped, kept>>
    BY <1>13 DEF ReleaseMmap, Release, ObjectsSame
  <2>4. UnitsAccounted'
    BY <1>a, <1>b, <2>1, <2>3 DEF ReadableTypeOK, UnitsAccounted
  <2> QED BY <2>2, <2>4
<1>14. ASSUME NEW t \in Readers, ReleaseFd(t) PROVE ReadableInv'
  <2>1. MmapsInHand' = MmapsInHand /\ FdsInHand' = FdsInHand - 1
    BY <1>14, <1>a, UnitsMove DEF ReleaseFd, Release
  <2>2. ReadableTypeOK'
    BY <1>14 DEF ReleaseFd, Release, Goes, ObjectsSame, ReadableTypeOK, ReaderStates
  <2>3. /\ allowed' = [allowed EXCEPT !["fd"] = @ + 1]
        /\ UNCHANGED <<mapped, kept>>
    BY <1>14 DEF ReleaseFd, Release, ObjectsSame
  <2>4. UnitsAccounted'
    BY <1>a, <1>b, <2>1, <2>3 DEF ReadableTypeOK, UnitsAccounted
  <2> QED BY <2>2, <2>4
<1>15. CASE UNCHANGED readableVars
  BY <1>15 DEF readableVars, ReadableTypeOK, UnitsAccounted, MmapsInHand, FdsInHand, Taken
<1> QED
  BY <1>1, <1>2, <1>3, <1>4, <1>5, <1>6, <1>7, <1>8, <1>9, <1>10, <1>11, <1>12, <1>13, <1>14,
     <1>15
     DEF ReadableNext, Map

(* Accounted units respect the limits.                                      *)
LEMMA UnitsRespectLimits == ASSUME ReadableInv PROVE LimitsRespected
<1> USE DEF ReadableInv
<1>1. MmapsInHand \in Nat /\ FdsInHand \in Nat
  BY InHandFinite DEF MmapsInHand, FdsInHand
<1>2. mapped <= MaxMmaps /\ kept <= MaxOpenFiles
  BY <1>1, EnvAssumption DEF ReadableTypeOK, UnitsAccounted
<1>3. ASSUME \A t \in Readers : at[t] = "out"
      PROVE  allowed = [mmap |-> MaxMmaps - mapped, fd |-> MaxOpenFiles - kept]
  <2>1. Taken({"map", "release_mmap"}) = {} /\ Taken({"keep", "release_fd"}) = {}
    BY <1>3 DEF Taken
  <2>2. MmapsInHand = 0 /\ FdsInHand = 0
    BY <2>1, FS_EmptySet DEF MmapsInHand, FdsInHand
  <2>3. allowed["mmap"] = MaxMmaps - mapped /\ allowed["fd"] = MaxOpenFiles - kept
    BY <2>2, EnvAssumption DEF ReadableTypeOK, UnitsAccounted
  <2> QED BY <2>3 DEF ReadableTypeOK
<1> QED BY <1>2, <1>3 DEF LimitsRespected

(* However many threads open and delete files, the limits on mapped files  *)
(* and open descriptors hold and no unit of them leaks                     *)
(* (util/env_posix.cc:54-73, 134-149, 347-373).                            *)
THEOREM LimitsHold ==
  ReadableSpec => []LimitsRespected
<1>1. ReadableInit => ReadableInv
  BY ReadableInitInv
<1>2. ReadableInv /\ [ReadableNext]_readableVars => ReadableInv'
  BY ReadableStepInv
<1>3. ReadableInv => LimitsRespected
  BY UnitsRespectLimits
<1> QED BY <1>1, <1>2, <1>3, PTL DEF ReadableSpec

-----------------------------------------------------------------------------
(* The lock on a database. *)

LockStates == {"out", "opened", "refused", "inserted", "held", "failed", "removing",
               "unlocked", "closing"}
(* Where a thread has the entry of its process in the lock table. *)
Owning == {"inserted", "held", "failed", "removing", "unlocked"}

LockInv ==
  /\ table \in [Processes -> BOOLEAN]
  /\ step \in [Lockers -> LockStates]
  /\ \A t \in Lockers : step[t] \in Owning => table[Process(t)]
  /\ \A t, u \in Lockers :
       t # u /\ Process(t) = Process(u) => step[t] \notin Owning \/ step[u] \notin Owning

(* Every step on the lock table keeps LockInv.                              *)
LEMMA LockStepInv ==
  ASSUME LockInv, [LockNext]_lockVars
  PROVE  LockInv'
<1>0. \A t \in Lockers : Process(t) \in Processes
  BY EnvAssumption
<1> USE DEF LockInv, LockStates, Owning
<1>1. ASSUME NEW t \in Lockers, OpenLockFile(t) PROVE LockInv'
  BY <1>0, <1>1 DEF OpenLockFile, Moves
<1>2. ASSUME NEW t \in Lockers, Insert(t) PROVE LockInv'
  BY <1>0, <1>2 DEF Insert, Moves
<1>3. ASSUME NEW t \in Lockers, CloseRefused(t) PROVE LockInv'
  BY <1>0, <1>3 DEF CloseRefused, Moves
<1>4. ASSUME NEW t \in Lockers, SetLock(t) PROVE LockInv'
  BY <1>0, <1>4 DEF SetLock, Moves
<1>5. ASSUME NEW t \in Lockers, CloseFailed(t) PROVE LockInv'
  BY <1>0, <1>5 DEF CloseFailed, Moves
<1>6. ASSUME NEW t \in Lockers, RemoveFailed(t) PROVE LockInv'
  BY <1>0, <1>6 DEF RemoveFailed, Remove, Moves
<1>7. ASSUME NEW t \in Lockers, UnlockHeld(t) PROVE LockInv'
  BY <1>0, <1>7 DEF UnlockHeld, Moves
<1>8. ASSUME NEW t \in Lockers, RemoveUnlocked(t) PROVE LockInv'
  BY <1>0, <1>8 DEF RemoveUnlocked, Remove, Moves
<1>9. ASSUME NEW t \in Lockers, CloseUnlocked(t) PROVE LockInv'
  BY <1>0, <1>9 DEF CloseUnlocked, Moves
<1>10. CASE UNCHANGED lockVars
  BY <1>10 DEF lockVars
<1> QED BY <1>1, <1>2, <1>3, <1>4, <1>5, <1>6, <1>7, <1>8, <1>9, <1>10 DEF LockNext

(* No two threads of a process hold the lock on a database                 *)
(* (util/env_posix.cc:308-324).                                            *)
THEOREM OneHolder ==
  LockSpec => []OneHolderPerProcess
<1>1. LockInit => LockInv
  BY DEF LockInit, LockInv, LockStates, Owning
<1>2. LockInv /\ [LockNext]_lockVars => LockInv'
  BY LockStepInv
<1>3. LockInv => OneHolderPerProcess
  BY DEF LockInv, OneHolderPerProcess, Owning
<1> QED BY <1>1, <1>2, <1>3, PTL DEF LockSpec

(* The threads that share a PosixEnv share it safely: its work runs, its   *)
(* limits hold, its locks exclude (util/env_posix.cc:54, 313, 610).        *)
THEOREM EnvIsShared ==
  SchedSpec /\ ReadableSpec /\ LockSpec => []EnvSharedSafely
<1>1. SchedSpec => [](NoItemStranded /\ RunsInOrder)
  BY WorkRuns
<1>2. ReadableSpec => []LimitsRespected
  BY LimitsHold
<1>3. LockSpec => []OneHolderPerProcess
  BY OneHolder
<1>4. NoItemStranded /\ RunsInOrder /\ LimitsRespected /\ OneHolderPerProcess => EnvSharedSafely
  BY DEF EnvSharedSafely
<1> QED BY <1>1, <1>2, <1>3, <1>4, PTL

-----------------------------------------------------------------------------
(* The memtable.  Keys of entries and of lookups, in their order.             *)
Keyed == [user : Int, seq : Nat, type : {kTypeDeletion, kTypeValue}]
NodeKeys == {k \in Keyed : k.user \in UserKeys /\ k.seq > 0}
Nodes == DOMAIN nodes.next
Levels == 0..kMaxHeight - 1

(* Every node has its number of levels; what it points to has the level too.  *)
NodesOK ==
  /\ nodes = [next |-> nodes.next, height |-> nodes.height]
  /\ nodes.height \in 1..kMaxHeight
  /\ IsFiniteSet(Nodes) /\ HeadNode \in Nodes /\ Nodes \ {HeadNode} \subseteq NodeKeys
  /\ nodes.next = [n \in Nodes |-> nodes.next[n]]
  /\ \A n \in Nodes :
       /\ \E h \in 1..kMaxHeight : DOMAIN nodes.next[n] = 0..h - 1
       /\ nodes.next[n] = [l \in DOMAIN nodes.next[n] |-> nodes.next[n][l]]
       /\ \A l \in DOMAIN nodes.next[n] :
            nodes.next[n][l] # NULL =>
              nodes.next[n][l] \in Nodes \ {HeadNode} /\ l \in DOMAIN nodes.next[nodes.next[n][l]]
  /\ DOMAIN nodes.next[HeadNode] = Levels
  /\ \A l \in nodes.height..kMaxHeight - 1 : nodes.next[HeadNode][l] = NULL
  /\ \A n \in Nodes : n.seq < Cardinality(Nodes)

(* The node at which the key belongs at a level.                              *)
IsPrev(l, n) ==
  /\ n \in OnLevel(l) /\ Follows(n, insert.key)
  /\ nodes.next[n][l] # NULL => Before(insert.key, nodes.next[n][l])

InsertRecords ==
  [pc : {"find", "grow", "link"}, key : NodeKeys, height : 0..kMaxHeight, x : Nodes,
   level : Levels, prev : [Levels -> Nodes]]

Finding ==
  /\ insert.key.seq = Cardinality(Nodes)
  /\ insert.level < nodes.height
  /\ insert.x \in OnLevel(insert.level) /\ Follows(insert.x, insert.key)
  /\ \A l \in insert.level + 1..nodes.height - 1 : IsPrev(l, insert.prev[l])
  /\ \A l \in nodes.height..kMaxHeight - 1 : insert.prev[l] = HeadNode

Linking ==
  /\ insert.level < insert.height
  /\ insert.pc = "grow" <=> insert.height > nodes.height
  /\ insert.pc = "grow" => insert.level = 0
  /\ \A l \in 0..insert.height - 1 :
       IF l < insert.level THEN insert.key \in OnLevel(l)
       ELSE IsPrev(l, insert.prev[l]) /\ insert.key \notin OnLevel(l)
  /\ IF insert.level = 0
     THEN insert.key \notin Nodes /\ insert.key.seq = Cardinality(Nodes)
     ELSE /\ insert.key \in Nodes /\ DOMAIN nodes.next[insert.key] = 0..insert.height - 1
          /\ \A l \in insert.level..insert.height - 1 : nodes.next[insert.key][l] = NULL

InsertOK ==
  \/ insert = [pc |-> "idle"]
  \/ insert \in InsertRecords /\ (IF insert.pc = "find" THEN Finding ELSE Linking)

WalkRecords ==
  [pc : {"walk", "done"}, call : {"seek", "less", "last", "next"}, key : Keyed \cup {NULL},
   x : Nodes, level : 0..nodes.height - 1, before : SUBSET LinkedNodes,
   result : LinkedNodes \cup {NULL}]

(* A walk is before its key, and at a node of its level.                      *)
Walking(c) ==
  /\ c.call # "next" /\ c.x \in OnLevel(c.level)
  /\ c.call # "last" => Follows(c.x, c.key)

(* A lookup has seen all entries up to its sequence number.                   *)
Published(c) ==
  c.call = "seek" =>
    /\ c.key.seq < Cardinality(Nodes) /\ c.key.type = kTypeValue
    /\ \A k \in LinkedNodes : k.seq <= c.key.seq => k \in c.before
    /\ c.pc = "done" /\ c.result # NULL => ~Before(c.result, c.key)

WalkOK(c) ==
  /\ c \in WalkRecords
  /\ c.call # "last" => c.key \in Keyed
  /\ c.pc = "walk" => Walking(c)
  /\ c.pc = "done" => ~\E k \in c.before : Between(k, c)
  /\ Published(c)

WalksOK ==
  /\ walk = [w \in Walkers |-> walk[w]]
  /\ \A w \in Walkers : walk[w] = IdleWalk \/ WalkOK(walk[w])

(* What is handed out lies in a block, before what is free of the current one. *)
Regions == [at : [block : Nat, offset : Nat], bytes : Nat, aligned : BOOLEAN]
Arenas ==
  [blocks : Seq(Nat), ptr : [block : Nat, offset : Nat] \cup {NULL}, remaining : Nat,
   usage : Nat, regions : Seq(Regions)]

Aligned(offset) == offset % PointerBytes = 0

RegionOK(a, r) ==
  /\ r.at.block \in 1..Len(a.blocks)
  /\ r.at.offset + r.bytes <= a.blocks[r.at.block]
  /\ a.ptr # NULL /\ r.at.block = a.ptr.block => r.at.offset + r.bytes <= a.ptr.offset
  /\ r.aligned => Aligned(r.at.offset)

Apart(q, r) ==
  q.at.block = r.at.block => \/ q.at.offset + q.bytes <= r.at.offset
                             \/ r.at.offset + r.bytes <= q.at.offset

FreeOK(a) ==
  IF a.ptr = NULL THEN a.remaining = 0
  ELSE a.ptr.block \in 1..Len(a.blocks) /\ a.ptr.offset + a.remaining = a.blocks[a.ptr.block]

ArenaOK(a) ==
  /\ a \in Arenas /\ FreeOK(a)
  /\ \A i \in 1..Len(a.regions) :
       RegionOK(a, a.regions[i]) /\ \A j \in 1..i - 1 : Apart(a.regions[j], a.regions[i])
  /\ a.usage = BlocksUsage(a.blocks)

MemInv == NodesOK /\ LevelsAreSublists /\ InsertOK /\ WalksOK /\ ArenaOK(arena)

LEMMA KeyEqual ==
  ASSUME NEW a \in Keyed, NEW b \in Keyed, a.user = b.user, a.seq = b.seq, a.type = b.type
  PROVE  a = b
BY DEF Keyed

(* Before is a strict total order of keys.                                    *)
LEMMA BeforeOrder ==
  ASSUME NEW a \in Keyed, NEW b \in Keyed
  PROVE  /\ ~Before(a, a)
         /\ Before(a, b) => ~Before(b, a)
         /\ a # b => Before(a, b) \/ Before(b, a)
<1>1. /\ a.user \in Int /\ b.user \in Int /\ a.seq \in Nat /\ b.seq \in Nat
      /\ a.type \in {0, 1} /\ b.type \in {0, 1}
  BY DEF Keyed, kTypeDeletion, kTypeValue
<1>2. Trailer(a) = a.seq * 256 + a.type /\ Trailer(b) = b.seq * 256 + b.type
  BY DEF Trailer, PackSequenceAndType
<1>3. Trailer(a) = Trailer(b) => a.seq = b.seq /\ a.type = b.type
  BY <1>1, <1>2
<1>4. Trailer(a) \in Int /\ Trailer(b) \in Int
  BY <1>1, <1>2
<1> QED BY <1>1, <1>3, <1>4, KeyEqual DEF Before

LEMMA BeforeTransitive ==
  ASSUME NEW a \in Keyed, NEW b \in Keyed, NEW c \in Keyed, Before(a, b), Before(b, c)
  PROVE  Before(a, c)
<1>1. /\ a.user \in Int /\ b.user \in Int /\ c.user \in Int
      /\ Trailer(a) \in Int /\ Trailer(b) \in Int /\ Trailer(c) \in Int
  BY DEF Keyed, kTypeDeletion, kTypeValue, Trailer, PackSequenceAndType
<1> QED BY <1>1 DEF Before

LEMMA HeadIsKeyed == HeadNode \in Keyed /\ HeadNode # NULL /\ HeadNode \notin NodeKeys
BY MemAssumption DEF HeadNode, InternalKey, Keyed, NodeKeys, kTypeDeletion, kTypeValue

LEMMA NodeKeysAreKeyed == NodeKeys \subseteq Keyed /\ NULL \notin Keyed
BY MemAssumption DEF Keyed, NodeKeys

LEMMA FollowsBefore ==
  ASSUME NEW n \in Keyed, NEW k \in NodeKeys, NEW m \in NodeKeys, Follows(n, k), Before(k, m)
  PROVE  Follows(n, m)
BY BeforeTransitive, HeadIsKeyed, NodeKeysAreKeyed DEF Follows

(* Which nodes are on a level.                                                *)
LEMMA LevelNodes ==
  ASSUME NodesOK, NEW l \in Levels
  PROVE  /\ HeadNode \in OnLevel(l) /\ NULL \notin OnLevel(l)
         /\ OnLevel(l) \subseteq Nodes /\ OnLevel(l) \subseteq Keyed
         /\ OnLevel(l) \ {HeadNode} \subseteq NodeKeys
         /\ \A n \in OnLevel(l) : /\ l \in DOMAIN nodes.next[n]
                                  /\ nodes.next[n][l] # NULL =>
                                       nodes.next[n][l] \in OnLevel(l) \ {HeadNode}
<1>1. HeadNode \in OnLevel(l) /\ NULL \notin OnLevel(l)
  BY HeadIsKeyed DEF OnLevel
<1>2. \A k \in OnLevel(l) \ {HeadNode} : k \in Nodes \ {HeadNode} /\ l \in DOMAIN nodes.next[k]
  BY DEF OnLevel, NodesOK, Nodes
<1>3. HeadNode \in Nodes /\ l \in DOMAIN nodes.next[HeadNode]
  BY DEF NodesOK, Levels
<1>4. \A n \in OnLevel(l) : /\ l \in DOMAIN nodes.next[n]
                            /\ nodes.next[n][l] # NULL =>
                                 nodes.next[n][l] \in OnLevel(l) \ {HeadNode}
  BY <1>2, <1>3 DEF OnLevel, NodesOK, Nodes
<1>5. OnLevel(l) \ {HeadNode} \subseteq NodeKeys
  BY <1>2 DEF NodesOK
<1> QED BY <1>1, <1>2, <1>3, <1>4, <1>5, HeadIsKeyed, NodeKeysAreKeyed

LEMMA LinkedAreOnLevel ==
  ASSUME NodesOK
  PROVE  /\ 0 \in Levels /\ LinkedNodes \subseteq NodeKeys /\ LinkedNodes \subseteq Nodes \ {HeadNode}
         /\ OnLevel(0) = LinkedNodes \cup {HeadNode}
<1>1. 0 \in Levels
  BY MemAssumption DEF Levels
<1> QED BY <1>1, LevelNodes DEF LinkedNodes

-----------------------------------------------------------------------------
(* Readers.                                                                   *)
LEMMA OneWalkChanges ==
  ASSUME WalksOK, NEW w \in Walkers, NEW e, walk' = [walk EXCEPT ![w] = e], nodes' = nodes,
         e = IdleWalk \/ WalkOK(e)
  PROVE  WalksOK'
<1>1. walk' = [v \in Walkers |-> IF v = w THEN e ELSE walk[v]]
  BY DEF WalksOK
<1>2. ASSUME NEW c PROVE WalkOK(c) => WalkOK(c)'
  BY DEF WalkOK, WalkRecords, Walking, Published, Nodes, LinkedNodes, OnLevel
<1>4. ASSUME NEW v \in Walkers PROVE (walk[v] = IdleWalk \/ WalkOK(walk[v]))'
  <2>1. PICK c : c = walk'[v]
    OBVIOUS
  <2>2. c = IdleWalk \/ WalkOK(c)
    BY <1>1, <2>1 DEF WalksOK
  <2>3. c = IdleWalk \/ WalkOK(c)'
    BY <1>2, <2>2
  <2> QED BY <2>1, <2>3 DEF WalkOK, WalkRecords, Walking, Published, Nodes, LinkedNodes, OnLevel, IdleWalk
<1>5. walk' = [v \in Walkers |-> walk'[v]]
  BY <1>1
<1> QED BY <1>4, <1>5 DEF WalksOK, IdleWalk

LEMMA BeginStep ==
  ASSUME NodesOK, WalksOK, NEW w \in Walkers, NEW key, NEW kind \in {"seek", "less", "last"},
         Begin(w, kind, key), kind # "last" => key \in Keyed, key \in Keyed \cup {NULL},
         kind = "seek" => key.seq <= Cardinality(LinkedNodes) /\ key.type = kTypeValue,
         kind = "less" => key # HeadNode
  PROVE  WalksOK'
<1> DEFINE e == [pc |-> "walk", call |-> kind, key |-> key, x |-> HeadNode,
                 level |-> nodes.height - 1, before |-> LinkedNodes, result |-> NULL]
<1>1. walk' = [walk EXCEPT ![w] = e] /\ nodes' = nodes
  BY DEF Begin
<1>2. e \in WalkRecords
  BY HeadIsKeyed, MemAssumption DEF NodesOK, WalkRecords
<1>3. Walking(e)
  <2>1. nodes.height - 1 \in Levels
    BY MemAssumption DEF NodesOK, Levels
  <2>2. HeadNode \in OnLevel(nodes.height - 1)
    BY <2>1, LevelNodes
  <2>3. kind = "seek" => key # HeadNode
    BY DEF HeadNode, InternalKey, kTypeValue, kTypeDeletion
  <2> QED BY <2>2, <2>3 DEF Walking, Follows
<1>4. Published(e)
  <2>1. kind = "seek" => key.seq < Cardinality(Nodes)
    <3>1. LinkedNodes \subseteq Nodes \ {HeadNode} /\ IsFiniteSet(Nodes) /\ HeadNode \in Nodes
      BY LinkedAreOnLevel DEF NodesOK
    <3>2. /\ IsFiniteSet(Nodes \ {HeadNode})
          /\ Cardinality(Nodes \ {HeadNode}) = Cardinality(Nodes) - 1
      BY <3>1, FS_RemoveElement
    <3>3. Cardinality(LinkedNodes) <= Cardinality(Nodes \ {HeadNode}) /\ IsFiniteSet(LinkedNodes)
      BY <3>1, <3>2, FS_Subset
    <3>4. Cardinality(LinkedNodes) \in Nat /\ Cardinality(Nodes) \in Nat
      BY <3>1, <3>3, FS_CardinalityType
    <3> QED BY <3>2, <3>3, <3>4 DEF Keyed
  <2> QED BY <2>1 DEF Published
<1>5. WalkOK(e)
  BY <1>2, <1>3, <1>4 DEF WalkOK
<1> HIDE DEF e
<1> QED BY <1>1, <1>5, OneWalkChanges

LEMMA WalkStepStep ==
  ASSUME NodesOK, LevelsAreSublists, WalksOK, NEW w \in Walkers, WalkStep(w)
  PROVE  WalksOK'
<1> DEFINE c == walk[w]
           next == nodes.next[c.x][c.level]
<1>1. c.pc = "walk" /\ WalkOK(c) /\ c \in WalkRecords /\ Walking(c) /\ Published(c)
  BY DEF WalkStep, WalksOK, WalkOK, IdleWalk
<1>2. /\ c.level \in Levels /\ c.level \in Int /\ c.x \in OnLevel(c.level)
      /\ c.call \in {"seek", "less", "last"}
      /\ c.call # "last" => c.key \in Keyed /\ Follows(c.x, c.key)
  BY <1>1, MemAssumption DEF WalkRecords, Walking, Levels, NodesOK, WalkOK
<1>3. /\ c.x \in Keyed /\ c.x \in Nodes
      /\ next # NULL => next \in OnLevel(c.level) \ {HeadNode} /\ next \in NodeKeys /\ next \in Nodes
  BY <1>2, LevelNodes
<1>4. IsNextIn(OnLevel(c.level), c.x, next)
  BY <1>2 DEF LevelsAreSublists, Levels
<1>5. CASE GoesOn(c, next)
  <2> DEFINE e == [c EXCEPT !.x = next]
  <2>1. walk' = [walk EXCEPT ![w] = e] /\ nodes' = nodes
    BY <1>5 DEF WalkStep
  <2>2. next # NULL /\ (c.call # "last" => Before(next, c.key))
    BY <1>5 DEF GoesOn, KeyIsAfterNode
  <2>3. /\ e \in WalkRecords /\ e.pc = "walk" /\ e.call = c.call /\ e.key = c.key /\ e.x = next
        /\ e.level = c.level /\ e.before = c.before
    BY <1>1, <1>3, <2>2 DEF WalkRecords
  <2> HIDE DEF e, next, c
  <2>4. Walking(e)
    BY <1>2, <1>3, <2>2, <2>3 DEF Walking, Follows
  <2>5. Published(e)
    BY <1>1, <2>3 DEF Published
  <2>6. WalkOK(e)
    BY <1>2, <2>3, <2>4, <2>5 DEF WalkOK
  <2> QED BY <2>1, <2>6, OneWalkChanges
<1>6. CASE ~GoesOn(c, next) /\ c.level > 0
  <2> DEFINE e == [c EXCEPT !.level = @ - 1]
  <2>1. walk' = [walk EXCEPT ![w] = e] /\ nodes' = nodes
    BY <1>6 DEF WalkStep
  <2> DEFINE below == c.level - 1
  <2>a. below \in 0..nodes.height - 1
    <3>1. c.level \in 0..nodes.height - 1
      BY <1>1 DEF WalkRecords
    <3> QED BY <1>6, <3>1 DEF NodesOK
  <2>b. e = [c EXCEPT !.level = below]
    OBVIOUS
  <2> HIDE DEF below
  <2>c. /\ e \in WalkRecords /\ e.pc = "walk" /\ e.call = c.call /\ e.key = c.key /\ e.x = c.x
        /\ e.level = below /\ e.before = c.before
    BY <1>1, <2>a, <2>b DEF WalkRecords
  <2>2. /\ e \in WalkRecords /\ e.pc = "walk" /\ e.call = c.call /\ e.key = c.key /\ e.x = c.x
        /\ e.level = c.level - 1 /\ e.before = c.before
    BY <2>c DEF below
  <2>3. c.x \in OnLevel(c.level - 1)
    BY <1>2, <1>6 DEF LevelsAreSublists, Levels
  <2> HIDE DEF e, next, c
  <2>4. Walking(e)
    BY <1>2, <2>2, <2>3 DEF Walking
  <2>5. Published(e)
    BY <1>1, <2>2 DEF Published
  <2>6. WalkOK(e)
    BY <1>2, <2>2, <2>4, <2>5 DEF WalkOK
  <2> QED BY <2>1, <2>6, OneWalkChanges
<1>7. CASE ~GoesOn(c, next) /\ ~(c.level > 0)
  <2> DEFINE result == IF c.call = "seek" THEN next ELSE IF c.x = HeadNode THEN NULL ELSE c.x
             e == [c EXCEPT !.pc = "done", !.result = result]
  <2>1. walk' = [walk EXCEPT ![w] = e] /\ nodes' = nodes
    BY <1>7 DEF WalkStep
  <2>2. c.level = 0 /\ OnLevel(0) = LinkedNodes \cup {HeadNode} /\ LinkedNodes \subseteq NodeKeys
    BY <1>2, <1>7, LinkedAreOnLevel DEF Levels
  <2>3. result \in LinkedNodes \cup {NULL}
    BY <1>2, <1>3, <2>2
  <2>4. /\ e \in WalkRecords /\ e.pc = "done" /\ e.call = c.call /\ e.key = c.key /\ e.x = c.x
        /\ e.result = result /\ e.before = c.before
    BY <1>1, <2>3 DEF WalkRecords
  <2>5. next # NULL => c.call # "last" /\ ~Before(next, c.key)
    BY <1>7 DEF GoesOn, KeyIsAfterNode
  <2>6. c.before \subseteq LinkedNodes
    BY <1>1 DEF WalkRecords
  <2> HIDE DEF e, next, c
  <2>7. ASSUME NEW k \in c.before, Between(k, e) PROVE FALSE
    <3>1. k \in NodeKeys /\ k \in Keyed /\ k # HeadNode /\ k \in OnLevel(0)
      BY <2>2, <2>6, HeadIsKeyed, NodeKeysAreKeyed
    <3>2. ~(Follows(c.x, k) /\ (next = NULL \/ Before(k, next)))
      BY <1>4, <2>2, <3>1 DEF IsNextIn
    <3>3. CASE c.call = "seek"
      <4>1. ~Before(k, c.key) /\ (next # NULL => Before(k, next))
        BY <2>4, <2>7, <3>3 DEF Between
      <4>2. c.x = HeadNode \/ Before(c.x, k)
        <5>1. CASE c.x = HeadNode
          BY <5>1
        <5>2. CASE c.x # HeadNode
          <6>1. Before(c.x, c.key) /\ c.key \in Keyed
            BY <1>2, <3>3, <5>2 DEF Follows
          <6>2. c.key = k \/ Before(c.key, k)
            BY <3>1, <4>1, <6>1, BeforeOrder
          <6> QED BY <1>3, <3>1, <6>1, <6>2, BeforeTransitive
        <5> QED BY <5>1, <5>2
      <4> QED BY <3>1, <3>2, <4>1, <4>2 DEF Follows
    <3>4. CASE c.call = "less"
      <4>1. Before(k, c.key) /\ (result # NULL => Before(result, k))
        BY <2>4, <2>7, <3>4 DEF Between
      <4>2. Follows(c.x, k)
        BY <3>1, <3>4, <4>1, HeadIsKeyed, NodeKeysAreKeyed, <1>3 DEF Follows
      <4>3. next # NULL => Before(k, next)
        <5> SUFFICES ASSUME next # NULL PROVE Before(k, next)
          OBVIOUS
        <5>1. next \in Keyed /\ c.key \in Keyed /\ ~Before(next, c.key)
          BY <1>2, <1>3, <2>5, <3>4, NodeKeysAreKeyed
        <5>2. next = c.key \/ Before(c.key, next)
          BY <5>1, BeforeOrder
        <5> QED BY <3>1, <4>1, <5>1, <5>2, BeforeTransitive
      <4> QED BY <3>2, <4>2, <4>3
    <3>5. CASE c.call = "last"
      <4>1. result # NULL => Before(result, k)
        BY <2>4, <2>7, <3>5 DEF Between
      <4>2. Follows(c.x, k) /\ next = NULL
        BY <2>5, <3>1, <3>5, <4>1, HeadIsKeyed, NodeKeysAreKeyed, <1>3 DEF Follows
      <4> QED BY <3>2, <4>2
    <3> QED BY <1>2, <3>3, <3>4, <3>5
  <2>8. Published(e)
    BY <1>1, <2>4, <2>5 DEF Published
  <2>9. WalkOK(e)
    BY <1>2, <2>4, <2>7, <2>8 DEF WalkOK
  <2> QED BY <2>1, <2>9, OneWalkChanges
<1> QED BY <1>5, <1>6, <1>7

LEMMA NextEntryStep ==
  ASSUME NodesOK, LevelsAreSublists, WalksOK, NEW w \in Walkers, NextEntry(w)
  PROVE  WalksOK'
<1> DEFINE key == walk[w].result
           e == [pc |-> "done", call |-> "next", key |-> key, x |-> key, level |-> 0,
                 before |-> LinkedNodes, result |-> Next0(key)]
<1>1. walk' = [walk EXCEPT ![w] = e] /\ nodes' = nodes
  BY DEF NextEntry
<1>2. key \in LinkedNodes
  BY DEF NextEntry, WalksOK, WalkOK, WalkRecords, IdleWalk
<1>3. /\ key \in NodeKeys /\ key \in Nodes /\ key \in Keyed /\ key \in OnLevel(0)
      /\ 0 \in Levels /\ OnLevel(0) = LinkedNodes \cup {HeadNode} /\ LinkedNodes \subseteq NodeKeys
  BY <1>2, LinkedAreOnLevel, NodeKeysAreKeyed
<1>4. Next0(key) \in LinkedNodes \cup {NULL} /\ IsNextIn(OnLevel(0), key, Next0(key))
  <2>1. IsNextIn(OnLevel(0), key, Next0(key))
    BY <1>3 DEF LevelsAreSublists, Levels, Next0
  <2>2. Next0(key) # NULL => Next0(key) \in OnLevel(0) \ {HeadNode}
    BY <1>3, LevelNodes DEF Next0
  <2> QED BY <1>3, <2>1, <2>2
<1>5. e \in WalkRecords
  <2>1. 0 \in 0..nodes.height - 1
    BY DEF NodesOK
  <2> QED BY <1>3, <1>4, <2>1 DEF WalkRecords
<1> HIDE DEF key
<1>6. ASSUME NEW k \in LinkedNodes, Between(k, e) PROVE FALSE
  <2>1. Before(key, k) /\ (Next0(key) # NULL => Before(k, Next0(key)))
    BY <1>6 DEF Between
  <2>2. k # HeadNode /\ k \in OnLevel(0)
    BY <1>3, HeadIsKeyed
  <2> QED BY <1>4, <2>1, <2>2 DEF IsNextIn, Follows
<1>7. WalkOK(e)
  BY <1>3, <1>5, <1>6 DEF WalkOK, Published
<1> HIDE DEF e
<1> QED BY <1>1, <1>7, OneWalkChanges

LEMMA EndStep ==
  ASSUME WalksOK, NEW w \in Walkers, End(w)
  PROVE  WalksOK'
BY OneWalkChanges DEF End

-----------------------------------------------------------------------------
(* The search of the writer, before anything is linked.                       *)
LEMMA SameLinks ==
  ASSUME nodes'.next = nodes.next
  PROVE  /\ Nodes' = Nodes /\ LinkedNodes' = LinkedNodes
         /\ \A l : OnLevel(l)' = OnLevel(l)
         /\ LevelsAreSublists => LevelsAreSublists'
<1>1. Nodes' = Nodes
  BY DEF Nodes
<1>2. ASSUME NEW l PROVE OnLevel(l)' = OnLevel(l)
  BY DEF OnLevel
<1>3. LinkedNodes' = LinkedNodes
  BY DEF LinkedNodes, OnLevel
<1>4. LevelsAreSublists => LevelsAreSublists'
  BY <1>2 DEF LevelsAreSublists, IsNextIn
<1> QED BY <1>1, <1>2, <1>3, <1>4

LEMMA SameWalks ==
  ASSUME NodesOK, WalksOK, walk' = walk, nodes'.next = nodes.next,
         nodes'.height \in Nat, nodes'.height >= nodes.height
  PROVE  WalksOK'
<1>1. ASSUME NEW c, WalkOK(c) PROVE WalkOK(c)'
  <2>2. 0..nodes.height - 1 \subseteq 0..nodes'.height - 1
    BY DEF NodesOK
  <2>3. c \in WalkRecords'
    BY <1>1, <2>2, SameLinks DEF WalkOK, WalkRecords
  <2>4. Walking(c) => Walking(c)'
    BY SameLinks DEF Walking, OnLevel
  <2>5. Published(c)'
    BY <1>1, SameLinks DEF WalkOK, Published
  <2> QED BY <1>1, <2>3, <2>4, <2>5 DEF WalkOK
<1>2. ASSUME NEW v \in Walkers PROVE (walk[v] = IdleWalk \/ WalkOK(walk[v]))'
  <2>1. PICK c : c = walk[v]
    OBVIOUS
  <2>2. c = IdleWalk \/ WalkOK(c)
    BY <2>1 DEF WalksOK
  <2>3. c = IdleWalk \/ WalkOK(c)'
    BY <1>1, <2>2
  <2> QED BY <2>1, <2>3 DEF WalkOK, WalkRecords, Walking, Published, Nodes, LinkedNodes, OnLevel, IdleWalk
<1> QED BY <1>2 DEF WalksOK, IdleWalk

LEMMA SameNodes ==
  ASSUME nodes' = nodes, NodesOK, LevelsAreSublists
  PROVE  NodesOK' /\ LevelsAreSublists'
<1>1. NodesOK'
  BY DEF NodesOK, Nodes
<1> QED BY <1>1, SameLinks

LEMMA NodesAreCounted ==
  ASSUME NodesOK
  PROVE  Cardinality(Nodes) \in Nat \ {0} /\ \A k \in Nodes : k.seq < Cardinality(Nodes)
<1>1. IsFiniteSet(Nodes) /\ HeadNode \in Nodes
  BY DEF NodesOK
<1>2. Cardinality(Nodes) \in Nat /\ Cardinality(Nodes) # 0
  BY <1>1, FS_CardinalityType, FS_EmptySet
<1> QED BY <1>2 DEF NodesOK

LEMMA AddStep ==
  ASSUME NodesOK, LevelsAreSublists, NEW u \in UserKeys, NEW t \in {kTypeDeletion, kTypeValue},
         Add(u, t)
  PROVE  InsertOK'
<1> DEFINE key == InternalKey(u, NextSequence, t)
<1>1. /\ nodes' = nodes
      /\ insert' = [pc |-> "find", key |-> key, height |-> 0, x |-> HeadNode,
                    level |-> nodes.height - 1, prev |-> [l \in 0..kMaxHeight - 1 |-> HeadNode]]
  BY DEF Add
<1>2. key \in NodeKeys /\ key.seq = Cardinality(Nodes)
  BY NodesAreCounted, MemAssumption
  DEF NextSequence, Nodes, InternalKey, NodeKeys, Keyed
<1>3. nodes.height - 1 \in Levels /\ nodes.height \in Nat /\ kMaxHeight \in Nat
  BY MemAssumption DEF NodesOK, Levels
<1>4. HeadNode \in OnLevel(nodes.height - 1) /\ HeadNode \in Nodes
  BY <1>3, LevelNodes
<1>5. key # HeadNode
  BY <1>2, HeadIsKeyed
<1> HIDE DEF key
<1>6. insert' \in InsertRecords /\ InsertRecords' = InsertRecords
  BY <1>1, <1>2, <1>3, <1>4 DEF InsertRecords, Levels, Nodes
<1>7. Finding'
  <2>1. /\ insert'.key = key /\ insert'.level = nodes.height - 1 /\ insert'.x = HeadNode
        /\ insert'.prev = [l \in Levels |-> HeadNode]
    BY <1>1 DEF Levels
  <2>2. Nodes' = Nodes /\ OnLevel(nodes.height - 1)' = OnLevel(nodes.height - 1)
    BY <1>1 DEF Nodes, OnLevel
  <2>3. insert'.key.seq = Cardinality(Nodes')
    BY <1>2, <2>1, <2>2
  <2>4. insert'.level < nodes'.height
    BY <1>1, <1>3, <2>1
  <2>5. insert'.x \in OnLevel(insert.level)'
    BY <1>1, <1>4, <2>1 DEF OnLevel
  <2>6. \A l \in nodes'.height..kMaxHeight - 1 : insert'.prev[l] = HeadNode
    BY <1>1, <1>3, <2>1 DEF Levels
  <2>7. insert'.level + 1..nodes'.height - 1 = {}
    BY <1>1, <1>3, <2>1
  <2>8. Follows(insert'.x, insert'.key)
    BY <1>5, <2>1 DEF Follows
  <2> QED BY <2>3, <2>4, <2>5, <2>6, <2>7, <2>8 DEF Finding
<1> QED BY <1>1, <1>6, <1>7 DEF InsertOK

(* Where the search stops at a level, its node is the one before the key.     *)
LEMMA SearchStops ==
  ASSUME NodesOK, Finding, insert \in InsertRecords, AtPrev
  PROVE  IsPrev(insert.level, insert.x)
<1> DEFINE next == nodes.next[insert.x][insert.level]
<1>1. insert.x \in OnLevel(insert.level) /\ Follows(insert.x, insert.key)
  BY DEF Finding
<1>2. insert.level \in Levels /\ insert.key \in NodeKeys
  BY DEF InsertRecords
<1>3. ASSUME next # NULL PROVE Before(insert.key, next)
  <2>1. next \in Nodes /\ next \in Keyed
    BY <1>1, <1>2, <1>3, LevelNodes
  <2>2. ~Before(next, insert.key)
    BY <1>3 DEF AtPrev, KeyIsAfterNode
  <2>3. next # insert.key
    BY <2>1, <1>2, NodesAreCounted DEF Finding, NodeKeys, Keyed
  <2> QED BY <1>2, <2>1, <2>2, <2>3, BeforeOrder, NodeKeysAreKeyed
<1> QED BY <1>1, <1>3 DEF IsPrev

LEMMA FindNextStep ==
  ASSUME NodesOK, LevelsAreSublists, InsertOK, FindNext
  PROVE  InsertOK'
<1> DEFINE next == nodes.next[insert.x][insert.level]
<1>1. insert \in InsertRecords /\ insert.pc = "find" /\ Finding
  BY DEF InsertOK, FindNext
<1>2. nodes' = nodes /\ insert' = [insert EXCEPT !.x = next]
  BY DEF FindNext
<1>3. next # NULL /\ Before(next, insert.key)
  BY DEF FindNext, AtPrev, KeyIsAfterNode
<1>4. insert.level \in Levels /\ insert.x \in OnLevel(insert.level) /\ Follows(insert.x, insert.key)
  BY <1>1 DEF InsertRecords, Finding
<1>5. next \in Nodes /\ next \in OnLevel(insert.level)
  BY <1>3, <1>4, LevelNodes
<1> HIDE DEF next
<1>6. /\ insert' \in InsertRecords /\ insert'.pc = "find" /\ insert'.key = insert.key
      /\ insert'.x = next /\ insert'.level = insert.level /\ insert'.prev = insert.prev
  BY <1>1, <1>2, <1>5 DEF InsertRecords
<1>7. InsertRecords' = InsertRecords
  BY <1>2 DEF InsertRecords, Nodes, Levels
<1>8. Finding'
  BY <1>1, <1>2, <1>3, <1>4, <1>5, <1>6 DEF Finding, Nodes, OnLevel, IsPrev, Follows
<1> QED BY <1>6, <1>7, <1>8 DEF InsertOK

LEMMA FindBelowStep ==
  ASSUME NodesOK, LevelsAreSublists, InsertOK, FindBelow
  PROVE  InsertOK'
<1> DEFINE below == insert.level - 1
           prev == [insert.prev EXCEPT ![insert.level] = insert.x]
<1>1. insert \in InsertRecords /\ insert.pc = "find" /\ Finding /\ AtPrev
  BY DEF InsertOK, FindBelow
<1>2. nodes' = nodes /\ insert' = [insert EXCEPT !.prev = prev, !.level = below]
  BY DEF FindBelow
<1>3. IsPrev(insert.level, insert.x)
  BY <1>1, SearchStops
<1>4. insert.level \in Levels /\ below \in Levels /\ kMaxHeight \in Nat /\ nodes.height \in 1..kMaxHeight
  BY <1>1, MemAssumption DEF InsertRecords, FindBelow, Levels, NodesOK
<1>5. insert.x \in OnLevel(below)
  BY <1>1, <1>4 DEF Finding, LevelsAreSublists, FindBelow, Levels
<1>6. prev \in [Levels -> Nodes] /\ insert.x \in Nodes /\ insert.prev \in [Levels -> Nodes]
  BY <1>1 DEF InsertRecords
<1>7. /\ insert' \in InsertRecords /\ insert'.pc = "find" /\ insert'.key = insert.key
      /\ insert'.x = insert.x /\ insert'.level = below /\ insert'.prev = prev
  <2> HIDE DEF prev, below
  <2> QED BY <1>1, <1>2, <1>4, <1>6 DEF InsertRecords
<1>8. \A l \in Levels : prev[l] = IF l = insert.level THEN insert.x ELSE insert.prev[l]
  BY <1>6
<1>9. InsertRecords' = InsertRecords
  BY <1>2 DEF InsertRecords, Nodes, Levels
<1>10. Finding'
  <2>1. below < nodes.height
    BY <1>1, <1>4 DEF Finding, Levels
  <2>2. ASSUME NEW l \in below + 1..nodes.height - 1 PROVE IsPrev(l, prev[l])
    <3>1. l \in Levels /\ (l = insert.level \/ l \in insert.level + 1..nodes.height - 1)
      BY <1>4 DEF Levels
    <3> QED BY <1>1, <1>3, <1>4, <1>8, <3>1 DEF Finding, Levels
  <2>3. ASSUME NEW l \in nodes.height..kMaxHeight - 1 PROVE prev[l] = HeadNode
    <3>1. l \in Levels /\ l # insert.level
      BY <1>1, <1>4 DEF Levels, Finding
    <3> QED BY <1>1, <1>8, <3>1 DEF Finding
  <2> HIDE DEF prev, below
  <2>4. \A l \in insert'.level + 1..nodes'.height - 1 : IsPrev(l, insert.prev[l])'
    BY <1>2, <1>7, <2>2 DEF IsPrev, OnLevel
  <2>5. insert'.x \in OnLevel(insert.level)'
    BY <1>2, <1>5, <1>7 DEF OnLevel
  <2>6. insert'.key.seq = Cardinality(Nodes)' /\ Follows(insert'.x, insert'.key)
    BY <1>1, <1>2, <1>7 DEF Finding, Nodes
  <2> QED BY <1>2, <1>7, <2>1, <2>3, <2>4, <2>5, <2>6 DEF Finding
<1> QED BY <1>7, <1>9, <1>10 DEF InsertOK

LEMMA FoundStep ==
  ASSUME NodesOK, LevelsAreSublists, InsertOK, FoundPrev
  PROVE  InsertOK'
<1>1. insert \in InsertRecords /\ insert.pc = "find" /\ Finding /\ AtPrev /\ insert.level = 0
  BY DEF InsertOK, FoundPrev
<1>2. PICK height \in RandomHeight :
        insert' = [insert EXCEPT !.pc = IF height > nodes.height THEN "grow" ELSE "link",
                                 !.height = height, !.prev[0] = insert.x]
  BY DEF FoundPrev
<1> DEFINE prev == [insert.prev EXCEPT ![0] = insert.x]
           pc == IF height > nodes.height THEN "grow" ELSE "link"
<1>3. nodes' = nodes /\ insert' = [insert EXCEPT !.pc = pc, !.height = height, !.prev = prev]
  BY <1>2 DEF FoundPrev
<1>4. IsPrev(0, insert.x) /\ 0 \in Levels
  BY <1>1, SearchStops DEF InsertRecords
<1>5. /\ height \in 1..kMaxHeight /\ kMaxHeight \in Nat /\ nodes.height \in 1..kMaxHeight
      /\ height \in 0..kMaxHeight /\ height \in Nat /\ nodes.height \in Nat
      /\ pc \in {"grow", "link"}
  BY MemAssumption DEF RandomHeight, NodesOK
<1>6. prev \in [Levels -> Nodes] /\ insert.prev \in [Levels -> Nodes]
  BY <1>1 DEF InsertRecords
<1>7. \A l \in Levels : prev[l] = IF l = 0 THEN insert.x ELSE insert.prev[l]
  BY <1>6
<1>8. pc = "grow" <=> height > nodes.height
  OBVIOUS
<1> HIDE DEF prev, pc
<1>9. /\ insert' \in InsertRecords /\ insert'.pc = pc /\ insert'.key = insert.key
      /\ insert'.height = height /\ insert'.level = 0 /\ insert'.prev = prev
  BY <1>1, <1>3, <1>5, <1>6 DEF InsertRecords
<1>10. InsertRecords' = InsertRecords
  BY <1>3 DEF InsertRecords, Nodes, Levels
<1>11. insert.key \notin Nodes /\ insert.key.seq = Cardinality(Nodes) /\ insert.key # HeadNode
  BY <1>1, NodesAreCounted, HeadIsKeyed DEF Finding, InsertRecords, NodeKeys, Keyed
<1>12. ASSUME NEW l \in 0..height - 1 PROVE IsPrev(l, prev[l]) /\ insert.key \notin OnLevel(l)
  <2>1. l \in Levels
    BY <1>5 DEF Levels
  <2>2. insert.key \notin OnLevel(l)
    BY <1>11, <2>1, LevelNodes
  <2>3. CASE l = 0
    BY <1>4, <1>7, <2>2, <2>3
  <2>4. CASE l \in 1..nodes.height - 1
    BY <1>1, <1>7, <2>1, <2>2, <2>4 DEF Finding
  <2>5. CASE l \in nodes.height..kMaxHeight - 1
    <3>1. prev[l] = HeadNode /\ nodes.next[HeadNode][l] = NULL
      BY <1>1, <1>5, <1>7, <2>1, <2>5 DEF Finding, NodesOK
    <3>2. IsPrev(l, HeadNode)
      BY <1>11, <2>1, <3>1, LevelNodes DEF IsPrev, Follows
    <3> QED BY <2>2, <3>1, <3>2
  <2> QED BY <1>5, <2>1, <2>3, <2>4, <2>5 DEF Levels
<1>13. Linking'
  <2>1. \A l \in 0..insert'.height - 1 :
          ~(l < insert'.level) /\ IsPrev(l, insert.prev[l])' /\ insert'.key \notin OnLevel(l)'
    BY <1>3, <1>9, <1>12 DEF IsPrev, OnLevel
  <2>2. insert'.level < insert'.height
    BY <1>5, <1>9
  <2>3. insert'.pc = "grow" <=> insert'.height > nodes'.height
    BY <1>3, <1>8, <1>9
  <2>4. insert'.key \notin Nodes' /\ insert'.key.seq = Cardinality(Nodes')
    BY <1>3, <1>9, <1>11 DEF Nodes
  <2> QED BY <1>9, <2>1, <2>2, <2>3, <2>4 DEF Linking
<1> QED BY <1>5, <1>9, <1>10, <1>13 DEF InsertOK

LEMMA GrowStep ==
  ASSUME NodesOK, LevelsAreSublists, InsertOK, Grow
  PROVE  NodesOK' /\ LevelsAreSublists' /\ InsertOK' /\ nodes'.next = nodes.next
         /\ nodes'.height \in Nat /\ nodes'.height >= nodes.height
<1>1. insert \in InsertRecords /\ insert.pc = "grow" /\ Linking
  BY DEF InsertOK, Grow
<1>2. /\ nodes' = [next |-> nodes.next, height |-> insert.height]
      /\ insert' = [insert EXCEPT !.pc = "link"]
  BY DEF Grow, NodesOK
<1>3. nodes'.next = nodes.next /\ nodes'.height = insert.height
  BY <1>2
<1>4. /\ insert.height \in 1..kMaxHeight /\ insert.height > nodes.height /\ insert.level = 0
      /\ nodes.height \in 1..kMaxHeight /\ kMaxHeight \in Nat
  BY <1>1, MemAssumption DEF Linking, InsertRecords, NodesOK
<1>5. NodesOK'
  <2>1. Nodes' = Nodes
    BY <1>3 DEF Nodes
  <2>2. \A l \in nodes'.height..kMaxHeight - 1 : nodes'.next[HeadNode][l] = NULL
    BY <1>3, <1>4 DEF NodesOK
  <2>3. nodes' = [next |-> nodes'.next, height |-> nodes'.height] /\ nodes'.height \in 1..kMaxHeight
    BY <1>2, <1>3, <1>4
  <2> QED BY <1>3, <2>1, <2>2, <2>3 DEF NodesOK
<1>6. LevelsAreSublists'
  BY <1>3, SameLinks
<1>7. /\ insert' \in InsertRecords /\ insert'.pc = "link" /\ insert'.key = insert.key
      /\ insert'.height = insert.height /\ insert'.level = insert.level /\ insert'.prev = insert.prev
  BY <1>1, <1>2 DEF InsertRecords
<1>8. InsertRecords' = InsertRecords
  BY <1>3 DEF InsertRecords, Nodes, Levels
<1>9. Linking'
  BY <1>1, <1>3, <1>4, <1>7 DEF Linking, Nodes, OnLevel, IsPrev
<1> QED BY <1>3, <1>4, <1>5, <1>6, <1>7, <1>8, <1>9 DEF InsertOK

-----------------------------------------------------------------------------
(* Linking the node at a level, between the nodes around it.                  *)
NodeBefore == insert.prev[insert.level]
NodeAfter == nodes.next[NodeBefore][insert.level]
AtLink == NodesOK /\ LevelsAreSublists /\ InsertOK /\ Link

LEMMA LinkPlace ==
  ASSUME AtLink
  PROVE  /\ insert \in InsertRecords /\ insert.pc = "link" /\ Linking
         /\ insert.level \in Levels /\ insert.level < nodes.height
         /\ insert.height \in 1..kMaxHeight /\ insert.level < insert.height
         /\ insert.level \in 0..insert.height - 1
         /\ insert.key \in NodeKeys /\ insert.key # HeadNode /\ insert.key # NULL
         /\ NodeBefore \in OnLevel(insert.level) /\ NodeBefore \in Nodes
         /\ Follows(NodeBefore, insert.key) /\ NodeBefore # insert.key
         /\ insert.level \in DOMAIN nodes.next[NodeBefore]
         /\ NodeAfter # NULL => Before(insert.key, NodeAfter) /\ NodeAfter \in OnLevel(insert.level) \ {HeadNode}
         /\ insert.key \notin OnLevel(insert.level)
<1>1. insert \in InsertRecords /\ insert.pc = "link" /\ Linking
  BY DEF AtLink, InsertOK, Link
<1>2. /\ insert.level \in Levels /\ insert.height \in 0..kMaxHeight /\ kMaxHeight \in Nat
      /\ nodes.height \in 1..kMaxHeight /\ insert.key \in NodeKeys
  BY <1>1, MemAssumption DEF InsertRecords, AtLink, NodesOK
<1>3. insert.level < insert.height /\ ~(insert.height > nodes.height)
  BY <1>1 DEF Linking
<1>4. insert.level \in 0..insert.height - 1 /\ ~(insert.level < insert.level)
  BY <1>2, <1>3 DEF Levels
<1>5. IsPrev(insert.level, NodeBefore) /\ insert.key \notin OnLevel(insert.level)
  BY <1>1, <1>4 DEF Linking, NodeBefore
<1>6. /\ NodeBefore \in Nodes /\ insert.level \in DOMAIN nodes.next[NodeBefore]
      /\ NodeAfter # NULL => NodeAfter \in OnLevel(insert.level) \ {HeadNode}
  BY <1>2, <1>5, LevelNodes DEF IsPrev, AtLink, NodeAfter
<1>7. insert.key # HeadNode /\ insert.key # NULL
  BY <1>2, HeadIsKeyed, NodeKeysAreKeyed
<1> QED BY <1>1, <1>2, <1>3, <1>4, <1>5, <1>6, <1>7 DEF IsPrev, NodeAfter, Levels

(* The pointers after the step: two of them are new.                          *)
LEMMA LinkedPointers ==
  ASSUME AtLink
  PROVE  LET x == insert.key
             level == insert.level
             made == WithNode(x, insert.height)
         IN  /\ nodes' = [next |-> nodes'.next, height |-> nodes.height]
             /\ DOMAIN nodes'.next = Nodes \cup {x}
             /\ nodes'.next = [n \in Nodes \cup {x} |-> nodes'.next[n]]
             /\ \A n \in Nodes \cup {x} :
                  /\ nodes'.next[n] = [i \in DOMAIN made[n] |-> nodes'.next[n][i]]
                  /\ \A i \in DOMAIN made[n] :
                       nodes'.next[n][i] = IF i = level /\ n = NodeBefore THEN x
                                           ELSE IF i = level /\ n = x THEN NodeAfter ELSE made[n][i]
             /\ \A n \in Nodes : made[n] = nodes.next[n]
             /\ x \notin Nodes => \A i \in DOMAIN made[x] : made[x][i] = NULL
             /\ DOMAIN made[x] = 0..insert.height - 1
             /\ \A i \in level..insert.height - 1 : made[x][i] = NULL
<1> DEFINE x == insert.key
           level == insert.level
           made == WithNode(x, insert.height)
           one == [made EXCEPT ![x][level] = NodeAfter]
           two == [one EXCEPT ![NodeBefore][level] = x]
<1>1. /\ level \in 0..insert.height - 1 /\ level \in Levels /\ insert.height \in 1..kMaxHeight
      /\ NodeBefore \in Nodes /\ NodeBefore # x /\ level \in DOMAIN nodes.next[NodeBefore]
  BY LinkPlace
<1>2. nodes.next = [n \in Nodes |-> nodes.next[n]]
  BY DEF AtLink, NodesOK
<1>3. ASSUME NEW n \in Nodes
      PROVE  made[n] = nodes.next[n] /\ made[n] = [i \in DOMAIN made[n] |-> made[n][i]]
  BY <1>2, <1>3 DEF WithNode, Nodes, AtLink, NodesOK
<1>4. made = [n \in Nodes \cup {x} |-> made[n]]
  <2>1. CASE x \in Nodes
    BY <1>2, <2>1 DEF WithNode, Nodes
  <2>2. CASE x \notin Nodes
    BY <2>2 DEF WithNode, Nodes
  <2> QED BY <2>1, <2>2
<1>5. /\ made[x] = [i \in 0..insert.height - 1 |-> made[x][i]]
      /\ x \notin Nodes => \A i \in 0..insert.height - 1 : made[x][i] = NULL
      /\ \A i \in level..insert.height - 1 : made[x][i] = NULL
  <2>1. CASE x \in Nodes
    <3>1. level # 0 => DOMAIN nodes.next[x] = 0..insert.height - 1
                       /\ \A i \in level..insert.height - 1 : nodes.next[x][i] = NULL
      BY LinkPlace DEF Linking
    <3>2. level # 0
      BY <2>1, LinkPlace DEF Linking
    <3> QED BY <1>3, <2>1, <3>1, <3>2
  <2>2. CASE x \notin Nodes
    <3>1. made[x] = [i \in 0..insert.height - 1 |-> NULL]
      BY <2>2 DEF WithNode, Nodes
    <3>2. \A i \in level..insert.height - 1 : i \in 0..insert.height - 1
      BY <1>1
    <3> QED BY <3>1, <3>2
  <2> QED BY <2>1, <2>2
<1>6. nodes' = [nodes EXCEPT !.next = two]
  <2>1. made[NodeBefore][level] = NodeAfter
    BY <1>1, <1>3 DEF NodeAfter
  <2>2. nodes' = [nodes EXCEPT !.next = [made EXCEPT ![x][level] = made[NodeBefore][level],
                                                     ![NodeBefore][level] = x]]
    BY DEF AtLink, Link, NodeBefore
  <2> HIDE DEF made
  <2> QED BY <2>1, <2>2
<1>7. nodes' = [next |-> two, height |-> nodes.height]
  <2>1. nodes = [next |-> nodes.next, height |-> nodes.height]
    BY DEF AtLink, NodesOK
  <2> HIDE DEF two
  <2> QED BY <1>6, <2>1
<1> HIDE DEF made
<1>8. one = [n \in Nodes \cup {x} |-> IF n = x THEN [made[x] EXCEPT ![level] = NodeAfter] ELSE made[n]]
  BY <1>4
<1>9. two = [n \in Nodes \cup {x} |-> IF n = NodeBefore THEN [one[n] EXCEPT ![level] = x] ELSE one[n]]
  BY <1>1, <1>8
<1>10. two = [n \in Nodes \cup {x} |->
                IF n = NodeBefore THEN [made[n] EXCEPT ![level] = x]
                ELSE IF n = x THEN [made[n] EXCEPT ![level] = NodeAfter] ELSE made[n]]
  BY <1>1, <1>8, <1>9
<1> HIDE DEF one, two
<1>11. ASSUME NEW n \in Nodes \cup {x}
       PROVE  /\ two[n] = [i \in DOMAIN made[n] |-> two[n][i]]
              /\ \A i \in DOMAIN made[n] :
                   two[n][i] = IF i = level /\ n = NodeBefore THEN x
                               ELSE IF i = level /\ n = x THEN NodeAfter ELSE made[n][i]
  <2>1. made[n] = [i \in DOMAIN made[n] |-> made[n][i]]
    BY <1>3, <1>5
  <2>2. CASE n = NodeBefore
    <3>1. two[n] = [made[n] EXCEPT ![level] = x]
      BY <1>10, <2>2
    <3> QED BY <1>1, <2>1, <2>2, <3>1
  <2>3. CASE n # NodeBefore /\ n = x
    <3>1. two[n] = [made[n] EXCEPT ![level] = NodeAfter]
      BY <1>10, <2>3
    <3> QED BY <2>1, <2>3, <3>1
  <2>4. CASE n # NodeBefore /\ n # x
    <3>1. two[n] = made[n]
      BY <1>10, <2>4
    <3> QED BY <2>1, <2>4, <3>1
  <2> QED BY <2>2, <2>3, <2>4
<1>12. two = [n \in Nodes \cup {x} |-> two[n]] /\ DOMAIN two = Nodes \cup {x}
  BY <1>10
<1>13. nodes'.next = two /\ DOMAIN made[x] = 0..insert.height - 1
  BY <1>5, <1>7
<1>14. \A n \in Nodes \cup {x} :
         /\ nodes'.next[n] = [i \in DOMAIN made[n] |-> nodes'.next[n][i]]
         /\ \A i \in DOMAIN made[n] :
              nodes'.next[n][i] = IF i = level /\ n = NodeBefore THEN x
                                  ELSE IF i = level /\ n = x THEN NodeAfter ELSE made[n][i]
  BY <1>11, <1>13
<1>15. \A n \in Nodes : made[n] = nodes.next[n]
  BY <1>3
<1>16. nodes' = [next |-> nodes'.next, height |-> nodes.height]
  BY <1>7, <1>13
<1>17. /\ DOMAIN nodes'.next = Nodes \cup {x}
       /\ nodes'.next = [n \in Nodes \cup {x} |-> nodes'.next[n]]
  BY <1>12, <1>13
<1> QED BY <1>5, <1>13, <1>14, <1>15, <1>16, <1>17 DEF made

LEMMA LinkedLevels ==
  ASSUME AtLink
  PROVE  /\ Nodes' = Nodes \cup {insert.key}
         /\ \A m : OnLevel(m)' = IF m = insert.level THEN OnLevel(m) \cup {insert.key}
                                ELSE OnLevel(m)
<1>x. PICK x, level : x = insert.key /\ level = insert.level
  OBVIOUS
<1> DEFINE made == WithNode(x, insert.height)
           new == nodes'.next
<1>1. /\ DOMAIN new = Nodes \cup {x}
      /\ \A n \in Nodes \cup {x} :
           /\ DOMAIN new[n] = DOMAIN made[n]
           /\ \A i \in DOMAIN made[n] :
                new[n][i] = IF i = level /\ n = NodeBefore THEN x
                            ELSE IF i = level /\ n = x THEN NodeAfter ELSE made[n][i]
      /\ \A n \in Nodes : made[n] = nodes.next[n]
      /\ x \notin Nodes => \A i \in DOMAIN made[x] : made[x][i] = NULL
      /\ DOMAIN made[x] = 0..insert.height - 1
      /\ made[x][level] = NULL
  <2>1. level \in level..insert.height - 1
    BY <1>x, LinkPlace DEF InsertRecords, Levels
  <2> QED BY <1>x, <2>1, LinkedPointers
<1>2. /\ NodeBefore \in Nodes /\ NodeBefore # x /\ x # NULL /\ level \in 0..insert.height - 1
      /\ level \in DOMAIN nodes.next[NodeBefore] /\ NodeAfter = nodes.next[NodeBefore][level]
  BY <1>x, LinkPlace DEF NodeAfter
<1> HIDE DEF made
<1>3. ASSUME NEW m
      PROVE  /\ OnLevel(m) = ({HeadNode} \cup {nodes.next[n][m] : n \in {n \in Nodes : m \in DOMAIN nodes.next[n]}}) \ {NULL}
             /\ OnLevel(m)' = ({HeadNode} \cup {new[n][m] : n \in {n \in Nodes \cup {x} : m \in DOMAIN new[n]}}) \ {NULL}
  BY <1>1 DEF OnLevel, Nodes
<1> HIDE DEF new
<1>4. ASSUME NEW m, m # level PROVE OnLevel(m)' = OnLevel(m)
  <2>1. ASSUME NEW n \in Nodes \cup {x}, m \in DOMAIN new[n], new[n][m] # NULL
        PROVE  n \in Nodes /\ m \in DOMAIN nodes.next[n] /\ new[n][m] = nodes.next[n][m]
    <3>1. CASE n \in Nodes
      BY <1>1, <1>4, <2>1, <3>1
    <3>2. CASE n \notin Nodes
      <4>1. n = x /\ x \notin Nodes
        BY <3>2
      <4>2. m \in DOMAIN made[x] /\ new[x][m] = made[x][m]
        BY <1>1, <1>4, <2>1, <4>1
      <4> QED BY <1>1, <2>1, <4>1, <4>2
    <3> QED BY <3>1, <3>2
  <2>2. ASSUME NEW n \in Nodes, m \in DOMAIN nodes.next[n]
        PROVE  m \in DOMAIN new[n] /\ new[n][m] = nodes.next[n][m]
    BY <1>1, <1>4, <2>2
  <2> QED BY <1>3, <2>1, <2>2
<1>5. OnLevel(level)' = OnLevel(level) \cup {x}
  <2>1. ASSUME NEW n \in Nodes \cup {x}, level \in DOMAIN new[n], new[n][level] # NULL
        PROVE  new[n][level] \in OnLevel(level) \cup {x}
    <3>1. CASE n = NodeBefore
      BY <1>1, <1>2, <2>1, <3>1
    <3>2. CASE n = x
      BY <1>1, <1>2, <1>3, <2>1, <3>2
    <3>3. CASE n # x /\ n # NodeBefore
      BY <1>1, <1>3, <2>1, <3>3
    <3> QED BY <3>1, <3>2, <3>3
  <2>2. ASSUME NEW n \in Nodes, level \in DOMAIN nodes.next[n], nodes.next[n][level] # NULL
        PROVE  \E k \in Nodes \cup {x} : level \in DOMAIN new[k] /\ new[k][level] = nodes.next[n][level]
    <3>1. CASE n = NodeBefore
      BY <1>1, <1>2, <3>1
    <3>2. CASE n = x
      BY <1>1, <2>2, <3>2
    <3>3. CASE n # x /\ n # NodeBefore
      BY <1>1, <2>2, <3>3
    <3> QED BY <3>1, <3>2, <3>3
  <2>3. new[NodeBefore][level] = x /\ level \in DOMAIN new[NodeBefore]
    BY <1>1, <1>2
  <2>4. OnLevel(level)' \subseteq OnLevel(level) \cup {x}
    BY <1>3, <2>1
  <2>5. OnLevel(level) \subseteq OnLevel(level)'
    BY <1>3, <2>2
  <2>6. x \in OnLevel(level)'
    BY <1>2, <1>3, <2>3
  <2> QED BY <2>4, <2>5, <2>6
<1>6. Nodes' = Nodes \cup {x}
  BY <1>1 DEF Nodes, new
<1> QED BY <1>x, <1>4, <1>5, <1>6

(* What the pointers of a level are after the step.                           *)
LEMMA LinkedNexts ==
  ASSUME AtLink, NEW m \in Levels, NEW n \in OnLevel(m)
  PROVE  nodes'.next[n][m] = IF m = insert.level /\ n = NodeBefore THEN insert.key ELSE nodes.next[n][m]
<1> DEFINE made == WithNode(insert.key, insert.height)
<1>1. n \in Nodes /\ m \in DOMAIN nodes.next[n]
  BY LevelNodes DEF AtLink
<1>2. m = insert.level => n # insert.key
  BY LinkPlace
<1>3. made[n] = nodes.next[n]
  BY <1>1, LinkedPointers
<1>4. nodes'.next[n][m] = IF m = insert.level /\ n = NodeBefore THEN insert.key
                          ELSE IF m = insert.level /\ n = insert.key THEN NodeAfter ELSE made[n][m]
  <2> HIDE DEF made
  <2>1. m \in DOMAIN made[n]
    BY <1>1, <1>3
  <2> QED BY <1>1, <2>1, LinkedPointers DEF made
<1> QED BY <1>2, <1>3, <1>4

LEMMA LinkedNext ==
  ASSUME AtLink
  PROVE  /\ \A l : l = insert.level => nodes'.next[insert.key][l] = NodeAfter
         /\ DOMAIN nodes'.next[insert.key] = 0..insert.height - 1
<1> DEFINE made == WithNode(insert.key, insert.height)
<1>1. insert.level \in 0..insert.height - 1 /\ NodeBefore # insert.key
  BY LinkPlace
<1>2. insert.level \in DOMAIN made[insert.key]
  BY <1>1, LinkedPointers
<1>3. DOMAIN nodes'.next[insert.key] = DOMAIN made[insert.key]
  BY LinkedPointers
<1>4. DOMAIN made[insert.key] = 0..insert.height - 1
  BY LinkedPointers
<1>5. nodes'.next[insert.key][insert.level] = NodeAfter
  <2> HIDE DEF made
  <2> QED BY <1>1, <1>2, LinkedPointers DEF made
<1> QED BY <1>3, <1>4, <1>5

(* Nothing of the level is between the node and those around it.              *)
LEMMA LinkedBetween ==
  ASSUME AtLink, NEW n \in OnLevel(insert.level), n # NodeBefore, Follows(n, insert.key)
  PROVE  Follows(n, NodeBefore)
<1> DEFINE level == insert.level
           x == insert.key
<1>1. /\ level \in Levels /\ NodeBefore \in OnLevel(level) /\ x \in NodeKeys /\ x \in Keyed
      /\ Follows(NodeBefore, x) /\ OnLevel(level) \subseteq Keyed
      /\ NodeAfter # NULL => Before(x, NodeAfter) /\ NodeAfter \in OnLevel(level)
  BY LinkPlace, LevelNodes, NodeKeysAreKeyed DEF AtLink
<1>2. IsNextIn(OnLevel(level), NodeBefore, NodeAfter)
  BY <1>1 DEF AtLink, LevelsAreSublists, Levels, NodeAfter
<1>3. ASSUME Follows(NodeBefore, n) PROVE FALSE
  <2>1. n # HeadNode /\ Before(n, x)
    BY <1>3 DEF Follows
  <2>2. NodeAfter # NULL
    BY <1>2, <1>3 DEF IsNextIn
  <2>3. ~Before(n, NodeAfter)
    BY <1>2, <1>3, <2>2 DEF IsNextIn
  <2>4. Before(n, NodeAfter)
    BY <1>1, <2>1, <2>2, BeforeTransitive
  <2> QED BY <2>3, <2>4
<1>4. n = HeadNode => NodeBefore # HeadNode
  OBVIOUS
<1>5. n # HeadNode /\ NodeBefore # HeadNode => Before(n, NodeBefore) \/ Before(NodeBefore, n)
  BY <1>1, BeforeOrder
<1> QED BY <1>3, <1>4, <1>5 DEF Follows

LEMMA LinkKeepsLevel ==
  ASSUME AtLink, NEW l \in Levels, l = insert.level,
         NEW n \in OnLevel(l) \cup {insert.key}
  PROVE  IsNextIn(OnLevel(l) \cup {insert.key}, n, nodes'.next[n][l])
<1> DEFINE x == insert.key
           S == OnLevel(l) \cup {x}
<1>1. /\ NodeBefore \in OnLevel(l) /\ x \in NodeKeys /\ x \in Keyed /\ x # HeadNode /\ x # NULL
      /\ Follows(NodeBefore, x) /\ OnLevel(l) \subseteq Keyed /\ NodeBefore # x
      /\ NodeAfter # NULL => Before(x, NodeAfter) /\ NodeAfter \in OnLevel(l) /\ NodeAfter # HeadNode
      /\ x \notin OnLevel(l) /\ OnLevel(l) \ {HeadNode} \subseteq NodeKeys
  BY LinkPlace, LevelNodes, NodeKeysAreKeyed DEF AtLink
<1>2. \A k \in OnLevel(l) : IsNextIn(OnLevel(l), k, nodes.next[k][l])
  BY DEF AtLink, LevelsAreSublists, Levels
<1>3. IsNextIn(OnLevel(l), NodeBefore, NodeAfter)
  BY <1>1, <1>2 DEF NodeAfter
<1>4. ASSUME NEW k \in OnLevel(l), Follows(x, k) PROVE Follows(NodeBefore, k)
  <2>1. k \in NodeKeys /\ Before(x, k)
    BY <1>1, <1>4 DEF Follows
  <2> QED BY <1>1, <2>1, FollowsBefore
<1>5. CASE n = x
  <2>1. nodes'.next[n][l] = NodeAfter
    BY <1>5, LinkedNext
  <2>2. ~Follows(x, x)
    BY <1>1, BeforeOrder DEF Follows
  <2>3. CASE NodeAfter = NULL
    <3>1. \A k \in S : ~Follows(x, k)
      BY <1>3, <1>4, <2>2, <2>3 DEF IsNextIn
    <3> QED BY <1>5, <2>1, <2>3, <3>1 DEF IsNextIn
  <2>4. CASE NodeAfter # NULL
    <3>1. NodeAfter \in S /\ Follows(x, NodeAfter)
      BY <1>1, <2>4 DEF Follows
    <3>2. \A k \in S : ~(Follows(x, k) /\ Before(k, NodeAfter))
      BY <1>3, <1>4, <2>2, <2>4 DEF IsNextIn
    <3> QED BY <1>5, <2>1, <2>4, <3>1, <3>2 DEF IsNextIn
  <2> QED BY <2>3, <2>4
<1>6. CASE n = NodeBefore
  <2>1. nodes'.next[n][l] = x
    BY <1>1, <1>6, LinkedNexts
  <2>2. ASSUME NEW k \in S, Follows(NodeBefore, k), Before(k, x) PROVE FALSE
    <3>1. k # x
      BY <1>1, <2>2, BeforeOrder
    <3>2. k \in OnLevel(l) /\ k \in Keyed
      BY <1>1, <3>1
    <3>3. NodeAfter # NULL /\ ~Before(k, NodeAfter)
      BY <1>3, <2>2, <3>2 DEF IsNextIn
    <3>4. NodeAfter \in Keyed /\ Before(x, NodeAfter)
      BY <1>1, <3>3
    <3>5. Before(k, NodeAfter)
      BY <1>1, <2>2, <3>2, <3>4, BeforeTransitive
    <3> QED BY <3>3, <3>5
  <2> QED BY <1>1, <1>6, <2>1, <2>2 DEF IsNextIn
<1>7. CASE n # x /\ n # NodeBefore
  <2> DEFINE next == nodes.next[n][l]
  <2>1. n \in OnLevel(l) /\ nodes'.next[n][l] = next /\ IsNextIn(OnLevel(l), n, next)
    BY <1>2, <1>7, LinkedNexts
  <2> HIDE DEF next
  <2>2. CASE next = NULL
    <3>1. ~Follows(n, x)
      BY <1>1, <1>7, <2>1, <2>2, LinkedBetween DEF IsNextIn
    <3> QED BY <2>1, <2>2, <3>1 DEF IsNextIn
  <2>3. CASE next # NULL
    <3>1. ASSUME Follows(n, x), Before(x, next) PROVE FALSE
      <4>1. Follows(n, NodeBefore)
        BY <1>7, <2>1, <3>1, LinkedBetween
      <4>2. ~Before(NodeBefore, next) /\ next \in OnLevel(l) /\ next \in Keyed
        BY <1>1, <2>1, <2>3, <4>1 DEF IsNextIn
      <4>3. NodeBefore # HeadNode /\ NodeBefore \in Keyed
        BY <1>1, <4>1 DEF Follows
      <4>4. Before(NodeBefore, x)
        BY <1>1, <4>3 DEF Follows
      <4> QED BY <1>1, <3>1, <4>2, <4>3, <4>4, BeforeTransitive
    <3> QED BY <2>1, <2>3, <3>1 DEF IsNextIn
  <2> QED BY <2>2, <2>3
<1> QED BY <1>5, <1>6, <1>7

LEMMA LinkKeepsLevels ==
  ASSUME AtLink
  PROVE  LevelsAreSublists'
<1>1. kMaxHeight \in Nat /\ Levels = 0..kMaxHeight - 1
  BY MemAssumption DEF Levels
<1>2. ASSUME NEW l \in Levels, NEW n \in OnLevel(l)'
      PROVE  IsNextIn(OnLevel(l)', n, nodes'.next[n][l])
  <2>1. CASE l = insert.level
    <3>1. OnLevel(l)' = OnLevel(l) \cup {insert.key}
      BY <2>1, LinkedLevels
    <3> QED BY <1>2, <2>1, <3>1, LinkKeepsLevel
  <2>2. CASE l # insert.level
    <3>1. OnLevel(l)' = OnLevel(l)
      BY <2>2, LinkedLevels
    <3>2. nodes'.next[n][l] = nodes.next[n][l]
      BY <1>2, <2>2, <3>1, LinkedNexts
    <3>3. IsNextIn(OnLevel(l), n, nodes.next[n][l])
      BY <1>1, <1>2, <3>1 DEF AtLink, LevelsAreSublists
    <3> QED BY <3>1, <3>2, <3>3
  <2> QED BY <2>1, <2>2
<1>3. ASSUME NEW l \in 1..kMaxHeight - 1 PROVE OnLevel(l)' \subseteq OnLevel(l - 1)'
  <2>1. OnLevel(l) \subseteq OnLevel(l - 1) /\ l \in Levels /\ l - 1 \in Levels /\ l - 1 # l
    BY <1>1 DEF AtLink, LevelsAreSublists
  <2>2. \A k : k = l - 1 => OnLevel(k)' = IF k = insert.level THEN OnLevel(k) \cup {insert.key} ELSE OnLevel(k)
    BY LinkedLevels
  <2>3. OnLevel(l - 1)' = IF l - 1 = insert.level THEN OnLevel(l - 1) \cup {insert.key} ELSE OnLevel(l - 1)
    BY <2>2
  <2>4. OnLevel(l)' = IF l = insert.level THEN OnLevel(l) \cup {insert.key} ELSE OnLevel(l)
    BY LinkedLevels
  <2>5. l = insert.level => insert.key \in OnLevel(l - 1)
    <3>1. l - 1 \in 0..insert.height - 1 /\ l - 1 < insert.level <=> l \in Int /\ l - 1 \in 0..insert.height - 1 /\ l - 1 < insert.level
      OBVIOUS
    <3>2. l = insert.level => l - 1 \in 0..insert.height - 1 /\ l - 1 < insert.level
      BY LinkPlace
    <3> QED BY <3>2, LinkPlace DEF Linking
  <2> QED BY <2>1, <2>3, <2>4, <2>5
<1> QED BY <1>1, <1>2, <1>3 DEF LevelsAreSublists

LEMMA LinkKeepsNodes ==
  ASSUME AtLink
  PROVE  /\ NodesOK' /\ Nodes \subseteq Nodes'
         /\ insert.key \notin Nodes => Cardinality(Nodes') = Cardinality(Nodes) + 1
         /\ Cardinality(Nodes) \in Nat /\ Cardinality(Nodes') \in Nat
         /\ Cardinality(Nodes) <= Cardinality(Nodes')
<1> DEFINE x == insert.key
           made == WithNode(x, insert.height)
           new == nodes'.next
<1>1. /\ nodes' = [next |-> new, height |-> nodes.height]
      /\ new = [n \in Nodes \cup {x} |-> new[n]]
      /\ \A n \in Nodes \cup {x} :
           /\ new[n] = [i \in DOMAIN new[n] |-> new[n][i]]
           /\ DOMAIN new[n] = DOMAIN made[n]
           /\ \A i \in DOMAIN made[n] :
                new[n][i] = IF i = insert.level /\ n = NodeBefore THEN x
                            ELSE IF i = insert.level /\ n = x THEN NodeAfter ELSE made[n][i]
      /\ \A n \in Nodes : made[n] = nodes.next[n]
      /\ x \notin Nodes => \A i \in DOMAIN made[x] : made[x][i] = NULL
      /\ DOMAIN made[x] = 0..insert.height - 1
  BY LinkedPointers
<1>2. Nodes' = Nodes \cup {x}
  BY LinkedLevels
<1>3. /\ NodeBefore \in Nodes /\ NodeBefore # x /\ x \in NodeKeys /\ x # HeadNode
      /\ insert.level \in 0..insert.height - 1 /\ insert.height \in 1..kMaxHeight
      /\ insert.level \in DOMAIN nodes.next[NodeBefore] /\ insert.level < nodes.height
      /\ insert.level \in Levels /\ Linking
  BY LinkPlace
<1>4. NodeAfter # NULL => /\ NodeAfter \in Nodes \ {HeadNode}
                          /\ insert.level \in DOMAIN nodes.next[NodeAfter]
  BY <1>3, LinkPlace, LevelNodes DEF AtLink
<1>5. NodesOK /\ IsFiniteSet(Nodes) /\ HeadNode \in Nodes
  BY DEF AtLink, NodesOK
<1>6. /\ IsFiniteSet(Nodes \cup {x}) /\ Cardinality(Nodes) \in Nat
      /\ Cardinality(Nodes \cup {x}) = IF x \in Nodes THEN Cardinality(Nodes) ELSE Cardinality(Nodes) + 1
  BY <1>5, FS_AddElement, FS_CardinalityType
<1>7. x \notin Nodes => x.seq = Cardinality(Nodes)
  BY <1>3 DEF Linking
<1> HIDE DEF made
<1>a. \A n \in Nodes \cup {x} : \A i \in DOMAIN made[n] :
        new[n][i] = IF i = insert.level /\ n = NodeBefore THEN x
                    ELSE IF i = insert.level /\ n = x THEN NodeAfter ELSE made[n][i]
  BY <1>1
<1>8. ASSUME NEW n \in Nodes \cup {x} PROVE \E h \in 1..kMaxHeight : DOMAIN new[n] = 0..h - 1
  <2>1. CASE n \in Nodes
    <3>1. DOMAIN new[n] = DOMAIN nodes.next[n]
      BY <1>1, <2>1
    <3>2. \E h \in 1..kMaxHeight : DOMAIN nodes.next[n] = 0..h - 1
      BY <1>5, <2>1 DEF NodesOK
    <3> HIDE DEF new
    <3> QED BY <3>1, <3>2
  <2>2. CASE n = x
    BY <1>1, <1>3, <2>2
  <2> QED BY <2>1, <2>2
<1>9. \A n \in Nodes : DOMAIN new[n] = DOMAIN nodes.next[n]
  BY <1>1
<1>10. DOMAIN new[x] = 0..insert.height - 1
  BY <1>1
<1>11. ASSUME NEW n \in Nodes \cup {x}, NEW l \in DOMAIN new[n], new[n][l] # NULL
       PROVE  new[n][l] \in (Nodes \cup {x}) \ {HeadNode} /\ l \in DOMAIN new[new[n][l]]
  <2>1. CASE l = insert.level /\ n = NodeBefore
    <3>1. new[n][l] = x
      BY <1>1, <1>11, <2>1
    <3> QED BY <1>3, <1>10, <2>1, <3>1
  <2>2. CASE l = insert.level /\ n = x
    <3>1. new[n][l] = NodeAfter
      BY <1>1, <1>3, <1>11, <2>2
    <3> QED BY <1>4, <1>9, <1>11, <2>2, <3>1
  <2>3. CASE ~(l = insert.level /\ n = NodeBefore) /\ ~(l = insert.level /\ n = x)
    <3>0. l \in DOMAIN made[n]
      BY <1>1, <1>11
    <3>1. new[n][l] = made[n][l] /\ l \in DOMAIN made[n]
      BY <1>a, <3>0, <2>3
    <3>2. n \in Nodes /\ new[n][l] = nodes.next[n][l] /\ l \in DOMAIN nodes.next[n]
      BY <1>1, <1>11, <3>1
    <3>3. new[n][l] \in Nodes \ {HeadNode} /\ l \in DOMAIN nodes.next[new[n][l]]
      BY <1>5, <1>11, <3>2 DEF NodesOK
    <3> QED BY <1>9, <3>3
  <2> QED BY <2>1, <2>2, <2>3
<1>12. DOMAIN new[HeadNode] = Levels
  BY <1>5, <1>9 DEF NodesOK
<1>13. ASSUME NEW l \in nodes.height..kMaxHeight - 1 PROVE new[HeadNode][l] = NULL
  <2>1. l # insert.level /\ l \in Levels
    BY <1>3, <1>5, MemAssumption DEF NodesOK, Levels
  <2>2. made[HeadNode][l] = NULL /\ l \in DOMAIN made[HeadNode]
    BY <1>1, <1>5, <2>1 DEF NodesOK
  <2> QED BY <1>a, <1>5, <2>1, <2>2
<1>14. ASSUME NEW n \in Nodes \cup {x} PROVE n.seq < Cardinality(Nodes \cup {x})
  <2>1. \A k \in Nodes : k.seq < Cardinality(Nodes) /\ k.seq \in Nat
    BY <1>5, NodesAreCounted, HeadIsKeyed DEF NodesOK, NodeKeys, Keyed
  <2> QED BY <1>6, <1>7, <2>1
<1>15. HeadNode \in Nodes \cup {x} /\ (Nodes \cup {x}) \ {HeadNode} \subseteq NodeKeys
  BY <1>3, <1>5 DEF NodesOK
<1>16. nodes'.height = nodes.height /\ nodes.height \in 1..kMaxHeight
  BY <1>1, <1>5 DEF NodesOK
<1>17. NodesOK'
  <2>1. \A n \in Nodes \cup {x} : new[n] = [i \in DOMAIN new[n] |-> new[n][i]]
    BY <1>1
  <2>2. new = [n \in Nodes \cup {x} |-> new[n]] /\ nodes' = [next |-> new, height |-> nodes'.height]
    BY <1>1, <1>16
  <2> QED BY <1>2, <1>6, <1>8, <1>11, <1>12, <1>13, <1>14, <1>15, <1>16, <2>1, <2>2 DEF NodesOK
<1> QED BY <1>2, <1>6, <1>17

LEMMA LinkKeepsInsert ==
  ASSUME AtLink
  PROVE  InsertOK'
<1>1. CASE insert.level + 1 = insert.height
  BY <1>1 DEF AtLink, Link, InsertOK
<1>2. CASE insert.level + 1 # insert.height
  <2> DEFINE level == insert.level + 1
  <2>1. insert' = [insert EXCEPT !.level = level] /\ insert \in InsertRecords /\ Linking
        /\ insert.pc = "link" /\ insert.key \in NodeKeys
    BY <1>2, LinkPlace DEF AtLink, Link
  <2>2. /\ level \in 1..insert.height - 1 /\ level \in Levels /\ insert.level \in 0..insert.height - 1
        /\ insert.height \in 1..kMaxHeight /\ kMaxHeight \in Nat
    BY <1>2, LinkPlace, MemAssumption DEF Levels
  <2> HIDE DEF level
  <2>3. /\ insert' \in InsertRecords /\ insert'.pc = "link" /\ insert'.key = insert.key
        /\ insert'.height = insert.height /\ insert'.level = level /\ insert'.prev = insert.prev
    BY <2>1, <2>2 DEF InsertRecords
  <2>4. insert' \in InsertRecords'
    <3>1. Nodes \subseteq Nodes' /\ Levels' = Levels /\ NodeKeys' = NodeKeys
      BY LinkedLevels DEF Levels, NodeKeys
    <3>2. \A f : f \in [Levels -> Nodes] => f \in [Levels -> Nodes']
      BY <3>1
    <3> QED BY <2>3, <3>1, <3>2 DEF InsertRecords
  <2>5. nodes'.height = nodes.height
    BY LinkedPointers
  <2>6. ASSUME NEW m \in 0..insert.height - 1
        PROVE  IF m < level THEN insert.key \in OnLevel(m)'
               ELSE IsPrev(m, insert.prev[m])' /\ insert.key \notin OnLevel(m)'
    <3>1. m \in Levels /\ m \in Int
      BY <2>2 DEF Levels
    <3>2. CASE m < insert.level
      <4>1. m < level /\ insert.key \in OnLevel(m)
        BY <2>1, <2>2, <3>2 DEF Linking, level
      <4> QED BY <4>1, LinkedLevels
    <3>3. CASE m = insert.level
      BY <2>2, <3>3, LinkedLevels DEF level
    <3>4. CASE m > insert.level
      <4>1. ~(m < level) /\ ~(m < insert.level) /\ m # insert.level
        BY <2>2, <3>1, <3>4 DEF level
      <4>2. IsPrev(m, insert.prev[m]) /\ insert.key \notin OnLevel(m)
        BY <2>1, <2>2, <4>1 DEF Linking
      <4>3. OnLevel(m)' = OnLevel(m)
        BY <4>1, LinkedLevels
      <4>4. PICK n : n = insert.prev[m]
        OBVIOUS
      <4>5. nodes'.next[n][m] = nodes.next[n][m]
        BY <3>1, <4>1, <4>2, <4>4, LinkedNexts DEF IsPrev
      <4> QED BY <2>3, <4>1, <4>2, <4>3, <4>4, <4>5 DEF IsPrev
    <3> QED BY <2>2, <3>1, <3>2, <3>3, <3>4
  <2>7. Linking'
    <3>1. insert.key \in Nodes' /\ DOMAIN nodes'.next[insert.key] = 0..insert.height - 1
      BY LinkedLevels, LinkedNext
    <3>2. ASSUME NEW m \in level..insert.height - 1 PROVE nodes'.next[insert.key][m] = NULL
      <4>1. m \in insert.level..insert.height - 1 /\ m # insert.level /\ m \in 0..insert.height - 1
        BY <2>2, <3>2 DEF level
      <4> QED BY <4>1, LinkedPointers
    <3>3. level # 0 /\ level < insert.height /\ ~(insert.height > nodes.height)
      BY <2>1, <2>2 DEF Linking
    <3>4. \A m \in 0..insert'.height - 1 :
            IF m < insert'.level THEN insert'.key \in OnLevel(m)'
            ELSE IsPrev(m, insert.prev[m])' /\ insert'.key \notin OnLevel(m)'
      BY <2>3, <2>6
    <3> QED BY <2>3, <2>5, <3>1, <3>2, <3>3, <3>4 DEF Linking
  <2> QED BY <2>3, <2>4, <2>7 DEF InsertOK
<1> QED BY <1>1, <1>2

LEMMA LinkKeepsWalks ==
  ASSUME AtLink, WalksOK
  PROVE  WalksOK'
<1>1. /\ Nodes \subseteq Nodes' /\ nodes'.height = nodes.height /\ walk' = walk
      /\ \A m : OnLevel(m) \subseteq OnLevel(m)'
  <2>1. walk' = walk
    BY DEF AtLink, Link
  <2>2. nodes' = [next |-> nodes'.next, height |-> nodes.height]
    BY LinkedPointers
  <2> QED BY <2>1, <2>2, LinkedLevels
<1>2. LinkedNodes \subseteq LinkedNodes'
  BY <1>1 DEF LinkedNodes
<1>3. ASSUME NEW k \in LinkedNodes', k \notin LinkedNodes
      PROVE  k.seq = Cardinality(Nodes)
  <2>1. k = insert.key /\ insert.level = 0
    BY <1>3, LinkedLevels DEF LinkedNodes
  <2> QED BY <2>1, LinkPlace DEF Linking
<1>4. ASSUME NEW c, WalkOK(c) PROVE WalkOK(c)'
  <2>1. c \in WalkRecords'
    BY <1>1, <1>2, <1>4 DEF WalkOK, WalkRecords
  <2>2. Walking(c) => Walking(c)'
    BY <1>1 DEF Walking
  <2>3. Published(c)'
    <3> SUFFICES ASSUME c.call = "seek" PROVE Published(c)'
      BY DEF Published
    <3>1. c.key \in Keyed /\ c.key.seq < Cardinality(Nodes) /\ Published(c)
      BY <1>4 DEF WalkOK, Published
    <3>2. c.key.seq < Cardinality(Nodes')
      BY <3>1, LinkKeepsNodes DEF Keyed
    <3>3. \A k \in LinkedNodes' : k.seq <= c.key.seq => k \in c.before
      BY <1>3, <3>1, LinkKeepsNodes DEF Keyed, Published
    <3> QED BY <3>1, <3>2, <3>3 DEF Published
  <2> QED BY <1>4, <2>1, <2>2, <2>3 DEF WalkOK
<1>5. ASSUME NEW v \in Walkers PROVE (walk[v] = IdleWalk \/ WalkOK(walk[v]))'
  <2>1. PICK c : c = walk[v]
    OBVIOUS
  <2>2. c = IdleWalk \/ WalkOK(c)
    BY <2>1 DEF WalksOK
  <2>3. c = IdleWalk \/ WalkOK(c)'
    BY <1>4, <2>2
  <2> QED BY <1>1, <2>1, <2>3 DEF WalkOK, WalkRecords, Walking, Published, Nodes, LinkedNodes, OnLevel, IdleWalk
<1> QED BY <1>1, <1>5 DEF WalksOK, IdleWalk

-----------------------------------------------------------------------------
(* The arena.                                                                 *)

(* The running sums of the blocks exist, and their last is the usage.         *)
Sums(blocks, f) ==
  f = [i \in 0..Len(blocks) |-> IF i = 0 THEN 0 ELSE f[i - 1] + blocks[i] + PointerBytes]

LEMMA SumsExist ==
  ASSUME NEW blocks
  PROVE  \A n \in Nat : \E f : f = [i \in 0..n |-> IF i = 0 THEN 0 ELSE f[i - 1] + blocks[i] + PointerBytes]
<1> DEFINE IsSum(f, n) ==
             f = [i \in 0..n |-> IF i = 0 THEN 0 ELSE f[i - 1] + blocks[i] + PointerBytes]
           Missing == {n \in Nat : ~\E f : IsSum(f, n)}
<1>1. SUFFICES ASSUME Missing # {} PROVE FALSE
  OBVIOUS
<1>2. PICK n \in Missing : \A m \in Missing : n <= m
  <2> HIDE DEF IsSum
  <2>1. Missing \in SUBSET Nat
    OBVIOUS
  <2> HIDE DEF Missing
  <2> QED BY <1>1, <2>1, LeastNatural
<1>3. n # 0
  <2>1. IsSum([i \in 0..0 |-> 0], 0)
    OBVIOUS
  <2> HIDE DEF IsSum
  <2> QED BY <2>1
<1>4. n \in Nat /\ n - 1 \in Nat /\ ~(n <= n - 1)
  BY <1>3
<1>5. PICK f : IsSum(f, n - 1)
  <2> HIDE DEF IsSum
  <2> QED BY <1>2, <1>4
<1> DEFINE g == [i \in 0..n |-> IF i = n THEN f[n - 1] + blocks[n] + PointerBytes ELSE f[i]]
<1>6. IsSum(g, n)
  <2>1. ASSUME NEW i \in 0..n
        PROVE  g[i] = IF i = 0 THEN 0 ELSE g[i - 1] + blocks[i] + PointerBytes
    <3>1. CASE i = n
      <4>1. g[n - 1] = f[n - 1] /\ g[n] = f[n - 1] + blocks[n] + PointerBytes
        BY <1>4
      <4> HIDE DEF g
      <4> QED BY <1>3, <3>1, <4>1
    <3>2. CASE i # n
      <4>1. i \in 0..n - 1 /\ g[i] = f[i] /\ (i # 0 => g[i - 1] = f[i - 1])
        BY <1>4, <3>2
      <4>2. f[i] = IF i = 0 THEN 0 ELSE f[i - 1] + blocks[i] + PointerBytes
        BY <1>5, <4>1
      <4> HIDE DEF g
      <4> QED BY <4>1, <4>2
    <3> QED BY <3>1, <3>2
  <2>2. g = [i \in 0..n |-> g[i]]
    OBVIOUS
  <2> HIDE DEF g
  <2> QED BY <2>1, <2>2
<1> QED
  <2> HIDE DEF IsSum
  <2> QED BY <1>2, <1>6

LEMMA UsageIsSum ==
  ASSUME NEW blocks, Len(blocks) \in Nat
  PROVE  \E f : Sums(blocks, f) /\ BlocksUsage(blocks) = f[Len(blocks)]
<1>1. \E f : Sums(blocks, f)
  BY SumsExist DEF Sums
<1>2. PICK f : f = CHOOSE g : Sums(blocks, g)
  OBVIOUS
<1>3. Sums(blocks, f)
  BY <1>1, <1>2
<1>4. BlocksUsage(blocks) = f[Len(blocks)]
  BY <1>2 DEF BlocksUsage, Sums
<1> QED BY <1>3, <1>4

LEMMA UsageOfNone == BlocksUsage(<<>>) = 0
<1>1. Len(<<>>) = 0
  OBVIOUS
<1> QED BY <1>1, UsageIsSum DEF Sums

(* The running sums of longer lists agree with those of shorter ones.         *)
LEMMA SumsAgree ==
  ASSUME NEW s \in Seq(Nat), NEW b \in Nat, NEW f, NEW g, Sums(s, f), Sums(Append(s, b), g)
  PROVE  \A i \in 0..Len(s) : f[i] = g[i]
<1> DEFINE Unlike == {i \in 0..Len(s) : f[i] # g[i]}
<1>1. SUFFICES ASSUME Unlike # {} PROVE FALSE
  OBVIOUS
<1>2. Len(s) \in Nat /\ Len(Append(s, b)) = Len(s) + 1
  BY LenProperties, AppendProperties
<1>3. PICK n \in Unlike : \A m \in Unlike : n <= m
  <2>1. Unlike \in SUBSET Nat
    BY <1>2
  <2> HIDE DEF Unlike
  <2> QED BY <1>1, <2>1, LeastNatural
<1>4. /\ f[n] = IF n = 0 THEN 0 ELSE f[n - 1] + s[n] + PointerBytes
      /\ g[n] = IF n = 0 THEN 0 ELSE g[n - 1] + Append(s, b)[n] + PointerBytes
  <2>1. n \in 0..Len(s) /\ n \in 0..Len(s) + 1
    BY <1>2
  <2> HIDE DEF Unlike
  <2> QED BY <1>2, <2>1 DEF Sums
<1>5. n # 0
  BY <1>4
<1>6. n - 1 \in 0..Len(s) /\ ~(n <= n - 1) /\ n \in 1..Len(s)
  BY <1>2, <1>5
<1>7. f[n - 1] = g[n - 1]
  BY <1>3, <1>6
<1>8. Append(s, b)[n] = s[n]
  BY <1>6, AppendProperties
<1> QED BY <1>4, <1>5, <1>7, <1>8

LEMMA UsageOfMore ==
  ASSUME NEW s \in Seq(Nat), NEW b \in Nat
  PROVE  BlocksUsage(Append(s, b)) = BlocksUsage(s) + b + PointerBytes
<1>1. Len(s) \in Nat /\ Len(Append(s, b)) = Len(s) + 1 /\ Append(s, b)[Len(s) + 1] = b
  BY LenProperties, AppendProperties
<1>2. PICK f : Sums(s, f) /\ BlocksUsage(s) = f[Len(s)]
  BY <1>1, UsageIsSum
<1>3. PICK g : Sums(Append(s, b), g) /\ BlocksUsage(Append(s, b)) = g[Len(s) + 1]
  <2>1. Len(Append(s, b)) \in Nat
    BY <1>1
  <2>2. \E g : Sums(Append(s, b), g) /\ BlocksUsage(Append(s, b)) = g[Len(Append(s, b))]
    BY <2>1, UsageIsSum, Zenon
  <2> QED BY <1>1, <2>2
<1>4. g[Len(s) + 1] = g[Len(s)] + b + PointerBytes
  <2>1. Len(s) + 1 \in 0..Len(s) + 1 /\ Len(s) + 1 # 0 /\ (Len(s) + 1) - 1 = Len(s)
    BY <1>1
  <2> QED BY <1>1, <1>3, <2>1 DEF Sums
<1>5. f[Len(s)] = g[Len(s)]
  BY <1>1, <1>2, <1>3, SumsAgree
<1> QED BY <1>2, <1>3, <1>4, <1>5

LEMMA SlopAligns ==
  ASSUME NEW o \in Nat
  PROVE  LET slop == (PointerBytes - (o % PointerBytes)) % PointerBytes
         IN  slop \in Nat /\ (o + slop) % PointerBytes = 0
<1>1. PICK p \in Nat \ {0} : p = PointerBytes
  BY MemAssumption
<1>2. PICK m \in 0..p - 1 : m = o % p
  OBVIOUS
<1>3. PICK q \in Nat : o = p * q + m
  <2>1. o \div p \in Nat /\ o = p * (o \div p) + (o % p)
    OBVIOUS
  <2> QED BY <1>2, <2>1
<1>4. CASE m = 0
  <2>1. (p - m) % p = 0
    BY <1>4
  <2> QED BY <1>1, <1>2, <1>4, <2>1
<1>5. CASE m # 0
  <2>1. (p - m) % p = p - m
    BY <1>5
  <2>2. o + (p - m) = p * (q + 1)
    BY <1>3
  <2>3. (p * (q + 1)) % p = 0
    OBVIOUS
  <2> QED BY <1>1, <1>2, <2>1, <2>2, <2>3
<1> QED BY <1>4, <1>5

(* One more region is handed out.                                             *)
LEMMA OneMoreRegion ==
  ASSUME NEW a, NEW b, NEW r, ArenaOK(a), b \in Arenas, FreeOK(b), b.usage = BlocksUsage(b.blocks),
         b.regions = Append(a.regions, r), r \in Regions, RegionOK(b, r),
         \A i \in 1..Len(a.regions) : RegionOK(b, a.regions[i]) /\ Apart(a.regions[i], r)
  PROVE  ArenaOK(b)
<1>1. a.regions \in Seq(Regions)
  BY DEF ArenaOK, Arenas
<1>2. Len(b.regions) = Len(a.regions) + 1 /\ Len(a.regions) \in Nat
  BY <1>1, AppendProperties, LenProperties
<1>3. /\ b.regions[Len(a.regions) + 1] = r
      /\ \A i \in 1..Len(a.regions) : b.regions[i] = a.regions[i]
  BY <1>1, AppendProperties
<1>4. ASSUME NEW i \in 1..Len(b.regions)
      PROVE  RegionOK(b, b.regions[i]) /\ \A j \in 1..i - 1 : Apart(b.regions[j], b.regions[i])
  <2>1. CASE i = Len(a.regions) + 1
    <3>1. b.regions[i] = r /\ \A j \in 1..i - 1 : j \in 1..Len(a.regions)
      BY <1>2, <1>3, <2>1
    <3> QED BY <1>3, <3>1
  <2>2. CASE i # Len(a.regions) + 1
    <3>1. i \in 1..Len(a.regions) /\ \A j \in 1..i - 1 : j \in 1..Len(a.regions)
      BY <1>2, <2>2
    <3>2. \A j \in 1..i - 1 : Apart(a.regions[j], a.regions[i])
      BY <3>1 DEF ArenaOK
    <3> QED BY <1>3, <3>1, <3>2
  <2> QED BY <2>1, <2>2
<1> QED BY <1>4 DEF ArenaOK

LEMMA OldRegions ==
  ASSUME NEW a, ArenaOK(a), NEW i \in 1..Len(a.regions)
  PROVE  RegionOK(a, a.regions[i]) /\ a.regions[i] \in Regions
<1>1. a.regions \in Seq(Regions)
  BY DEF ArenaOK, Arenas
<1> QED BY <1>1, ElementOfSeq DEF ArenaOK

(* Where the next region starts and ends, and what is left behind it.         *)
LEMMA BumpArithmetic ==
  ASSUME NEW o \in Nat, NEW slop \in Nat, NEW bytes \in Nat \ {0}, NEW left \in Nat,
         bytes + slop <= left
  PROVE  /\ (o + slop) + bytes = o + bytes + slop
         /\ o + bytes + slop <= o + left
         /\ (o + bytes + slop) + (left - bytes - slop) = o + left
         /\ left - bytes - slop \in Nat /\ o + slop \in Nat /\ o + bytes + slop \in Nat
         /\ \A end \in Nat : end <= o => end <= o + slop /\ end <= o + bytes + slop
OBVIOUS

LEMMA NaturalSum ==
  ASSUME NEW m \in Nat, NEW n \in Nat
  PROVE  m + n \in Nat
OBVIOUS

LEMMA BumpOK ==
  ASSUME NEW a, ArenaOK(a), NEW bytes \in Nat \ {0}, NEW slop \in Nat, NEW aligned \in BOOLEAN,
         bytes + slop <= a.remaining,
         a.ptr # NULL /\ aligned => Aligned(a.ptr.offset + slop)
  PROVE  ArenaOK(Bump(a, bytes, slop, aligned))
<1> DEFINE b == Bump(a, bytes, slop, aligned)
           place == [a.ptr EXCEPT !.offset = @ + slop]
           r == [at |-> place, bytes |-> bytes, aligned |-> aligned]
           ptr == [a.ptr EXCEPT !.offset = @ + bytes + slop]
<1>1. a \in Arenas /\ FreeOK(a) /\ a.remaining \in Nat /\ a.usage = BlocksUsage(a.blocks)
  BY DEF ArenaOK, Arenas
<1>2. a.ptr # NULL
  BY <1>1 DEF FreeOK
<1>3. /\ a.ptr \in [block : Nat, offset : Nat] /\ a.blocks \in Seq(Nat)
      /\ a.ptr.block \in 1..Len(a.blocks) /\ a.ptr.offset + a.remaining = a.blocks[a.ptr.block]
  BY <1>1, <1>2 DEF FreeOK, Arenas
<1>4. a.blocks[a.ptr.block] \in Nat
  BY <1>3, ElementOfSeq
<1>5. /\ place \in [block : Nat, offset : Nat] /\ place.block = a.ptr.block /\ place.offset = a.ptr.offset + slop
      /\ ptr \in [block : Nat, offset : Nat] /\ ptr.block = a.ptr.block
      /\ ptr.offset = a.ptr.offset + bytes + slop
      /\ a.ptr.offset \in Nat /\ a.ptr.block \in Nat
  <2>1. a.ptr.offset \in Nat /\ a.ptr.block \in Nat
    BY <1>3
  <2> DEFINE start == a.ptr.offset + slop
             end == a.ptr.offset + bytes + slop
  <2>2. start \in Nat /\ end \in Nat
    BY <1>1, <2>1, BumpArithmetic, Zenon
  <2>3. place = [a.ptr EXCEPT !.offset = start] /\ ptr = [a.ptr EXCEPT !.offset = end]
    OBVIOUS
  <2> HIDE DEF place, ptr, start, end
  <2>4. /\ place \in [block : Nat, offset : Nat] /\ place.block = a.ptr.block /\ place.offset = start
        /\ ptr \in [block : Nat, offset : Nat] /\ ptr.block = a.ptr.block /\ ptr.offset = end
    BY <1>3, <2>2, <2>3
  <2> QED BY <2>1, <2>4 DEF start, end
<1> HIDE DEF place, ptr
<1> DEFINE rest == a.remaining - bytes - slop
<1>b. /\ place.offset + bytes = ptr.offset
      /\ ptr.offset <= a.ptr.offset + a.remaining
      /\ ptr.offset + rest = a.ptr.offset + a.remaining
      /\ rest \in Nat
      /\ \A end \in Nat : end <= a.ptr.offset => end <= place.offset /\ end <= ptr.offset
  <2> DEFINE o == a.ptr.offset
             free == a.remaining
  <2>1. o \in Nat /\ free \in Nat /\ bytes + slop <= free
    BY <1>1, <1>5
  <2>2. place.offset = o + slop /\ ptr.offset = o + bytes + slop /\ rest = free - bytes - slop
    BY <1>5
  <2> HIDE DEF o, free, rest
  <2>3. /\ (o + slop) + bytes = o + bytes + slop
        /\ o + bytes + slop <= o + free
        /\ (o + bytes + slop) + (free - bytes - slop) = o + free
        /\ free - bytes - slop \in Nat
        /\ \A end \in Nat : end <= o => end <= o + slop /\ end <= o + bytes + slop
    BY <2>1, BumpArithmetic
  <2> QED BY <2>2, <2>3, Zenon DEF o, free
<1>6. r \in Regions /\ r.at = place /\ r.bytes = bytes /\ r.aligned = aligned
  BY <1>5 DEF Regions
<1> DEFINE left == rest
           more == Append(a.regions, r)
<1>7. b = [a EXCEPT !.regions = more, !.ptr = ptr, !.remaining = left]
  <2>1. b = [[a EXCEPT !.regions = more] EXCEPT !.ptr = ptr, !.remaining = left]
    BY <1>1 DEF Bump, HandOut, place, ptr, Arenas
  <2> HIDE DEF b, more, rest, left, r
  <2> QED BY <1>1, <2>1 DEF Arenas
<1>8. left \in Nat /\ more \in Seq(Regions)
  BY <1>1, <1>6, <1>b, AppendProperties DEF Arenas
<1> HIDE DEF b, rest, left, more, r
<1>9. /\ b \in Arenas /\ b.regions = more /\ b.ptr = ptr /\ b.remaining = left
      /\ b.blocks = a.blocks /\ b.usage = a.usage
  BY <1>1, <1>5, <1>7, <1>8 DEF Arenas
<1>10. ptr # NULL
  BY <1>5, MemAssumption
<1>11. FreeOK(b)
  <2>1. ptr.offset + left = a.ptr.offset + a.remaining
    BY <1>b DEF left
  <2> QED BY <1>3, <1>5, <1>9, <1>10, <2>1, Zenon DEF FreeOK
<1>12. RegionOK(b, r)
  <2>1. place.offset + bytes = ptr.offset /\ ptr.offset <= a.blocks[a.ptr.block]
    BY <1>b, <1>3
  <2>2. ptr.offset <= ptr.offset /\ (aligned => Aligned(place.offset))
    BY <1>2, <1>5
  <2>3. r.at.block = a.ptr.block /\ r.at.offset = place.offset /\ r.bytes = bytes /\ r.aligned = aligned
    BY <1>5, <1>6
  <2>4. r.at.offset + r.bytes = ptr.offset
    BY <2>1, <2>3
  <2>5. b.blocks = a.blocks /\ b.ptr.offset = ptr.offset
    BY <1>9
  <2> QED BY <1>3, <2>1, <2>2, <2>3, <2>4, <2>5, Zenon DEF RegionOK
<1>13. ASSUME NEW i \in 1..Len(a.regions)
       PROVE  RegionOK(b, a.regions[i]) /\ Apart(a.regions[i], r)
  <2>1. RegionOK(a, a.regions[i]) /\ a.regions[i] \in Regions
    BY OldRegions
  <2>2. a.regions[i].at.offset \in Nat /\ a.regions[i].bytes \in Nat
    BY <2>1 DEF Regions
  <2> DEFINE q == a.regions[i]
             end == q.at.offset + q.bytes
  <2>5. /\ q.at.block \in 1..Len(a.blocks) /\ end <= a.blocks[q.at.block]
        /\ q.at.block = a.ptr.block => end <= a.ptr.offset
        /\ q.aligned => Aligned(q.at.offset)
    BY <1>2, <2>1 DEF RegionOK
  <2>6. q.at.block = a.ptr.block => end <= place.offset /\ end <= ptr.offset
    <3>1. end \in Nat
      BY <2>2, NaturalSum, Zenon
    <3> HIDE DEF end, q
    <3>2. q.at.block = a.ptr.block => end <= a.ptr.offset
      BY <2>5
    <3> QED BY <1>b, <3>1, <3>2, Zenon
  <2>3. RegionOK(b, a.regions[i])
    BY <1>5, <1>9, <2>5, <2>6 DEF RegionOK
  <2>4. Apart(a.regions[i], r)
    BY <1>5, <1>6, <2>6 DEF Apart
  <2> QED BY <2>3, <2>4
<1>14. b.usage = BlocksUsage(b.blocks)
  BY <1>1, <1>9
<1>15. b.regions = Append(a.regions, r)
  BY <1>9 DEF more
<1>16. ArenaOK(b)
  BY <1>6, <1>9, <1>11, <1>12, <1>13, <1>14, <1>15, OneMoreRegion
<1> QED BY <1>16 DEF b

(* What a new block leaves as it was.                                         *)
LEMMA NewBlock ==
  ASSUME NEW a, ArenaOK(a), NEW size \in Nat
  PROVE  /\ Len(a.blocks) \in Nat /\ Append(a.blocks, size) \in Seq(Nat)
         /\ Len(Append(a.blocks, size)) = Len(a.blocks) + 1
         /\ Append(a.blocks, size)[Len(a.blocks) + 1] = size
         /\ \A i \in 1..Len(a.blocks) :
              Append(a.blocks, size)[i] = a.blocks[i] /\ i \in 1..Len(a.blocks) + 1
                /\ i # Len(a.blocks) + 1
         /\ a.usage + size + PointerBytes = BlocksUsage(Append(a.blocks, size))
         /\ a.usage + size + PointerBytes \in Nat
<1>1. a.blocks \in Seq(Nat) /\ a.usage = BlocksUsage(a.blocks) /\ a.usage \in Nat
  BY DEF ArenaOK, Arenas
<1>2. Len(a.blocks) \in Nat
  BY <1>1, LenProperties
<1>3. /\ Append(a.blocks, size) \in Seq(Nat) /\ Len(Append(a.blocks, size)) = Len(a.blocks) + 1
      /\ Append(a.blocks, size)[Len(a.blocks) + 1] = size
      /\ \A i \in 1..Len(a.blocks) : Append(a.blocks, size)[i] = a.blocks[i]
  BY <1>1, AppendProperties
<1>4. BlocksUsage(Append(a.blocks, size)) = BlocksUsage(a.blocks) + size + PointerBytes
  BY <1>1, UsageOfMore
<1>5. PointerBytes \in Nat
  BY MemAssumption
<1> QED BY <1>1, <1>2, <1>3, <1>4, <1>5

LEMMA ZeroAligned == Aligned(0)
BY MemAssumption DEF Aligned

LEMMA OwnBlockOK ==
  ASSUME NEW a, ArenaOK(a), NEW bytes \in Nat \ {0}, NEW aligned \in BOOLEAN
  PROVE  ArenaOK(OwnBlock(a, bytes, aligned))
<1> DEFINE b == OwnBlock(a, bytes, aligned)
           n == Len(a.blocks) + 1
           r == [at |-> Address(n, 0), bytes |-> bytes, aligned |-> aligned]
           more == Append(a.regions, r)
           blocks == Append(a.blocks, bytes)
           usage == a.usage + bytes + PointerBytes
<1>1. a \in Arenas /\ FreeOK(a)
  BY DEF ArenaOK
<1>2. /\ Len(a.blocks) \in Nat /\ blocks \in Seq(Nat) /\ Len(blocks) = n /\ blocks[n] = bytes
      /\ \A i \in 1..Len(a.blocks) : blocks[i] = a.blocks[i] /\ i \in 1..n /\ i # n
      /\ usage = BlocksUsage(blocks) /\ usage \in Nat
  BY NewBlock
<1>3. /\ r \in Regions /\ r.at.block = n /\ r.at.offset = 0 /\ r.bytes = bytes
  BY <1>2 DEF Regions, Address
<1> HIDE DEF r
<1>4. more \in Seq(Regions)
  BY <1>1, <1>3, AppendProperties DEF Arenas
<1>5. b = [[a EXCEPT !.blocks = blocks, !.usage = usage] EXCEPT !.regions = more]
  <2>1. [a EXCEPT !.blocks = blocks, !.usage = usage].regions = a.regions
    BY <1>1 DEF Arenas
  <2> QED BY <2>1 DEF OwnBlock, HandOut, AllocateNewBlock, r
<1> HIDE DEF b, more, blocks, usage
<1>6. /\ b \in Arenas /\ b.regions = more /\ b.ptr = a.ptr /\ b.remaining = a.remaining
      /\ b.blocks = blocks /\ b.usage = usage
  BY <1>1, <1>2, <1>4, <1>5 DEF Arenas
<1>7. FreeOK(b)
  BY <1>1, <1>2, <1>6 DEF FreeOK
<1>8. RegionOK(b, r)
  BY <1>1, <1>2, <1>3, <1>6, ZeroAligned DEF RegionOK, FreeOK
<1>9. ASSUME NEW i \in 1..Len(a.regions)
      PROVE  RegionOK(b, a.regions[i]) /\ Apart(a.regions[i], r)
  <2>1. RegionOK(a, a.regions[i])
    BY OldRegions
  <2> HIDE DEF n
  <2> QED BY <1>2, <1>3, <1>6, <2>1 DEF RegionOK, Apart
<1>10. b.regions = Append(a.regions, r)
  BY <1>6 DEF more
<1>11. ArenaOK(b)
  BY <1>2, <1>3, <1>6, <1>7, <1>8, <1>9, <1>10, OneMoreRegion
<1> QED BY <1>11 DEF b

LEMMA NextBlockOK ==
  ASSUME NEW a, ArenaOK(a), NEW bytes \in Nat \ {0}, NEW aligned \in BOOLEAN, bytes <= kBlockSize
  PROVE  ArenaOK(NextBlock(a, bytes, aligned))
<1> DEFINE b == NextBlock(a, bytes, aligned)
           n == Len(a.blocks) + 1
           r == [at |-> Address(n, 0), bytes |-> bytes, aligned |-> aligned]
           more == Append(a.regions, r)
           blocks == Append(a.blocks, kBlockSize)
           usage == a.usage + kBlockSize + PointerBytes
           ptr == Address(n, bytes)
           left == kBlockSize - bytes
<1>1. a \in Arenas /\ kBlockSize \in Nat
  BY MemAssumption DEF ArenaOK
<1>2. /\ Len(a.blocks) \in Nat /\ blocks \in Seq(Nat) /\ Len(blocks) = n /\ blocks[n] = kBlockSize
      /\ \A i \in 1..Len(a.blocks) : blocks[i] = a.blocks[i] /\ i \in 1..n /\ i # n
      /\ usage = BlocksUsage(blocks) /\ usage \in Nat
  BY <1>1, NewBlock
<1>3. /\ r \in Regions /\ r.at.block = n /\ r.at.offset = 0 /\ r.bytes = bytes
  BY <1>2 DEF Regions, Address
<1>4. ptr \in [block : Nat, offset : Nat] /\ ptr.block = n /\ ptr.offset = bytes
  BY <1>2 DEF Address
<1>5. left \in Nat
  BY <1>1
<1> HIDE DEF r
<1>6. more \in Seq(Regions)
  BY <1>1, <1>3, AppendProperties DEF Arenas
<1>7. b = [[[a EXCEPT !.blocks = blocks, !.usage = usage] EXCEPT !.regions = more]
             EXCEPT !.ptr = ptr, !.remaining = left]
  <2>1. [a EXCEPT !.blocks = blocks, !.usage = usage].regions = a.regions
    BY <1>1 DEF Arenas
  <2> QED BY <2>1 DEF NextBlock, HandOut, AllocateNewBlock, r
<1> HIDE DEF b, more, blocks, usage, ptr, left
<1>8. /\ b \in Arenas /\ b.regions = more /\ b.ptr = ptr /\ b.remaining = left
      /\ b.blocks = blocks /\ b.usage = usage
  BY <1>1, <1>2, <1>4, <1>5, <1>6, <1>7 DEF Arenas
<1>9. FreeOK(b)
  BY <1>1, <1>2, <1>4, <1>8, MemAssumption DEF FreeOK, left
<1>10. RegionOK(b, r)
  BY <1>1, <1>2, <1>3, <1>4, <1>8, ZeroAligned DEF RegionOK
<1>11. ASSUME NEW i \in 1..Len(a.regions)
       PROVE  RegionOK(b, a.regions[i]) /\ Apart(a.regions[i], r)
  <2>1. RegionOK(a, a.regions[i])
    BY OldRegions
  <2> HIDE DEF n
  <2> QED BY <1>2, <1>3, <1>4, <1>8, <2>1 DEF RegionOK, Apart
<1>12. b.regions = Append(a.regions, r)
  BY <1>8 DEF more
<1>13. ArenaOK(b)
  BY <1>2, <1>3, <1>8, <1>9, <1>10, <1>11, <1>12, OneMoreRegion
<1> QED BY <1>13 DEF b

LEMMA FallbackOK ==
  ASSUME NEW a, ArenaOK(a), NEW bytes \in Nat \ {0}, NEW aligned \in BOOLEAN
  PROVE  ArenaOK(AllocateFallback(a, bytes, aligned))
<1>1. CASE bytes > kBlockSize \div 4
  BY <1>1, OwnBlockOK DEF AllocateFallback
<1>2. CASE ~(bytes > kBlockSize \div 4)
  <2>1. bytes <= kBlockSize
    BY <1>2, MemAssumption
  <2> QED BY <1>2, <2>1, NextBlockOK DEF AllocateFallback
<1> QED BY <1>1, <1>2

LEMMA AllocateOK ==
  ASSUME NEW a, ArenaOK(a), NEW bytes \in Nat \ {0}
  PROVE  ArenaOK(Allocate(a, bytes))
<1>1. CASE bytes <= a.remaining
  <2>1. bytes + 0 <= a.remaining
    BY <1>1
  <2> QED BY <1>1, <2>1, BumpOK DEF Allocate
<1>2. CASE ~(bytes <= a.remaining)
  BY <1>2, FallbackOK DEF Allocate
<1> QED BY <1>1, <1>2

LEMMA AllocateAlignedOK ==
  ASSUME NEW a, ArenaOK(a), NEW bytes \in Nat \ {0}
  PROVE  ArenaOK(AllocateAligned(a, bytes))
<1>1. /\ Slop(a) \in Nat
      /\ a.ptr # NULL => Aligned(a.ptr.offset + Slop(a))
  <2>1. CASE a.ptr = NULL
    BY <2>1 DEF Slop
  <2>2. CASE a.ptr # NULL
    <3>1. a.ptr.offset \in Nat
      BY <2>2 DEF ArenaOK, Arenas
    <3> QED BY <2>2, <3>1, SlopAligns DEF Slop, Aligned
  <2> QED BY <2>1, <2>2
<1>2. CASE bytes + Slop(a) <= a.remaining
  BY <1>1, <1>2, BumpOK DEF AllocateAligned
<1>3. CASE ~(bytes + Slop(a) <= a.remaining)
  BY <1>3, FallbackOK DEF AllocateAligned
<1> QED BY <1>2, <1>3

LEMMA NewNodeOK ==
  ASSUME NEW a, ArenaOK(a), NEW height \in 1..kMaxHeight
  PROVE  ArenaOK(NewNode(a, height))
<1>1. NodeBytes \in Nat \ {0} /\ PointerBytes \in Nat /\ kMaxHeight \in Nat
  BY MemAssumption
<1>2. PointerBytes * (height - 1) \in Nat
  <2>1. height - 1 \in Nat
    BY <1>1
  <2> HIDE DEF NewNode
  <2> QED BY <1>1, <2>1
<1>3. NodeBytes + PointerBytes * (height - 1) \in Nat \ {0}
  BY <1>1, <1>2
<1> QED BY <1>3, AllocateAlignedOK DEF NewNode

LEMMA EmptyArenaOK == ArenaOK(EmptyArena)
<1>1. EmptyArena \in Arenas
  BY DEF EmptyArena, Arenas
<1>2. EmptyArena.usage = BlocksUsage(EmptyArena.blocks)
  BY UsageOfNone DEF EmptyArena
<1>3. Len(EmptyArena.regions) = 0 /\ EmptyArena.ptr = NULL /\ EmptyArena.remaining = 0
  BY DEF EmptyArena
<1> QED BY <1>1, <1>2, <1>3 DEF ArenaOK, FreeOK

LEMMA ArenaStep ==
  ASSUME ArenaOK(arena), InsertOK, MemNext \/ UNCHANGED memVars
  PROVE  ArenaOK(arena)'
<1>1. ASSUME NEW u \in UserKeys, NEW t \in {kTypeDeletion, kTypeValue}, Add(u, t)
      PROVE  ArenaOK(arena)'
  <2>1. EncodedLen(t) \in Nat \ {0}
    BY MemAssumption DEF EncodedLen
  <2>2. ArenaOK(Allocate(arena, EncodedLen(t)))
    BY <2>1, AllocateOK
  <2>3. arena' = Allocate(arena, EncodedLen(t))
    BY <1>1 DEF Add
  <2>4. PICK b : b = Allocate(arena, EncodedLen(t))
    OBVIOUS
  <2> QED BY <2>2, <2>3, <2>4 DEF ArenaOK, Arenas, FreeOK, RegionOK, Apart, BlocksUsage
<1>2. ASSUME FoundPrev PROVE ArenaOK(arena)'
  <2>1. PICK height \in RandomHeight : arena' = NewNode(arena, height)
    BY <1>2 DEF FoundPrev
  <2>2. ArenaOK(NewNode(arena, height))
    BY NewNodeOK DEF RandomHeight
  <2> QED BY <2>1, <2>2 DEF ArenaOK, Arenas, FreeOK, RegionOK, Apart
<1>3. ASSUME arena' = arena PROVE ArenaOK(arena)'
  BY <1>3 DEF ArenaOK, Arenas, FreeOK, RegionOK, Apart
<1> QED BY <1>1, <1>2, <1>3 DEF MemNext, FindNext, FindBelow, Grow, Link, Seek, Prev, SeekToLast,
     Begin, WalkStep, NextEntry, End, memVars

-----------------------------------------------------------------------------
(* The invariant holds, and the memtable is consistent.                       *)
LEMMA MemInitInv == MemInit => MemInv
<1> SUFFICES ASSUME MemInit PROVE MemInv
  OBVIOUS
<1> DEFINE none == [l \in 0..kMaxHeight - 1 |-> NULL]
<1>1. /\ nodes = [next |-> [n \in {HeadNode} |-> none], height |-> 1]
      /\ insert = [pc |-> "idle"] /\ walk = [w \in Walkers |-> IdleWalk]
  BY DEF MemInit
<1>2. kMaxHeight \in Nat /\ kMaxHeight >= 1
  BY MemAssumption
<1>3. /\ Nodes = {HeadNode} /\ nodes.height = 1 /\ nodes.next = [n \in {HeadNode} |-> none]
      /\ nodes.next[HeadNode] = none /\ HeadNode.seq = 0
  BY <1>1 DEF Nodes, HeadNode, InternalKey
<1>4. IsFiniteSet(Nodes) /\ Cardinality(Nodes) = 1
  BY <1>3, FS_Singleton
<1>5. NodesOK
  <2>1. DOMAIN none = 0..kMaxHeight - 1 /\ none = [l \in DOMAIN none |-> none[l]]
        /\ \A l \in DOMAIN none : none[l] = NULL
    OBVIOUS
  <2>2. \A l \in nodes.height..kMaxHeight - 1 : nodes.next[HeadNode][l] = NULL
    BY <1>2, <1>3
  <2> HIDE DEF none
  <2> QED BY <1>1, <1>2, <1>3, <1>4, <2>1, <2>2 DEF NodesOK, Levels
<1>6. ASSUME NEW l \in 0..kMaxHeight - 1 PROVE OnLevel(l) = {HeadNode} /\ nodes.next[HeadNode][l] = NULL
  <2>1. none[l] = NULL
    OBVIOUS
  <2> HIDE DEF none
  <2> QED BY <1>3, <2>1, HeadIsKeyed DEF OnLevel
<1>7. LevelsAreSublists
  <2>1. \A l \in 1..kMaxHeight - 1 : l \in 0..kMaxHeight - 1 /\ l - 1 \in 0..kMaxHeight - 1
    BY <1>2
  <2> QED BY <1>6, <2>1 DEF LevelsAreSublists, IsNextIn, Follows
<1>8. InsertOK /\ WalksOK
  BY <1>1 DEF InsertOK, WalksOK
<1>9. ArenaOK(arena)
  <2>1. kMaxHeight \in 1..kMaxHeight
    BY <1>2
  <2>2. ArenaOK(NewNode(EmptyArena, kMaxHeight))
    BY <2>1, EmptyArenaOK, NewNodeOK
  <2> QED BY <2>2 DEF MemInit
<1> QED BY <1>5, <1>7, <1>8, <1>9 DEF MemInv

LEMMA MemStepInv ==
  ASSUME MemInv, [MemNext]_memVars
  PROVE  MemInv'
<1>1. NodesOK /\ LevelsAreSublists /\ InsertOK /\ WalksOK /\ ArenaOK(arena)
  BY DEF MemInv
<1>2. ArenaOK(arena)'
  BY <1>1, ArenaStep
<1>3. nodes.height \in Nat
  BY <1>1 DEF NodesOK
<1>4. nodes' = nodes => NodesOK' /\ LevelsAreSublists'
  BY <1>1, SameNodes
<1>5. nodes' = nodes /\ walk' = walk => WalksOK'
  BY <1>1, <1>3, SameWalks
<1>6. ASSUME nodes' = nodes, insert' = insert PROVE InsertOK'
  <2>1. Nodes' = Nodes /\ Levels' = Levels /\ InsertRecords' = InsertRecords
    BY <1>6 DEF Nodes, Levels, InsertRecords
  <2>2. \A l : OnLevel(l)' = OnLevel(l)
    BY <1>6 DEF OnLevel
  <2>3. Finding => Finding'
    BY <1>6, <2>1, <2>2 DEF Finding, IsPrev
  <2>4. Linking => Linking'
    BY <1>6, <2>1, <2>2 DEF Linking, IsPrev
  <2> QED BY <1>1, <1>6, <2>1, <2>3, <2>4 DEF InsertOK
<1>7. ASSUME NEW u \in UserKeys, NEW t \in {kTypeDeletion, kTypeValue}, Add(u, t) PROVE MemInv'
  <2>1. nodes' = nodes /\ walk' = walk
    BY <1>7 DEF Add
  <2>2. InsertOK'
    BY <1>1, <1>7, AddStep
  <2> QED BY <1>2, <1>4, <1>5, <2>1, <2>2 DEF MemInv
<1>8. ASSUME FindNext \/ FindBelow \/ FoundPrev PROVE MemInv'
  <2>1. nodes' = nodes /\ walk' = walk
    BY <1>8 DEF FindNext, FindBelow, FoundPrev
  <2>2. InsertOK'
    BY <1>1, <1>8, FindNextStep, FindBelowStep, FoundStep
  <2> QED BY <1>2, <1>4, <1>5, <2>1, <2>2 DEF MemInv
<1>9. ASSUME Grow PROVE MemInv'
  <2>1. walk' = walk
    BY <1>9 DEF Grow
  <2>2. /\ NodesOK' /\ LevelsAreSublists' /\ InsertOK' /\ nodes'.next = nodes.next
        /\ nodes'.height \in Nat /\ nodes'.height >= nodes.height
    BY <1>1, <1>9, GrowStep
  <2>3. WalksOK'
    BY <1>1, <2>1, <2>2, SameWalks
  <2> QED BY <1>2, <2>2, <2>3 DEF MemInv
<1>10. ASSUME Link PROVE MemInv'
  <2>1. AtLink
    BY <1>1, <1>10 DEF AtLink
  <2> QED BY <1>1, <1>2, <2>1, LinkKeepsNodes, LinkKeepsLevels, LinkKeepsInsert, LinkKeepsWalks
          DEF MemInv
<1>11. ASSUME NEW w \in Walkers, nodes' = nodes, insert' = insert, WalksOK' PROVE MemInv'
  BY <1>2, <1>4, <1>6, <1>11 DEF MemInv
<1>12. ASSUME NEW w \in Walkers, NEW u \in UserKeys, NEW s \in 0..Cardinality(LinkedNodes), Seek(w, u, s)
       PROVE  MemInv'
  <2> DEFINE key == LookupKey(u, s)
  <2>1. /\ key \in Keyed /\ key.seq <= Cardinality(LinkedNodes) /\ key.type = kTypeValue
    <3>1. LinkedNodes \subseteq Nodes /\ IsFiniteSet(Nodes)
      BY <1>1, LinkedAreOnLevel DEF NodesOK
    <3>2. Cardinality(LinkedNodes) \in Nat
      BY <3>1, FS_Subset, FS_CardinalityType
    <3>3. s \in Nat /\ s <= Cardinality(LinkedNodes) /\ u \in Int
      BY <3>2, MemAssumption
    <3> QED BY <3>3 DEF LookupKey, InternalKey, kValueTypeForSeek, Keyed
  <2> HIDE DEF key
  <2>2. Begin(w, "seek", key)
    BY <1>12 DEF Seek, key
  <2>3. WalksOK'
    BY <1>1, <2>1, <2>2, BeginStep
  <2>4. nodes' = nodes /\ insert' = insert
    BY <2>2 DEF Begin
  <2> QED BY <1>11, <2>3, <2>4
<1>13. ASSUME NEW w \in Walkers, NEW k \in LinkedNodes, Prev(w, k) PROVE MemInv'
  <2>1. Begin(w, "less", k) /\ k \in Keyed /\ k # HeadNode
    BY <1>1, <1>13, LinkedAreOnLevel, NodeKeysAreKeyed, HeadIsKeyed DEF Prev
  <2>2. WalksOK'
    BY <1>1, <2>1, BeginStep
  <2>3. nodes' = nodes /\ insert' = insert
    BY <2>1 DEF Begin
  <2> QED BY <1>11, <2>2, <2>3
<1>14. ASSUME NEW w \in Walkers, SeekToLast(w) PROVE MemInv'
  <2>1. Begin(w, "last", NULL)
    BY <1>14 DEF SeekToLast
  <2>2. WalksOK'
    BY <1>1, <2>1, BeginStep
  <2>3. nodes' = nodes /\ insert' = insert
    BY <2>1 DEF Begin
  <2> QED BY <1>11, <2>2, <2>3
<1>15. ASSUME NEW w \in Walkers, WalkStep(w) \/ NextEntry(w) \/ End(w) PROVE MemInv'
  <2>1. nodes' = nodes /\ insert' = insert
    BY <1>15 DEF WalkStep, NextEntry, End
  <2>2. WalksOK'
    BY <1>1, <1>15, WalkStepStep, NextEntryStep, EndStep
  <2> QED BY <1>11, <2>1, <2>2
<1>16. CASE UNCHANGED memVars
  BY <1>2, <1>4, <1>5, <1>6, <1>16 DEF memVars, MemInv
<1> QED BY <1>7, <1>8, <1>9, <1>10, <1>12, <1>13, <1>14, <1>15, <1>16 DEF MemNext

(* What Seek stops at is the newest entry that the lookup may see.            *)
LEMMA NewestFound ==
  ASSUME MemInv, NEW c, WalkOK(c), c.pc = "done", c.call = "seek"
  PROVE  LET seen == {k \in LinkedNodes : k.user = c.key.user /\ k.seq <= c.key.seq}
         IN  GetResult(c) = IF seen = {} THEN NULL ELSE Least(seen, Before)
<1> DEFINE key == c.key
           result == c.result
           seen == {k \in LinkedNodes : k.user = key.user /\ k.seq <= key.seq}
<1>1. /\ key \in Keyed /\ key.type = kTypeValue /\ result \in LinkedNodes \cup {NULL}
      /\ \A k \in LinkedNodes : k.seq <= key.seq => k \in c.before
      /\ result # NULL => ~Before(result, key)
      /\ \A k \in c.before : ~Between(k, c)
  BY DEF WalkOK, WalkRecords, Published
<1>2. LinkedNodes \subseteq NodeKeys /\ LinkedNodes \subseteq Keyed /\ NULL \notin LinkedNodes
  BY LinkedAreOnLevel, NodeKeysAreKeyed DEF MemInv
<1>3. ASSUME NEW k \in Keyed
      PROVE  /\ k.user \in Int /\ k.seq \in Nat
             /\ k.user = key.user => (Before(k, key) <=> ~(k.seq <= key.seq))
  <2>1. /\ k.user \in Int /\ k.seq \in Nat /\ k.type \in {0, 1}
        /\ key.user \in Int /\ key.seq \in Nat /\ key.type = 1
    BY <1>1 DEF Keyed, kTypeDeletion, kTypeValue
  <2>2. Trailer(k) = k.seq * 256 + k.type /\ Trailer(key) = key.seq * 256 + 1
    BY <2>1 DEF Trailer, PackSequenceAndType
  <2>3. Trailer(k) > Trailer(key) <=> ~(k.seq <= key.seq)
    BY <2>1, <2>2
  <2> QED BY <2>1, <2>3 DEF Before
<1> HIDE DEF key, result
<1>4. ASSUME NEW k \in seen
      PROVE  result # NULL /\ (result = k \/ Before(result, k))
  <2>1. k \in Keyed /\ k \in c.before /\ ~Before(k, key)
    BY <1>1, <1>2, <1>3
  <2>2. result # NULL /\ ~Before(k, result)
    BY <1>1, <2>1 DEF Between, key, result
  <2> QED BY <1>1, <1>2, <2>1, <2>2, BeforeOrder
<1>5. CASE seen = {}
  <2>1. result # NULL => result.user # key.user
    BY <1>1, <1>2, <1>3, <1>5
  <2> QED BY <1>5, <2>1 DEF GetResult, key, result
<1>6. CASE seen # {}
  <2>1. PICK k \in seen : TRUE
    BY <1>6
  <2>2. result \in LinkedNodes /\ result \in Keyed /\ ~Before(result, key)
    BY <1>1, <1>2, <1>4, <2>1
  <2>3. result.user = key.user
    <3>1. CASE result = k
      BY <2>1, <3>1
    <3>2. CASE Before(result, k)
      <4>1. result.user <= k.user
        BY <1>2, <1>3, <2>1, <2>2, <3>2 DEF Before
      <4>2. key.user <= result.user
        BY <1>1, <1>3, <2>2 DEF Before
      <4> QED BY <1>1, <1>3, <2>1, <2>2, <4>1, <4>2
    <3> QED BY <1>4, <2>1, <3>1, <3>2
  <2>4. result \in seen
    BY <1>3, <2>2, <2>3
  <2>5. \A y \in seen \ {result} : Before(result, y)
    BY <1>4
  <2>6. \A x \in seen : (\A y \in seen \ {x} : Before(x, y)) => x = result
    BY <1>2, <2>4, <2>5, BeforeOrder
  <2>7. Least(seen, Before) = result
    BY <2>4, <2>5, <2>6 DEF Least
  <2>8. GetResult(c) = result
    BY <1>2, <2>2, <2>3 DEF GetResult, key, result
  <2> QED BY <1>6, <2>7, <2>8 DEF key
<1> QED BY <1>5, <1>6

LEMMA MemInvConsistent ==
  ASSUME MemInv
  PROVE  MemTableConsistent
<1>1. NodesOK /\ LevelsAreSublists /\ WalksOK /\ ArenaOK(arena)
  BY DEF MemInv
<1>2. ASSUME NEW w \in Walkers, walk[w].pc = "done" PROVE WalkOK(walk[w])
  BY <1>1, <1>2 DEF WalksOK, IdleWalk
<1>3. NoEntrySkipped
  BY <1>2 DEF NoEntrySkipped, WalkOK
<1>4. GetReturnsNewest
  BY <1>2, NewestFound DEF GetReturnsNewest
<1>5. RegionsApart
  <2>1. arena.regions \in Seq(Regions) /\ DOMAIN arena.regions = 1..Len(arena.regions)
    BY <1>1, LenProperties DEF ArenaOK, Arenas
  <2> QED BY <1>1, <2>1 DEF RegionsApart, ArenaOK, RegionOK, Apart, Aligned
<1> QED BY <1>1, <1>3, <1>4, <1>5 DEF MemTableConsistent

(* At any point of an insertion every level is the ordered list of its nodes, *)
(* no reader skips an entry that was there when its call began, a Get returns *)
(* the newest entry it may see, and what the arena hands out is apart         *)
(* (db/skiplist.h, db/memtable.cc:108, util/arena.cc).                        *)
THEOREM MemTableIsConsistent == MemSpec => []MemTableConsistent
<1>1. MemInit => MemInv
  BY MemInitInv
<1>2. MemInv /\ [MemNext]_memVars => MemInv'
  BY MemStepInv
<1>3. MemInv => MemTableConsistent
  BY MemInvConsistent
<1> QED BY <1>1, <1>2, <1>3, PTL DEF MemSpec

=============================================================================
