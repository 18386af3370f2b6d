----------------------------- MODULE FileNames -------------------------------
(***************************************************************************)
(* The names of a leveldb database's files (db/filename.cc) and the        *)
(* numbers in them (util/logging.cc), and DestroyDB (db/db_impl.cc), which *)
(* deletes what has one of these names.  A name is the part before its     *)
(* digits, the digits, and the part after them.                            *)
(***************************************************************************)
EXTENDS Integers, Sequences, FiniteSets

CONSTANTS None,
          Base,                \* 10
          kMaxUint,            \* the largest uint64_t
          Pad,                 \* %06llu: at least this many digits
          UsedNumbers,         \* file numbers in use
          Foreign,             \* names of files of others in the directory
          MaxFiles, MaxErrors

VARIABLES dir,                 \* the names in the directory, or None: no directory
          phase,               \* DestroyDB: the call of Env it makes next, or "idle"
          filenames,           \* the names it has yet to look at
          result,              \* its status; "none" when it found no names
          deleted,             \* the names it has deleted
          errors               \* how many of its calls failed

nameVars == <<dir, phase, filenames, result, deleted, errors>>

Power[k \in Nat] == IF k = 0 THEN 1 ELSE Base * Power[k - 1]

(* Digits of a number, with leading zeros up to n of them. *)
Digits(number, n) ==
  LET len == CHOOSE k \in 1..kMaxUint + 1 : number < Power[k] /\ (k > 1 => number >= Power[k - 1])
      all == IF len < n THEN n ELSE len
  IN  [i \in 1..all |-> (number \div Power[all - i]) % Base]

FileName(kind, number) ==
  CASE kind \in {"log", "ldb", "sst", "dbtmp"} -> <<"", Digits(number, Pad), kind>>
    [] kind = "MANIFEST-" -> <<kind, Digits(number, Pad), "">>
    [] OTHER -> <<kind, <<>>, "">>

Single == {"CURRENT", "LOCK", "LOG", "LOG.old"}
FileType(kind) ==
  CASE kind \in {"ldb", "sst"} -> "table"
    [] kind \in {"LOG", "LOG.old"} -> "info log"
    [] OTHER -> kind

\* Mutant of ConsumeDecimalNumber: a value that is too large wraps around.
ConsumeDecimalNumber_Wraps(digits) ==
  LET v[n \in 0..Len(digits)] ==
        IF n = 0 THEN 0 ELSE (v[n - 1] * Base + digits[n]) % (kMaxUint + 1)
  IN  IF digits = <<>> THEN None ELSE v[Len(digits)]

(* ConsumeDecimalNumber: None when there is no digit, or too large a value. *)
ConsumeDecimalNumber(digits) ==
  LET v[n \in 0..Len(digits)] ==
        IF n = 0 THEN 0
        ELSE CASE v[n - 1] = None -> None
               [] v[n - 1] # None /\ \/ v[n - 1] > kMaxUint \div Base
                                     \/ /\ v[n - 1] = kMaxUint \div Base
                                        /\ digits[n] > kMaxUint % Base -> None
               [] OTHER -> v[n - 1] * Base + digits[n]
  IN  IF digits = <<>> THEN None ELSE v[Len(digits)]

(* ParseFileName: the type and the number, or None. *)
ParseFileName(name) ==
  LET number == ConsumeDecimalNumber(name[2])
  IN  CASE name[1] \in Single /\ name[2] = <<>> /\ name[3] = "" -> <<FileType(name[1]), 0>>
        [] name[1] = "MANIFEST-" /\ number # None /\ name[3] = "" -> <<"MANIFEST-", number>>
        [] name[1] = "" /\ number # None /\ name[3] \in {"log", "sst", "ldb", "dbtmp"} ->
             <<FileType(name[3]), number>>
        [] OTHER -> None

FileTypes == Single \cup {"log", "ldb", "sst", "dbtmp", "MANIFEST-"}
Own == {FileName(kind, n) : kind \in FileTypes, n \in UsedNumbers}
LOCK == FileName("LOCK", 0)

(* The form of a database's names (db/filename.cc:68, and TempFileName):   *)
(* their digits are a number, for what they are worth, counted without any *)
(* limit, is at most the largest one.  Foreign names are not of this form. *)
Worth(digits) ==
  LET v[n \in 0..Len(digits)] == IF n = 0 THEN 0 ELSE v[n - 1] * Base + digits[n]
  IN  v[Len(digits)]

Numbered(digits) == digits # <<>> /\ Worth(digits) <= kMaxUint

OwnedForm(name) ==
  \/ name[1] \in Single /\ name[2] = <<>> /\ name[3] = ""
  \/ name[1] = "MANIFEST-" /\ Numbered(name[2]) /\ name[3] = ""
  \/ name[1] = "" /\ Numbered(name[2]) /\ name[3] \in {"log", "sst", "ldb", "dbtmp"}

ASSUME NamesAssumption ==
  /\ Base \in Nat /\ Base >= 2 /\ kMaxUint \in Nat /\ Pad \in Nat
  /\ UsedNumbers \subseteq 0..kMaxUint /\ UsedNumbers # {}
  /\ \A name \in Foreign : name[2] \in Seq(0..Base - 1) /\ ~OwnedForm(name)

\* None is no number, no pair of a type and a number, and no set of names.
ASSUME NoneAssumption ==
  /\ None \notin 0..kMaxUint
  /\ None \notin {<<FileType(kind), n>> : kind \in FileTypes, n \in 0..kMaxUint}
  /\ \A names \in SUBSET (Own \cup Foreign \cup {LOCK}) : None # names

-----------------------------------------------------------------------------
NoCall == phase = "idle" /\ filenames = {} /\ result = "none" /\ deleted = {} /\ errors = 0

NameInit ==
  /\ \/ dir = None
     \/ \E names \in SUBSET (Own \cup Foreign), lock \in {{}, {LOCK}} :
          Cardinality(names) <= MaxFiles /\ dir = names \cup lock
  /\ NoCall

OneFails == errors < MaxErrors /\ errors' = errors + 1

(* DestroyDB lists the directory: no names, and so nothing to do, when     *)
(* there is none or the listing fails ...                                  *)
ListNames ==
  /\ phase = "idle"
  /\ \/ /\ dir # None
        /\ filenames' = dir /\ phase' = "lock"
        /\ UNCHANGED <<result, errors>>
     \/ /\ \/ dir = None /\ UNCHANGED errors
           \/ dir # None /\ OneFails
        /\ result' = "none"
        /\ UNCHANGED <<filenames, phase>>
  /\ UNCHANGED <<dir, deleted>>

(* ... and locks LOCK, which open creates, whether fcntl locks it or not ... *)
LockFile ==
  /\ phase = "lock"
  /\ \/ /\ dir' = dir \cup {LOCK} /\ result' = "ok" /\ phase' = "files"
        /\ UNCHANGED <<filenames, errors>>
     \/ /\ OneFails
        /\ dir' \in {dir, dir \cup {LOCK}} /\ result' = "error" /\ phase' = "idle"
        /\ filenames' = {}
  /\ UNCHANGED deleted

(* ... and deletes the database's files, and goes on when it cannot ... *)
DeleteOne ==
  /\ phase = "files"
  /\ \E name \in filenames :
       /\ filenames' = filenames \ {name}
       /\ IF ParseFileName(name) = None \/ name = LOCK
          THEN UNCHANGED <<dir, result, deleted, errors>>
          ELSE \/ /\ dir' = dir \ {name} /\ deleted' = deleted \cup {name}
                  /\ UNCHANGED <<result, errors>>
               \/ /\ OneFails
                  /\ result' = "error"
                  /\ UNCHANGED <<dir, deleted>>
  /\ UNCHANGED phase

(* ... LOCK last, whose status is ignored ... *)
DeleteLock ==
  /\ phase = "files" /\ filenames = {}
  /\ \/ /\ dir' = dir \ {LOCK} /\ deleted' = deleted \cup {LOCK}
        /\ UNCHANGED errors
     \/ OneFails /\ UNCHANGED <<dir, deleted>>
  /\ phase' = "dir"
  /\ UNCHANGED <<filenames, result>>

(* ... and so is that of the directory, which goes if nothing is left in it. *)
DeleteDir ==
  /\ phase = "dir"
  /\ \/ dir' = (IF dir = {} THEN None ELSE dir) /\ UNCHANGED errors
     \/ (dir = {} /\ OneFails) /\ UNCHANGED dir
  /\ phase' = "idle"
  /\ UNCHANGED <<filenames, result, deleted>>

NameNext == ListNames \/ LockFile \/ DeleteOne \/ DeleteLock \/ DeleteDir

NameSpec == NameInit /\ [][NameNext]_nameVars

(* A name leads back to the type and the number it was made of. *)
NamesLeadBack ==
  \A kind \in FileTypes, n \in UsedNumbers :
    ParseFileName(FileName(kind, n)) = <<FileType(kind), IF kind \in Single THEN 0 ELSE n>>

(* Whatever number a file has, its name leads back to it and to its type;  *)
(* DestroyDB deletes the database's files and no others, and when it found *)
(* names and returns OK none of them remain, but for LOCK, whose deletion  *)
(* may have failed unnoticed (db/db_impl.cc:1537, 1562).                   *)
DestroysOnlyOwn ==
  /\ NamesLeadBack
  /\ deleted \subseteq Own
  /\ phase = "idle" /\ result = "ok" =>
       \/ dir = None \/ dir \subseteq Foreign
       \/ errors > 0 /\ dir \subseteq Foreign \cup {LOCK}

=============================================================================
