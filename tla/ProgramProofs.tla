---------------------------- MODULE ProgramProofs ----------------------------
(****************************************************************************)
(* What three of the course programs keep: the copy program and the menu,   *)
(* whatever reads, writes, forks and execlps fail, for files of any length  *)
(* and any number of processes, and the simulators of branch predictors,    *)
(* for every size of the buffers, every set of addresses and every trace.   *)
(****************************************************************************)
EXTENDS FileCopy, FunctionList, BranchPredictor, SequenceTheorems, FiniteSetTheorems, TLAPS
------------------------------------------------------------------------------
(* The copy program and the menu. *)

(* The first n bytes of file1, which is all file2 ever is.                    *)
Start(n) == SubSeq(file1, 1, n)

CopyTypeOK ==
  /\ file1 \in Sources
  /\ pc \in {"out", "read", "write", "report"}
  /\ total_bytes \in Nat /\ at \in Nat
  /\ copied \in {0, 1}
  /\ readFailed \in BOOLEAN

(* The program that runs has both files.  What it has written is the start of *)
(* file1 up to total_bytes, and the buffer is what follows, up to at.         *)
Progress ==
  pc # "out" =>
    /\ file1 # NoFile
    /\ total_bytes <= at /\ at <= Len(file1)
    /\ file2 = Start(total_bytes)
    /\ buffer = SubSeq(file1, total_bytes + 1, at) \/ pc # "write"
    /\ pc # "write" => total_bytes = at
    /\ pc = "report" /\ ~readFailed => at = Len(file1)

(* What a run leaves, and that only the first with a file1 gets that far.     *)
Left ==
  /\ file2 # NoFile => file1 # NoFile /\ \E n \in 0..Len(file1) : file2 = Start(n)
  /\ copied = 1 => pc = "out" /\ file2 # NoFile

CopyInv == CopyTypeOK /\ Progress /\ Left

(* What the assumption on the constants says of file1.                        *)
LEMMA FileIsSeq ==
  ASSUME file1 \in Sources, file1 # NoFile
  PROVE  /\ Len(file1) \in Nat
         /\ file1 \in Seq({file1[i] : i \in DOMAIN file1})
         /\ \A n \in 0..Len(file1) : Start(n) # NoFile
BY CopyAssumption, LenProperties DEF Start

(* A start of file1 and the bytes after it are a longer start.                *)
LEMMA StartGrows ==
  ASSUME file1 \in Sources, file1 # NoFile,
         NEW m \in 0..Len(file1), NEW n \in m..Len(file1)
  PROVE  Start(m) \o SubSeq(file1, m + 1, n) = Start(n)
<1> DEFINE S == {file1[i] : i \in DOMAIN file1}
<1>1. file1 \in Seq(S) /\ Len(file1) \in Nat
  BY FileIsSeq
<1> HIDE DEF S
<1>2. CASE m = 0
  BY <1>1, <1>2, SubSeqEmpty, SubSeqProperties, ConcatEmptySeq DEF Start
<1>3. CASE m # 0
  BY <1>1, <1>3, ConcatAdjacentSubSeq DEF Start
<1> QED BY <1>2, <1>3

(* The first k bytes of the buffer end at the place k after its begin.        *)
LEMMA PartOfBuffer ==
  ASSUME file1 \in Sources, file1 # NoFile,
         NEW m \in 0..Len(file1), NEW n \in m..Len(file1), NEW k \in 0..(n - m)
  PROVE  /\ Len(SubSeq(file1, m + 1, n)) = n - m
         /\ SubSeq(SubSeq(file1, m + 1, n), 1, k) = SubSeq(file1, m + 1, m + k)
<1> DEFINE S == {file1[i] : i \in DOMAIN file1}
<1>1. file1 \in Seq(S) /\ Len(file1) \in Nat
  BY FileIsSeq
<1> HIDE DEF S
<1>2. Len(SubSeq(file1, m + 1, n)) = n - m
  BY <1>1, SubSeqProperties
<1>3. SubSeq(file1, m + 1, n) \in Seq(S)
  BY <1>1, SubSeqProperties
<1>4. SubSeq(SubSeq(file1, m + 1, n), 1, k) = SubSeq(file1, m + 1, m + k)
  BY <1>1, <1>2, <1>3, SubSeqProperties, SubSeqEmpty
<1> QED BY <1>2, <1>4

LEMMA CopyInitInv == ASSUME CopyInit PROVE CopyInv
<1>1. CopyTypeOK
  BY DEF CopyInit, CopyTypeOK
<1>2. Progress /\ Left
  BY DEF CopyInit, Progress, Left
<1> QED BY <1>1, <1>2 DEF CopyInv

LEMMA CopyStepInv == ASSUME CopyInv, [CopyNext]_copyVars PROVE CopyInv'
<1> USE DEF CopyInv, CopyTypeOK
<1>1. CASE OpenFiles
  <2>1. CASE file1 # NoFile /\ file2 = NoFile
    <3>1. Len(file1) \in Nat /\ Start(0) = <<>> /\ <<>> # NoFile
      <4>1. SubSeq(file1, 1, 0) = <<>>
        BY FileIsSeq, SubSeqEmpty, <2>1
      <4>2. Len(file1) \in Nat /\ Start(0) # NoFile
        BY <2>1, FileIsSeq
      <4> QED BY <4>1, <4>2 DEF Start
    <3>2. copied = 0
      BY <2>1 DEF Left
    <3>3. pc' = "read" /\ file2' = <<>> /\ at' = 0 /\ total_bytes' = 0 /\ readFailed' = FALSE
      BY <1>1, <2>1 DEF OpenFiles
    <3>4. UNCHANGED <<file1, copied>>
      BY <1>1 DEF OpenFiles
    <3>5. Progress'
      BY <2>1, <3>1, <3>3, <3>4 DEF Progress, Start
    <3>6. Left'
      BY <2>1, <3>1, <3>2, <3>3, <3>4 DEF Left, Start
    <3> QED BY <3>2, <3>3, <3>4, <3>5, <3>6
  <2>2. CASE ~(file1 # NoFile /\ file2 = NoFile)
    BY <1>1, <2>2 DEF OpenFiles, Progress, Left, Start
  <2> QED BY <2>1, <2>2
<1>2. CASE ReadBlock
  <2>1. file1 # NoFile /\ Len(file1) \in Nat
    BY <1>2, FileIsSeq DEF ReadBlock, Progress
  <2>2. PICK n \in (IF Len(file1) - at = 0 THEN {0}
                     ELSE 1..(IF Len(file1) - at < BUFFER_SIZE THEN Len(file1) - at ELSE BUFFER_SIZE)) :
          /\ buffer' = SubSeq(file1, at + 1, at + n)
          /\ at' = at + n
          /\ pc' = IF n > 0 THEN "write" ELSE "report"
    BY <1>2 DEF ReadBlock
  <2>3. n \in 0..(Len(file1) - at) /\ (n = 0 => at = Len(file1))
    BY <1>2, <2>1, <2>2, CopyAssumption DEF ReadBlock, Progress
  <2> QED BY <1>2, <2>1, <2>2, <2>3 DEF ReadBlock, Progress, Left, Start
<1>3. CASE ReadFails
  BY <1>3 DEF ReadFails, Progress, Left, Start
<1>4. CASE WriteBlock
  <2>1. /\ file1 # NoFile /\ Len(file1) \in Nat
        /\ total_bytes \in 0..Len(file1) /\ at \in total_bytes..Len(file1)
        /\ buffer = SubSeq(file1, total_bytes + 1, at)
    BY <1>4, FileIsSeq DEF WriteBlock, Progress
  <2>2. file2' = Start(at)
    <3>1. file2 = Start(total_bytes) /\ file2' = file2 \o buffer
      BY <1>4 DEF WriteBlock, Progress
    <3> QED BY <2>1, <3>1, StartGrows
  <2>3. Len(buffer) = at - total_bytes
    BY <2>1, PartOfBuffer
  <2>4. total_bytes' = at /\ pc' = "read" /\ UNCHANGED <<file1, at, buffer, copied, readFailed>>
    BY <1>4, <2>1, <2>3 DEF WriteBlock
  <2>5. Start(at) # NoFile /\ at \in 0..Len(file1)
    BY <2>1, FileIsSeq
  <2>6. Progress'
    BY <2>1, <2>2, <2>4, <2>5 DEF Progress, Start
  <2>7. Left'
    BY <1>4, <2>1, <2>2, <2>4, <2>5 DEF WriteBlock, Left, Start
  <2> QED BY <2>1, <2>4, <2>6, <2>7
<1>5. CASE WriteFails
  <2>1. /\ file1 # NoFile /\ Len(file1) \in Nat
        /\ total_bytes \in 0..Len(file1) /\ at \in total_bytes..Len(file1)
        /\ buffer = SubSeq(file1, total_bytes + 1, at)
    BY <1>5, FileIsSeq DEF WriteFails, Progress
  <2>2. Len(buffer) = at - total_bytes
    BY <2>1, PartOfBuffer
  <2>3. PICK k \in 0..Len(buffer) - 1 : file2' = file2 \o SubSeq(buffer, 1, k)
    BY <1>5 DEF WriteFails
  <2>4. k \in 0..(at - total_bytes) /\ total_bytes + k \in total_bytes..Len(file1)
    BY <2>1, <2>2, <2>3
  <2>5. file2' = Start(total_bytes + k)
    <3>1. SubSeq(buffer, 1, k) = SubSeq(file1, total_bytes + 1, total_bytes + k)
      BY <2>1, <2>4, PartOfBuffer
    <3> QED BY <1>5, <2>1, <2>3, <2>4, <3>1, StartGrows DEF WriteFails, Progress
  <2>6. file2' # NoFile /\ total_bytes + k \in 0..Len(file1)
    BY <2>1, <2>4, <2>5, FileIsSeq
  <2> QED BY <1>5, <2>1, <2>5, <2>6 DEF WriteFails, Progress, Left, Start
<1>6. CASE Report
  <2>1. file2 # NoFile /\ copied = 0
    BY <1>6, FileIsSeq DEF Report, Progress, Left
  <2> QED BY <1>6, <2>1 DEF Report, Progress, Left, Start
<1>7. CASE UNCHANGED copyVars
  BY <1>7 DEF copyVars, Progress, Left, Start
<1> QED BY <1>1, <1>2, <1>3, <1>4, <1>5, <1>6, <1>7 DEF CopyNext

LEMMA CopyInvIsTrue == ASSUME CopyInv PROVE CopiesAreTrue
<1> USE DEF CopyInv, CopyTypeOK
<1>1. ASSUME file2 # NoFile PROVE IsPrefix(file2, file1)
  <2>1. file1 # NoFile /\ Len(file1) \in Nat
    BY <1>1, FileIsSeq DEF Left
  <2>2. PICK n \in 0..Len(file1) : file2 = Start(n)
    BY <1>1 DEF Left
  <2>3. Len(file2) = n
    BY <2>1, <2>2, FileIsSeq, SubSeqProperties DEF Start
  <2>4. file2 \in Seq({file1[i] : i \in DOMAIN file1})
    BY <2>1, <2>2, FileIsSeq, SubSeqProperties DEF Start
  <2> QED BY <2>1, <2>2, <2>3, <2>4, SubSeqFull DEF IsPrefix, Start
<1>2. ASSUME pc \in {"read", "report"} PROVE total_bytes = Len(file2)
  BY <1>2, FileIsSeq, SubSeqProperties DEF Progress, Start
<1>3. ASSUME pc = "report", ~readFailed PROVE file2 = file1
  BY <1>3, FileIsSeq, SubSeqFull DEF Progress, Start
<1> QED BY <1>1, <1>2, <1>3 DEF CopiesAreTrue

(* A copy that is reported is a copy, up to the byte at which a read failed,  *)
(* and no run overwrites that of another (Assignment6/mycp.c:39).             *)
THEOREM CopyIsTrue == CopySpec => []CopiesAreTrue
<1>1. CopyInit => CopyInv
  BY CopyInitInv
<1>2. CopyInv /\ [CopyNext]_copyVars => CopyInv'
  BY CopyStepInv
<1>3. CopyInv => CopiesAreTrue
  BY CopyInvIsTrue
<1> QED BY <1>1, <1>2, <1>3, PTL DEF CopySpec

-------------------------------------------------------------------------------
(* The menu.  Processes that wait for a child or have been waited for do      *)
(* nothing by themselves.                                                     *)
Resting == {"wait", "reaped"}
Places == Resting \cup {"process", "fork", "child", "exited"}

ListTypeOK ==
  /\ procs \in Seq([pc : Places, selection : Selections \cup {0}, parent : Nat])
  /\ chosen \in Seq(Selections)
  /\ hellos \in Nat /\ lists \in Nat

(* A process that has made a selection, or was forked for it, carries it out. *)
Pending == {p \in DOMAIN procs : procs[p].pc \in {"fork", "child"}}
Owed(x) == IF \E p \in Pending : procs[p].selection = x THEN 1 ELSE 0

OneMoves ==
  \A p, q \in DOMAIN procs :
    procs[p].pc \notin Resting /\ procs[q].pc \notin Resting => p = q

(* What has been printed and what is owed are what has been selected.         *)
Carried ==
  /\ \A p \in Pending : procs[p].selection \in {1, 2}
  /\ hellos + Owed(1) = Count(chosen, 1)
  /\ lists + Owed(2) = Count(chosen, 2)

ListInv == ListTypeOK /\ OneMoves /\ Carried

LEMMA CountIsNat == ASSUME NEW S, NEW s \in Seq(S), NEW x PROVE Count(s, x) \in Nat
<1>1. DOMAIN s = 1..Len(s) /\ Len(s) \in Nat
  BY LenProperties
<1>2. IsFiniteSet(1..Len(s))
  BY <1>1, FS_Interval
<1>3. IsFiniteSet({i \in DOMAIN s : s[i] = x})
  BY <1>1, <1>2, FS_Subset
<1> QED BY <1>3, FS_CardinalityType DEF Count

LEMMA CountOfAppend ==
  ASSUME NEW S, NEW s \in Seq(S), NEW e \in S, NEW x
  PROVE  Count(Append(s, e), x) = Count(s, x) + (IF e = x THEN 1 ELSE 0)
<1> DEFINE t == Append(s, e)
           A == {i \in DOMAIN s : s[i] = x}
           B == {i \in DOMAIN t : t[i] = x}
<1>1. /\ t \in Seq(S) /\ Len(t) = Len(s) + 1 /\ Len(s) \in Nat
      /\ \A i \in 1..Len(s) : t[i] = s[i]
      /\ t[Len(s) + 1] = e
  BY AppendProperties, LenProperties
<1>2. DOMAIN s = 1..Len(s) /\ DOMAIN t = 1..(Len(s) + 1)
  BY <1>1, LenProperties
<1> HIDE DEF t
<1>3. B = IF e = x THEN A \cup {Len(s) + 1} ELSE A
  BY <1>1, <1>2
<1>4. IsFiniteSet(A) /\ Cardinality(A) \in Nat /\ Len(s) + 1 \notin A
  <2>1. IsFiniteSet(1..Len(s))
    BY <1>1, FS_Interval
  <2>2. IsFiniteSet(A)
    BY <1>2, <2>1, FS_Subset
  <2>3. Len(s) + 1 \notin A
    BY <1>1, <1>2
  <2> QED BY <2>2, <2>3, FS_CardinalityType
<1>5. Cardinality(B) = Cardinality(A) + (IF e = x THEN 1 ELSE 0)
  <2> HIDE DEF A, B
  <2>1. CASE e = x
    BY <1>3, <1>4, <2>1, FS_AddElement
  <2>2. CASE e # x
    BY <1>3, <1>4, <2>2
  <2> QED BY <2>1, <2>2
<1> QED BY <1>5 DEF Count, t

(* One process of many moves.                                                 *)
LEMMA OneReplaced ==
  ASSUME NEW P, NEW s \in Seq(P), NEW p \in DOMAIN s, NEW e \in P
  PROVE  /\ [s EXCEPT ![p] = e] \in Seq(P)
         /\ DOMAIN [s EXCEPT ![p] = e] = DOMAIN s
         /\ Len([s EXCEPT ![p] = e]) = Len(s)
         /\ [s EXCEPT ![p] = e][p] = e
         /\ \A r \in DOMAIN s \ {p} : [s EXCEPT ![p] = e][r] = s[r]
BY ExceptSeq, LenProperties

LEMMA ListInitInv == ASSUME ListInit PROVE ListInv
<1>1. /\ procs = <<[pc |-> "process", selection |-> 0, parent |-> 0]>>
      /\ DOMAIN procs = {1} /\ procs[1].pc = "process"
  BY DEF ListInit
<1>2. chosen = <<>> /\ hellos = 0 /\ lists = 0
  BY DEF ListInit
<1>3. ListTypeOK
  <2>1. [pc |-> "process", selection |-> 0, parent |-> 0]
          \in [pc : Places, selection : Selections \cup {0}, parent : Nat]
    BY DEF Places
  <2>2. procs \in Seq([pc : Places, selection : Selections \cup {0}, parent : Nat])
    BY <1>1, <2>1
  <2> QED BY <1>2, <2>2 DEF ListTypeOK
<1>4. OneMoves
  BY <1>1 DEF OneMoves
<1>5. Pending = {} /\ Owed(1) = 0 /\ Owed(2) = 0
  BY <1>1 DEF Pending, Owed
<1>6. Count(<<>>, 1) = 0 /\ Count(<<>>, 2) = 0
  BY FS_EmptySet DEF Count
<1> QED BY <1>2, <1>3, <1>4, <1>5, <1>6 DEF ListInv, Carried

(* Of the process that moves, nothing or its own selection is owed.           *)
LEMMA OwedByMover ==
  ASSUME ListTypeOK, OneMoves, NEW p \in DOMAIN procs, procs[p].pc \notin Resting, NEW x
  PROVE  /\ Pending = IF procs[p].pc \in {"fork", "child"} THEN {p} ELSE {}
         /\ Owed(x) = IF procs[p].pc \in {"fork", "child"} /\ procs[p].selection = x THEN 1 ELSE 0
<1>1. Pending = IF procs[p].pc \in {"fork", "child"} THEN {p} ELSE {}
  BY DEF Pending, OneMoves, Resting
<1> QED BY <1>1 DEF Owed

(* A step after which only q moves, of which nothing or its selection is owed.*)
LEMMA OwedNext ==
  ASSUME NEW q \in DOMAIN procs',
         \A r \in DOMAIN procs' \ {q} : procs'[r].pc \in Resting, NEW x
  PROVE  /\ OneMoves'
         /\ Pending' = IF procs'[q].pc \in {"fork", "child"} THEN {q} ELSE {}
         /\ Owed(x)' = IF procs'[q].pc \in {"fork", "child"} /\ procs'[q].selection = x THEN 1 ELSE 0
<1>1. OneMoves'
  BY DEF OneMoves
<1>2. Pending' = IF procs'[q].pc \in {"fork", "child"} THEN {q} ELSE {}
  BY DEF Pending, Resting
<1>3. Owed(x)' = IF procs'[q].pc \in {"fork", "child"} /\ procs'[q].selection = x THEN 1 ELSE 0
  BY <1>2 DEF Owed
<1> QED BY <1>1, <1>2, <1>3

LEMMA ListStepInv == ASSUME ListInv, [ListNext]_listVars PROVE ListInv'
<1> USE DEF ListInv
<1> DEFINE Proc == [pc : Places, selection : Selections \cup {0}, parent : Nat]
<1>1. /\ procs \in Seq(Proc) /\ Len(procs) \in Nat /\ DOMAIN procs = 1..Len(procs)
      /\ \A r \in DOMAIN procs : procs[r] \in Proc
  BY LenProperties, ElementOfSeq DEF ListTypeOK
<1>2. ASSUME NEW p \in DOMAIN procs, NEW s \in Selections, Select(p, s) PROVE ListInv'
  <2>1. /\ procs' = [procs EXCEPT ![p].selection = s,
                                  ![p].pc = CASE s \in {1, 2} -> "fork" [] s = 3 -> "exited"
                                              [] OTHER -> "process"]
        /\ chosen' = Append(chosen, s) /\ UNCHANGED <<hellos, lists>> /\ procs[p].pc = "process"
    BY <1>2 DEF Select
  <2>2. /\ procs' \in Seq(Proc) /\ DOMAIN procs' = DOMAIN procs
        /\ procs'[p].selection = s
        /\ procs'[p].pc = CASE s \in {1, 2} -> "fork" [] s = 3 -> "exited" [] OTHER -> "process"
        /\ \A r \in DOMAIN procs \ {p} : procs'[r] = procs[r]
    <3> DEFINE there == CASE s \in {1, 2} -> "fork" [] s = 3 -> "exited" [] OTHER -> "process"
               d == [procs[p] EXCEPT !.selection = s]
               e == [d EXCEPT !.pc = there]
               mid == [procs EXCEPT ![p] = d]
    <3>1. there \in Places
      BY DEF Places
    <3> HIDE DEF there
    <3>2. d \in Proc /\ e \in Proc /\ e.selection = s /\ e.pc = there
      BY <1>1, <3>1
    <3>3. /\ mid \in Seq(Proc) /\ DOMAIN mid = DOMAIN procs /\ mid[p] = d
          /\ \A r \in DOMAIN procs \ {p} : mid[r] = procs[r]
      <4> HIDE DEF d, Proc
      <4> QED BY <1>1, <3>2, OneReplaced
    <3>4. procs' = [mid EXCEPT ![p] = e]
      BY <1>1, <2>1, <3>3 DEF there
    <3>5. there = CASE s \in {1, 2} -> "fork" [] s = 3 -> "exited" [] OTHER -> "process"
      BY DEF there
    <3> HIDE DEF d, e, mid, Proc
    <3>6. /\ procs' \in Seq(Proc) /\ DOMAIN procs' = DOMAIN mid /\ procs'[p] = e
          /\ \A r \in DOMAIN mid \ {p} : procs'[r] = mid[r]
      BY <3>2, <3>3, <3>4, OneReplaced
    <3> QED BY <3>2, <3>3, <3>5, <3>6
  <2>3. ListTypeOK'
    <3>1. procs' \in Seq(Proc)
      BY <2>2
    <3>2. chosen' \in Seq(Selections)
      BY <2>1, AppendProperties DEF ListTypeOK
    <3> QED BY <2>1, <3>1, <3>2 DEF ListTypeOK
  <2>4. \A r \in DOMAIN procs' \ {p} : procs'[r].pc \in Resting
    BY <2>1, <2>2 DEF OneMoves, Resting
  <2>5. Owed(1) = 0 /\ Owed(2) = 0
    BY <2>1, OwedByMover DEF Resting
  <2>6. /\ OneMoves'
        /\ Pending' = IF procs'[p].pc \in {"fork", "child"} THEN {p} ELSE {}
        /\ Owed(1)' = IF procs'[p].pc \in {"fork", "child"} /\ procs'[p].selection = 1 THEN 1 ELSE 0
        /\ Owed(2)' = IF procs'[p].pc \in {"fork", "child"} /\ procs'[p].selection = 2 THEN 1 ELSE 0
    BY <2>2, <2>4, OwedNext
  <2>7. /\ Count(chosen', 1) = Count(chosen, 1) + (IF s = 1 THEN 1 ELSE 0)
        /\ Count(chosen', 2) = Count(chosen, 2) + (IF s = 2 THEN 1 ELSE 0)
    BY <2>1, CountOfAppend DEF ListTypeOK
  <2>8. procs'[p].pc \in {"fork", "child"} <=> s \in {1, 2}
    BY <2>2
  <2>9. Carried'
    BY <2>1, <2>2, <2>5, <2>6, <2>7, <2>8 DEF Carried, ListTypeOK
  <2> QED BY <2>3, <2>6, <2>9
<1>3. ASSUME NEW p \in DOMAIN procs, Fork(p) PROVE ListInv'
  <2> DEFINE q == Len(procs) + 1
             child == [pc |-> "child", selection |-> procs[p].selection, parent |-> p]
             waiting == [procs EXCEPT ![p].pc = "wait"]
  <2>1. procs' = Append(waiting, child) /\ UNCHANGED <<chosen, hellos, lists>> /\ procs[p].pc = "fork"
    BY <1>3 DEF Fork
  <2>2. /\ waiting \in Seq(Proc) /\ child \in Proc /\ Len(waiting) = Len(procs)
        /\ waiting[p].pc = "wait" /\ \A r \in DOMAIN procs \ {p} : waiting[r] = procs[r]
    <3> DEFINE e == [procs[p] EXCEPT !.pc = "wait"]
    <3>1. e \in Proc /\ e.pc = "wait" /\ child \in Proc
      BY <1>1 DEF Places, Resting
    <3>2. waiting = [procs EXCEPT ![p] = e]
      BY <1>1
    <3> HIDE DEF e, Proc, child, waiting
    <3> QED BY <1>1, <3>1, <3>2, OneReplaced
  <2>3. /\ procs' \in Seq(Proc) /\ DOMAIN procs' = 1..q
        /\ procs'[q] = child /\ \A r \in 1..Len(procs) : procs'[r] = waiting[r]
    BY <1>1, <2>1, <2>2, AppendProperties, LenProperties
  <2>4. \A r \in DOMAIN procs' \ {q} : procs'[r].pc \in Resting
    <3>1. ASSUME NEW r \in 1..Len(procs) PROVE waiting[r].pc \in Resting
      <4> HIDE DEF waiting
      <4>1. CASE r = p
        BY <2>2, <4>1 DEF Resting
      <4>2. CASE r # p
        BY <1>1, <2>1, <2>2, <4>2 DEF OneMoves, Resting
      <4> QED BY <4>1, <4>2
    <3> HIDE DEF waiting, child
    <3> QED BY <1>1, <2>3, <3>1
  <2>5. /\ Pending = {p}
        /\ Owed(1) = IF procs[p].selection = 1 THEN 1 ELSE 0
        /\ Owed(2) = IF procs[p].selection = 2 THEN 1 ELSE 0
    BY <2>1, OwedByMover DEF Resting
  <2>6. q \in DOMAIN procs'
    BY <1>1, <2>3
  <2>7. /\ OneMoves' /\ Pending' = {q}
        /\ Owed(1)' = IF procs[p].selection = 1 THEN 1 ELSE 0
        /\ Owed(2)' = IF procs[p].selection = 2 THEN 1 ELSE 0
    <3>1. procs'[q].pc = "child" /\ procs'[q].selection = procs[p].selection
      BY <2>3
    <3> HIDE DEF q
    <3> QED BY <2>4, <2>6, <3>1, OwedNext
  <2>8. ListTypeOK'
    BY <2>1, <2>3 DEF ListTypeOK
  <2>9. Carried'
    BY <2>1, <2>3, <2>5, <2>7 DEF Carried
  <2> QED BY <2>7, <2>8, <2>9
<1>4. ASSUME NEW p \in DOMAIN procs, ForkFails(p) PROVE ListInv'
  BY <1>4 DEF ForkFails, ListTypeOK, OneMoves, Carried, Pending, Owed
<1>5. ASSUME NEW p \in DOMAIN procs, NEW there \in {"exited", "fork"},
             procs' = [procs EXCEPT ![p].pc = there], procs[p].pc = "child"
      PROVE  /\ procs' \in Seq(Proc) /\ OneMoves'
             /\ procs'[p].selection = procs[p].selection
             /\ Pending = {p} /\ Pending' = IF there = "fork" THEN {p} ELSE {}
             /\ Owed(1) = IF procs[p].selection = 1 THEN 1 ELSE 0
             /\ Owed(2) = IF procs[p].selection = 2 THEN 1 ELSE 0
             /\ Owed(1)' = IF there = "fork" /\ procs[p].selection = 1 THEN 1 ELSE 0
             /\ Owed(2)' = IF there = "fork" /\ procs[p].selection = 2 THEN 1 ELSE 0
  <2>1. /\ procs' \in Seq(Proc) /\ DOMAIN procs' = DOMAIN procs
        /\ procs'[p].pc = there /\ procs'[p].selection = procs[p].selection
        /\ \A r \in DOMAIN procs \ {p} : procs'[r] = procs[r]
    <3> DEFINE e == [procs[p] EXCEPT !.pc = there]
    <3>1. e \in Proc /\ e.pc = there /\ e.selection = procs[p].selection
      BY <1>1 DEF Places
    <3>2. procs' = [procs EXCEPT ![p] = e]
      BY <1>1, <1>5
    <3> HIDE DEF e, Proc
    <3> QED BY <1>1, <3>1, <3>2, OneReplaced
  <2>2. \A r \in DOMAIN procs' \ {p} : procs'[r].pc \in Resting
    BY <1>5, <2>1 DEF OneMoves, Resting
  <2>3. /\ OneMoves'
        /\ Pending' = IF procs'[p].pc \in {"fork", "child"} THEN {p} ELSE {}
        /\ Owed(1)' = IF procs'[p].pc \in {"fork", "child"} /\ procs'[p].selection = 1 THEN 1 ELSE 0
        /\ Owed(2)' = IF procs'[p].pc \in {"fork", "child"} /\ procs'[p].selection = 2 THEN 1 ELSE 0
    BY <2>1, <2>2, OwedNext
  <2>4. /\ Pending = {p}
        /\ Owed(1) = IF procs[p].selection = 1 THEN 1 ELSE 0
        /\ Owed(2) = IF procs[p].selection = 2 THEN 1 ELSE 0
    BY <1>5, OwedByMover DEF Resting
  <2> QED BY <1>5, <2>1, <2>3, <2>4
<1>6. ASSUME NEW p \in DOMAIN procs, SayHello(p) PROVE ListInv'
  <2>1. /\ procs[p].pc = "child" /\ procs[p].selection = 1 /\ Goes(p, "exited")
        /\ hellos' = hellos + 1 /\ UNCHANGED <<chosen, lists>>
    BY <1>6 DEF SayHello
  <2>2. /\ procs' \in Seq(Proc) /\ OneMoves' /\ Pending' = {}
        /\ Owed(1) = 1 /\ Owed(2) = 0 /\ Owed(1)' = 0 /\ Owed(2)' = 0
    <3>1. "exited" \in {"exited", "fork"}
      OBVIOUS
    <3>2. procs' = [procs EXCEPT ![p].pc = "exited"]
      BY <2>1 DEF Goes
    <3>3. /\ procs' \in Seq(Proc) /\ OneMoves'
          /\ procs'[p].selection = procs[p].selection
          /\ Pending' = IF "exited" = "fork" THEN {p} ELSE {}
          /\ Owed(1) = IF procs[p].selection = 1 THEN 1 ELSE 0
          /\ Owed(2) = IF procs[p].selection = 2 THEN 1 ELSE 0
          /\ Owed(1)' = IF "exited" = "fork" /\ procs[p].selection = 1 THEN 1 ELSE 0
          /\ Owed(2)' = IF "exited" = "fork" /\ procs[p].selection = 2 THEN 1 ELSE 0
      BY <1>5, <2>1, <3>1, <3>2, Zenon
    <3> QED BY <2>1, <3>3
  <2> QED BY <2>1, <2>2 DEF ListTypeOK, Carried
<1>7. ASSUME NEW p \in DOMAIN procs, ListFiles(p) PROVE ListInv'
  <2>1. /\ procs[p].pc = "child" /\ procs[p].selection = 2 /\ Goes(p, "exited")
        /\ lists' = lists + 1 /\ UNCHANGED <<chosen, hellos>>
    BY <1>7 DEF ListFiles
  <2>2. /\ procs' \in Seq(Proc) /\ OneMoves' /\ Pending' = {}
        /\ Owed(1) = 0 /\ Owed(2) = 1 /\ Owed(1)' = 0 /\ Owed(2)' = 0
    <3>1. "exited" \in {"exited", "fork"}
      OBVIOUS
    <3>2. procs' = [procs EXCEPT ![p].pc = "exited"]
      BY <2>1 DEF Goes
    <3>3. /\ procs' \in Seq(Proc) /\ OneMoves'
          /\ procs'[p].selection = procs[p].selection
          /\ Pending' = IF "exited" = "fork" THEN {p} ELSE {}
          /\ Owed(1) = IF procs[p].selection = 1 THEN 1 ELSE 0
          /\ Owed(2) = IF procs[p].selection = 2 THEN 1 ELSE 0
          /\ Owed(1)' = IF "exited" = "fork" /\ procs[p].selection = 1 THEN 1 ELSE 0
          /\ Owed(2)' = IF "exited" = "fork" /\ procs[p].selection = 2 THEN 1 ELSE 0
      BY <1>5, <2>1, <3>1, <3>2, Zenon
    <3> QED BY <2>1, <3>3
  <2> QED BY <2>1, <2>2 DEF ListTypeOK, Carried
<1>8. ASSUME NEW p \in DOMAIN procs, ExecFails(p) PROVE ListInv'
  <2>1. /\ procs[p].pc = "child" /\ procs[p].selection = 2 /\ Goes(p, "fork")
        /\ UNCHANGED <<chosen, hellos, lists>>
    BY <1>8 DEF ExecFails
  <2>2. /\ procs' \in Seq(Proc) /\ OneMoves' /\ Pending' = {p} /\ procs'[p].selection = 2
        /\ Owed(1) = 0 /\ Owed(2) = 1 /\ Owed(1)' = 0 /\ Owed(2)' = 1
    <3>1. "fork" \in {"exited", "fork"}
      OBVIOUS
    <3>2. procs' = [procs EXCEPT ![p].pc = "fork"]
      BY <2>1 DEF Goes
    <3>3. /\ procs' \in Seq(Proc) /\ OneMoves'
          /\ procs'[p].selection = procs[p].selection
          /\ Pending' = IF "fork" = "fork" THEN {p} ELSE {}
          /\ Owed(1) = IF procs[p].selection = 1 THEN 1 ELSE 0
          /\ Owed(2) = IF procs[p].selection = 2 THEN 1 ELSE 0
          /\ Owed(1)' = IF "fork" = "fork" /\ procs[p].selection = 1 THEN 1 ELSE 0
          /\ Owed(2)' = IF "fork" = "fork" /\ procs[p].selection = 2 THEN 1 ELSE 0
      BY <1>5, <2>1, <3>1, <3>2, Zenon
    <3> QED BY <2>1, <3>3
  <2> QED BY <2>1, <2>2 DEF ListTypeOK, Carried
<1>9. ASSUME NEW p \in DOMAIN procs, Wait(p) PROVE ListInv'
  <2>1. PICK c \in DOMAIN procs :
          /\ procs[c].pc = "exited"
          /\ procs' = [procs EXCEPT ![c].pc = "reaped", ![p].pc = "process"]
    BY <1>9 DEF Wait
  <2>2. p # c /\ procs[p].pc = "wait" /\ UNCHANGED <<chosen, hellos, lists>>
    BY <1>9, <2>1 DEF Wait
  <2>3. /\ procs' \in Seq(Proc) /\ DOMAIN procs' = DOMAIN procs
        /\ procs'[p].pc = "process" /\ procs'[c].pc = "reaped"
        /\ \A r \in DOMAIN procs \ {p, c} : procs'[r] = procs[r]
    <3> DEFINE e == [procs[c] EXCEPT !.pc = "reaped"]
               f == [procs[p] EXCEPT !.pc = "process"]
               mid == [procs EXCEPT ![c] = e]
    <3>1. e \in Proc /\ e.pc = "reaped" /\ f \in Proc /\ f.pc = "process"
      BY <1>1 DEF Places, Resting
    <3>2. procs' = [mid EXCEPT ![p] = f]
      BY <1>1, <2>1, <2>2
    <3>3. /\ mid \in Seq(Proc) /\ DOMAIN mid = DOMAIN procs /\ mid[c] = e
          /\ \A r \in DOMAIN procs \ {c} : mid[r] = procs[r]
      <4> HIDE DEF e, Proc
      <4> QED BY <1>1, <3>1, OneReplaced
    <3> HIDE DEF e, f, mid, Proc
    <3>4. /\ procs' \in Seq(Proc) /\ DOMAIN procs' = DOMAIN mid /\ procs'[p] = f
          /\ \A r \in DOMAIN mid \ {p} : procs'[r] = mid[r]
      BY <3>1, <3>2, <3>3, OneReplaced
    <3> QED BY <2>2, <3>1, <3>3, <3>4
  <2>4. \A r \in DOMAIN procs' \ {p} : procs'[r].pc \in Resting
    BY <2>1, <2>3 DEF OneMoves, Resting
  <2>5. OneMoves' /\ Pending' = {} /\ Owed(1)' = 0 /\ Owed(2)' = 0
    BY <2>3, <2>4, OwedNext
  <2>6. Owed(1) = 0 /\ Owed(2) = 0
    BY <2>1, OwedByMover DEF Resting
  <2> QED BY <2>2, <2>3, <2>5, <2>6 DEF ListTypeOK, Carried
<1>10. CASE UNCHANGED listVars
  BY <1>10 DEF listVars, ListTypeOK, OneMoves, Carried, Pending, Owed
<1> QED BY <1>2, <1>3, <1>4, <1>6, <1>7, <1>8, <1>9, <1>10 DEF ListNext

LEMMA ListInvAsks == ASSUME ListInv PROVE OneAsks
<1> SUFFICES ASSUME NEW p \in DOMAIN procs, NEW q \in DOMAIN procs, procs[p].pc = "process"
             PROVE  /\ q # p => procs[q].pc \in {"wait", "exited", "reaped"}
                    /\ hellos = Count(chosen, 1) /\ lists = Count(chosen, 2)
  BY DEF OneAsks
<1>1. q # p => procs[q].pc \in {"wait", "exited", "reaped"}
  BY DEF ListInv, OneMoves, Resting
<1>2. Owed(1) = 0 /\ Owed(2) = 0
  BY OwedByMover DEF ListInv, Resting
<1> QED BY <1>1, <1>2 DEF ListInv, ListTypeOK, Carried

(* Of all the processes that failures leave, one asks at a time, and each     *)
(* selection is carried out once before the next                            *)
(* (Assignment2/functionlist.c:38).                                           *)
THEOREM OneProcessAsks == ListSpec => []OneAsks
<1>1. ListInit => ListInv
  BY ListInitInv
<1>2. ListInv /\ [ListNext]_listVars => ListInv'
  BY ListStepInv
<1>3. ListInv => OneAsks
  BY ListInvAsks
<1> QED BY <1>1, <1>2, <1>3, PTL DEF ListSpec

------------------------------------------------------------------------------
(* The branch predictors. *)

(* A remainder is an index, and with the quotient it gives the number back.    *)
LEMMA DivMod ==
    ASSUME NEW n \in Nat, NEW r \in Nat \ {0}
    PROVE  /\ n % r \in 0 .. r - 1
           /\ n \div r \in Nat
           /\ (n \div r) * r + (n % r) = n
<1>1. n % r \in 0 .. r - 1
  OBVIOUS
<1>2. n \div r \in Nat
  OBVIOUS
<1>3. n = (n \div r) * r + (n % r)
  OBVIOUS
<1> QED
  BY <1>1, <1>2, <1>3

(* Division with remainder.                                                 *)
LEMMA Quotient ==
    ASSUME NEW n \in Nat, NEW r \in Nat \ {0}
    PROVE  \E q \in Nat, s \in 0 .. r - 1 : s = n % r /\ q * r + s = n
BY DivMod

(* A number is written in one way as a multiple of r and a remainder.          *)
LEMMA RemainderUnique ==
    ASSUME NEW r \in Nat \ {0}, NEW q \in Nat, NEW s \in 0 .. r - 1
    PROVE  (q * r + s) % r = s
OBVIOUS

(* A product over a sum, in the form in which addresses are split.          *)
LEMMA Distribute ==
    ASSUME NEW a \in Nat, NEW b \in Nat, NEW c \in Nat, NEW d \in Nat
    PROVE  (a * b + c) * d = a * (b * d) + c * d
OBVIOUS

(* The low bits of a number are the low bits of its low bits.                  *)
LEMMA RemainderOfRemainder ==
    ASSUME NEW n \in Nat, NEW r \in Nat \ {0}, NEW k \in Nat \ {0}
    PROVE  (n % (k * r)) % r = n % r
<1>1. PICK m \in Nat \ {0} : m = k * r
  OBVIOUS
<1>2. PICK high \in Nat, low \in 0 .. m - 1 : low = n % m /\ high * m + low = n
  BY Quotient, Zenon
<1>3. PICK q \in Nat, s \in 0 .. r - 1 : s = low % r /\ q * r + s = low
  <2>1. low \in Nat
    OBVIOUS
  <2> QED
    BY <2>1, Quotient, Zenon
<1>4. n = (high * k + q) * r + s
  <2>1. (high * k + q) * r = high * (k * r) + q * r
    BY Distribute
  <2>2. n = (high * (k * r) + q * r) + s
    BY <1>1, <1>2, <1>3
  <2> QED
    BY <2>1, <2>2
<1>5. n % r = s
  <2>1. high * k + q \in Nat
    OBVIOUS
  <2>2. ((high * k + q) * r + s) % r = s
    BY <2>1, RemainderUnique
  <2> QED
    BY ONLY <1>4, <2>2
<1> QED
  BY ONLY <1>1, <1>2, <1>3, <1>5

(* The indices and the tag of an address, which make up the address.        *)
LEMMA IndexTypes ==
    ASSUME NEW addr \in Addresses
    PROVE  /\ PBIndex(addr) \in PBIndexes
           /\ BTBIndex(addr) \in BTBIndexes
           /\ Tag(addr) \in Nat
           /\ Tag(addr) * BTB_range + BTBIndex(addr) = addr
<1>1. addr \in Nat /\ PB_range \in Nat \ {0} /\ BTB_range \in Nat \ {0}
  BY BufferAssumption
<1> QED
  BY <1>1, DivMod DEF PBIndex, BTBIndex, Tag, PBIndexes, BTBIndexes

(* What One adds to a counter.                                              *)
LEMMA OneIsNat == ASSUME NEW condition PROVE One(condition) \in 0 .. 1
BY DEF One

-------------------------------------------------------------------------------

(* Every step keeps the types.                                              *)
LEMMA TypeStep == BranchTypeOK /\ [BranchNext]_branchVars => BranchTypeOK'
<1> SUFFICES ASSUME BranchTypeOK, [BranchNext]_branchVars PROVE BranchTypeOK'
  OBVIOUS
<1>1. ASSUME NEW addr \in Addresses, NEW outcome \in Outcomes, NEW direction \in Directions,
             Branch(addr, outcome, direction)
      PROVE  BranchTypeOK'
  <2>1. /\ PBIndex(addr) \in PBIndexes
        /\ BTBIndex(addr) \in BTBIndexes
        /\ Tag(addr) \in Nat
    BY IndexTypes
  <2>2. PB_buffer' \in [PBIndexes -> 0 .. 3]
    BY <1>1, <2>1 DEF Branch, Train, predictorState, BranchTypeOK
  <2>3. BTB_buffer' \in [BTBIndexes -> Nat \cup {NoEntry}]
    BY <1>1, <2>1 DEF Branch, Train, BranchTypeOK
  <2>4. /\ {forward_branches', forward_taken_branches'} \subseteq Nat
        /\ {backward_branches', backward_taken_branches'} \subseteq Nat
    BY <1>1, OneIsNat DEF Branch, CountDirection, BranchTypeOK
  <2>5. branches' \in Nat /\ {mispredictions', hit', miss'} \subseteq Nat
    BY <1>1, OneIsNat DEF Branch, BranchTypeOK
  <2> QED
    BY <1>1, <2>2, <2>3, <2>4, <2>5 DEF Branch, BranchTypeOK
<1>2. ASSUME NEW addr \in Addresses, LineFails(addr) PROVE BranchTypeOK'
  BY <1>2 DEF LineFails, BranchTypeOK, buffers, directions
<1>3. ASSUME NEW addr \in Addresses, BranchFails(addr) PROVE BranchTypeOK'
  BY <1>3 DEF BranchFails, BranchTypeOK, buffers, directions
<1>4. CASE PrintBranches
  BY <1>4 DEF PrintBranches, BranchTypeOK, buffers, directions
<1>5. CASE UNCHANGED branchVars
  BY <1>5 DEF BranchTypeOK, branchVars, buffers, directions
<1> QED
  BY <1>1, <1>2, <1>3, <1>4, <1>5 DEF BranchNext

(* The counters stay between 0 and 3 and every variable keeps its type.        *)
THEOREM TypeCorrect == BranchSpec => []BranchTypeOK
<1>1. BranchInit => BranchTypeOK
  BY DEF BranchInit, BranchTypeOK
<1> QED
  BY <1>1, TypeStep, PTL DEF BranchSpec

-------------------------------------------------------------------------------

(* A PB entry that predicts "taken" has been trained by a taken branch, and    *)
(* that branch has filled the BTB entry its low bits select.  When the PB is   *)
(* at least as large as the BTB, all branches of one PB entry use the same     *)
(* entry of the BTB.                                                           *)
BTBDividesPB == \E k \in Nat \ {0} : PB_range = k * BTB_range

TakenEntryHasTarget ==
    \A i \in PBIndexes : takenPrediction(PB_buffer[i]) => BTB_buffer[i % BTB_range] # NoEntry

(* If the sizes divide, the index of the PB determines that of the BTB.     *)
LEMMA SharedEntry ==
    ASSUME BTBDividesPB, NEW addr \in Addresses
    PROVE  PBIndex(addr) % BTB_range = BTBIndex(addr)
<1>1. PICK k \in Nat \ {0} : PB_range = k * BTB_range
  BY DEF BTBDividesPB
<1>2. addr \in Nat /\ BTB_range \in Nat \ {0}
  BY BufferAssumption
<1> QED
  BY <1>1, <1>2, RemainderOfRemainder DEF PBIndex, BTBIndex

(* With a PB at least as large as the BTB, both powers of two, line 152 never  *)
(* reads a null entry.                                                         *)
THEOREM NoNullTarget == ASSUME BTBDividesPB PROVE BranchSpec => []NoNullAccess
<1> DEFINE Inv == TakenEntryHasTarget /\ NoNullAccess
<1>1. BranchInit => Inv
  BY DEF BranchInit, TakenEntryHasTarget, NoNullAccess, takenPrediction
<1>2. BranchTypeOK /\ Inv /\ [BranchNext]_branchVars => Inv'
  <2> SUFFICES ASSUME BranchTypeOK, Inv, [BranchNext]_branchVars PROVE Inv'
    OBVIOUS
  <2>1. ASSUME NEW addr \in Addresses, NEW outcome \in Outcomes, NEW direction \in Directions,
               Branch(addr, outcome, direction)
        PROVE  Inv'
    <3>1. PBIndex(addr) \in PBIndexes /\ BTBIndex(addr) \in BTBIndexes /\ Tag(addr) \in Nat
      BY IndexTypes
    <3>2. PBIndex(addr) % BTB_range = BTBIndex(addr)
      BY SharedEntry
    <3>3. ASSUME NEW i \in PBIndexes, takenPrediction(PB_buffer'[i])
          PROVE  BTB_buffer'[i % BTB_range] # NoEntry
      <4>1. i % BTB_range \in BTBIndexes
        <5>1. i \in Nat /\ BTB_range \in Nat \ {0}
          BY BufferAssumption DEF PBIndexes
        <5> QED
          BY <5>1, DivMod DEF BTBIndexes
      <4>2. BTB_buffer[i % BTB_range] # NoEntry => BTB_buffer'[i % BTB_range] # NoEntry
        BY <2>1, <3>1, <4>1 DEF Branch, Train, BranchTypeOK, NoEntry
      <4>3. CASE takenPrediction(PB_buffer[i])
        BY <4>2, <4>3 DEF TakenEntryHasTarget
      <4>4. CASE ~takenPrediction(PB_buffer[i])
        <5>1. i = PBIndex(addr) /\ outcome = "T"
          BY <2>1, <3>1, <3>3, <4>4
             DEF Branch, Train, BranchTypeOK, takenPrediction, predictorState, Outcomes
        <5>2. BTB_buffer'[BTBIndex(addr)] = Tag(addr)
          BY <2>1, <3>1, <5>1 DEF Branch, Train, BranchTypeOK
        <5> QED
          BY <3>1, <3>2, <5>1, <5>2 DEF NoEntry
      <4> QED
        BY <4>3, <4>4
    <3> QED
      BY <2>1, <3>3 DEF Branch, TakenEntryHasTarget, NoNullAccess
  <2>2. ASSUME NEW addr \in Addresses, LineFails(addr) PROVE Inv'
    BY <2>2 DEF LineFails, TakenEntryHasTarget, NoNullAccess, buffers
  <2>3. ASSUME NEW addr \in Addresses, BranchFails(addr) PROVE Inv'
    <3>1. ~NullEntry(addr)
      <4>1. PBIndex(addr) \in PBIndexes /\ PBIndex(addr) % BTB_range = BTBIndex(addr)
        BY IndexTypes, SharedEntry
      <4> QED
        BY <4>1 DEF NullEntry, PredictedTaken, TakenEntryHasTarget
    <3> QED
      BY <2>3, <3>1 DEF BranchFails, TakenEntryHasTarget, NoNullAccess, buffers
  <2>4. CASE PrintBranches
    BY <2>4 DEF PrintBranches, TakenEntryHasTarget, NoNullAccess, buffers
  <2>5. CASE UNCHANGED branchVars
    BY <2>5 DEF TakenEntryHasTarget, NoNullAccess, branchVars, buffers
  <2> QED
    BY <2>1, <2>2, <2>3, <2>4, <2>5 DEF BranchNext
<1> QED
  BY <1>1, <1>2, TypeCorrect, PTL DEF BranchSpec

-------------------------------------------------------------------------------

(* An entry of the BTB holds the tag of a branch of the trace that selects it. *)
THEOREM EntriesCorrect == BranchSpec => []EntriesNameBranches
<1>1. BranchInit => EntriesNameBranches
  BY DEF BranchInit, EntriesNameBranches
<1>2. BranchTypeOK /\ EntriesNameBranches /\ [BranchNext]_branchVars => EntriesNameBranches'
  <2> SUFFICES ASSUME BranchTypeOK, EntriesNameBranches, [BranchNext]_branchVars PROVE EntriesNameBranches'
    OBVIOUS
  <2>1. ASSUME NEW addr \in Addresses, NEW outcome \in Outcomes, NEW direction \in Directions,
               Branch(addr, outcome, direction)
        PROVE  EntriesNameBranches'
    <3>1. BTBIndex(addr) \in BTBIndexes /\ Tag(addr) * BTB_range + BTBIndex(addr) \in Addresses
      BY IndexTypes
    <3> SUFFICES ASSUME NEW b \in BTBIndexes, BTB_buffer'[b] # NoEntry
                 PROVE  BTB_buffer'[b] * BTB_range + b \in Addresses
      BY DEF EntriesNameBranches
    <3>2. BTB_buffer'[b] = BTB_buffer[b] \/ (b = BTBIndex(addr) /\ BTB_buffer'[b] = Tag(addr))
      BY <2>1, <3>1 DEF Branch, Train, BranchTypeOK
    <3>3. CASE BTB_buffer'[b] = BTB_buffer[b]
      BY <3>3 DEF EntriesNameBranches
    <3>4. CASE b = BTBIndex(addr) /\ BTB_buffer'[b] = Tag(addr)
      BY <3>1, <3>4
    <3> QED
      BY <3>2, <3>3, <3>4
  <2>2. ASSUME UNCHANGED BTB_buffer PROVE EntriesNameBranches'
    BY <2>2 DEF EntriesNameBranches
  <2> QED
    BY <2>1, <2>2 DEF BranchNext, LineFails, BranchFails, PrintBranches, branchVars, buffers
<1> QED
  BY <1>1, <1>2, TypeCorrect, PTL DEF BranchSpec

-------------------------------------------------------------------------------

(* The printed mispredictions fit the printed accesses and taken branches.     *)
THEOREM MispredictionsCorrect == BranchSpec => []MispredictionsBalance
<1>1. BranchInit => MispredictionsBalance
  BY DEF BranchInit, MispredictionsBalance
<1>2. BranchTypeOK /\ MispredictionsBalance /\ [BranchNext]_branchVars => MispredictionsBalance'
  <2> SUFFICES ASSUME BranchTypeOK, MispredictionsBalance, [BranchNext]_branchVars PROVE MispredictionsBalance'
    OBVIOUS
  <2>1. ASSUME NEW addr \in Addresses, NEW outcome \in Outcomes, NEW direction \in Directions,
               Branch(addr, outcome, direction)
        PROVE  MispredictionsBalance'
    <3>1. PB_buffer[PBIndex(addr)] \in 0 .. 3
      BY IndexTypes DEF BranchTypeOK
    <3>2. hit' + miss' = hit + miss + One(PredictedTaken(addr))
      BY <2>1 DEF Branch, BranchTypeOK, One
    <3>3. mispredictions' = mispredictions + One(~(PredictedTaken(addr) <=> outcome = "T"))
      BY <2>1, <3>1 DEF Branch, BranchTypeOK, One, Mispredicted, PredictedTaken, takenPrediction,
                        notTakenPrediction, Outcomes
    <3> DEFINE counted == One(direction \in {"forward", "backward"})
               taken   == One(direction \in {"forward", "backward"} /\ outcome = "T")
    <3>4. /\ forward_branches' + backward_branches' = forward_branches + backward_branches + counted
          /\ forward_taken_branches' + backward_taken_branches'
                = forward_taken_branches + backward_taken_branches + taken
      BY <2>1 DEF Branch, CountDirection, BranchTypeOK, One, Directions
    <3>5. BranchTypeOK'
      BY TypeStep
    <3> QED
      BY <2>1, <3>2, <3>3, <3>4, <3>5 DEF Branch, MispredictionsBalance, BranchTypeOK, One, Outcomes
  <2>2. ASSUME UNCHANGED <<directions, mispredictions, hit, miss>>,
               branches' \in {branches, branches + 1}
        PROVE  MispredictionsBalance'
    BY <2>2 DEF MispredictionsBalance, BranchTypeOK, directions
  <2> QED
    BY <2>1, <2>2 DEF BranchNext, LineFails, BranchFails, PrintBranches, branchVars
<1> QED
  BY <1>1, <1>2, TypeCorrect, PTL DEF BranchSpec

-------------------------------------------------------------------------------

(* On the same trace the dynamic predictor counts the branches that the static *)
(* one counts, and a branch at which it fails is in no direction's count.      *)
THEOREM ImplementsStatic == BranchSpec => CountsAsStatic
<1>1. BranchInit => Static!Init
  <2> SUFFICES ASSUME BranchInit PROVE Static!Init
    OBVIOUS
  <2>1. branches - One(state \in {"parse", "null"}) = 0
    <3>1. branches = 0 /\ One(state \in {"parse", "null"}) = 0
      BY DEF BranchInit, One
    <3> QED
      BY ONLY <3>1
  <2>2. forward_taken_branches + backward_branches - backward_taken_branches = 0
    BY DEF BranchInit
  <2> QED
    BY <2>1, <2>2 DEF BranchInit, Static!Init
<1>2. BranchTypeOK /\ [BranchNext]_branchVars => [Static!Next]_Static!vars
  <2> SUFFICES ASSUME BranchTypeOK, [BranchNext]_branchVars PROVE [Static!Next]_Static!vars
    OBVIOUS
  <2>1. ASSUME NEW addr \in Addresses, NEW outcome \in Outcomes, NEW direction \in Directions,
               Branch(addr, outcome, direction)
        PROVE  Static!Branch(outcome, direction)
    <3>1. Static!CountDirection(outcome, direction)
      BY <2>1 DEF Branch, CountDirection, Static!CountDirection, One, Static!One
    <3>2. forward_taken_branches' + backward_branches' - backward_taken_branches'
            = (forward_taken_branches + backward_branches - backward_taken_branches)
              + Static!One(Static!Mispredicted(outcome, direction))
      BY <2>1 DEF Branch, CountDirection, One, Static!One, Static!Mispredicted, Outcomes, Directions, BranchTypeOK
    <3>3. state = "running" /\ state' = state /\ branches' = branches + 1 /\ branches < MaxBranches
      BY <2>1 DEF Branch
    <3>4. branches - One(state \in {"parse", "null"}) = branches
      BY <3>3 DEF One, BranchTypeOK
    <3>5. branches' - One(state' \in {"parse", "null"}) = branches + 1
      BY <3>3 DEF One, BranchTypeOK
    <3> QED
      BY <3>1, <3>2, <3>3, <3>4, <3>5 DEF Static!Branch
  <2>2. ASSUME NEW addr \in Addresses, LineFails(addr) PROVE UNCHANGED Static!vars
    BY <2>2 DEF LineFails, Static!vars, Static!directions, directions, One
  <2>3. ASSUME NEW addr \in Addresses, BranchFails(addr) PROVE UNCHANGED Static!vars
    <3>1. branches - One(state \in {"parse", "null"}) = branches
      BY <2>3 DEF BranchFails, One, BranchTypeOK
    <3>2. branches' - One(state' \in {"parse", "null"}) = branches
      BY <2>3 DEF BranchFails, One, BranchTypeOK
    <3> QED
      BY <2>3, <3>1, <3>2 DEF BranchFails, Static!vars, Static!directions, directions
  <2>4. CASE PrintBranches
    <3>1. /\ branches' = branches
          /\ One(state \in {"parse", "null"}) = 0
          /\ One(state' \in {"parse", "null"}) = 0
      BY <2>4 DEF PrintBranches, One
    <3>2. UNCHANGED directions
      BY <2>4 DEF PrintBranches
    <3>3. Static!EndOfTrace
      BY <2>4, <3>1, <3>2 DEF PrintBranches, Static!EndOfTrace, Static!directions, directions
    <3> QED
      BY <3>3 DEF Static!Next
  <2>5. CASE UNCHANGED branchVars
    BY <2>5 DEF branchVars, directions, Static!vars, Static!directions
  <2> QED
    BY <2>1, <2>2, <2>3, <2>4, <2>5 DEF BranchNext, Static!Next, Outcomes, Directions,
       Static!Outcomes, Static!Directions
<1> QED
  BY <1>1, <1>2, TypeCorrect, PTL DEF BranchSpec, Static!Spec, CountsAsStatic
==============================================================================
