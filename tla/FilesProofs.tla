------------------------------ MODULE FilesProofs -----------------------------
(****************************************************************************)
(* What is proved about the files of a database, in two parts.              *)
(*                                                                          *)
(* It can always be opened (PosixFiles), for any number of tables, failed   *)
(* calls and deaths of the process and the machine.  Any state of the       *)
(* directory that may be found after a crash survives it: what is on the    *)
(* disk of its files leads from CURRENT to a MANIFEST and from there to a   *)
(* whole table.  The present state can besides be opened however much of    *)
(* what is written reaches the disk.  The lemmas that end in Good say which *)
(* changes of the files and the directory keep this, those that end in Step *)
(* that the calls of the background thread, and the deaths, make no others. *)
(*                                                                          *)
(* DestroyDB deletes nothing else (FileNames), for every base and largest   *)
(* number, and whichever files others keep there.  It rests on the names    *)
(* leading back to their numbers, and so on what the recursion over the     *)
(* digits computes; the least place where two such recursions would differ  *)
(* takes the role of an induction.                                          *)
(****************************************************************************)
EXTENDS PosixFiles, FileNames, SequenceTheorems, WellFoundedInduction, TLAPS

IsSeq(s) == Len(s) \in Nat /\ s = [i \in 1..Len(s) |-> s[i]]

(* A file: of what was appended some is written, and some of that synced.     *)
FileOK(f) ==
  /\ f = [data |-> f.data, written |-> f.written, synced |-> f.synced]
  /\ IsSeq(f.data)
  /\ f.written \in 0..Len(f.data)
  /\ f.synced \in 0..f.written

FilesOK(F) == IsSeq(F) /\ \A f \in DOMAIN F : FileOK(F[f])

IsFcn(D) == D = [n \in DOMAIN D |-> D[n]]

(* A directory: every name has a file of its own.                             *)
DirOK(F, D) ==
  /\ IsFcn(D)
  /\ \A n \in DOMAIN D : D[n] \in DOMAIN F
  /\ \A m, n \in DOMAIN D : D[m] = D[n] => m = n

(* The MANIFEST that CURRENT of a directory D names, and what it lists.       *)
Number(F, D) == F[D[CURRENT]].data[1]
ManifestName(F, D) == Name("MANIFEST", Number(F, D))
InUse(F, D) == D[ManifestName(F, D)]

Leads(F, D) ==
  /\ CURRENT \in DOMAIN D
  /\ F[D[CURRENT]].synced >= 1
  /\ Number(F, D) \in Int
  /\ ManifestName(F, D) \in DOMAIN D
  /\ F[InUse(F, D)].synced >= 2

(* The tables that the first k records leave.                                 *)
LiveIn(r, k) ==
  UNION {{n \in r[i].add : \A j \in i + 1..k : n \notin r[j].del} : i \in 1..k}
LiveAt(F, m, k) == LiveIn(F[m].data, k)

Whole(F, D, n) == Name("table", n) \in DOMAIN D /\ F[D[Name("table", n)]].synced >= 1
HasTable(F, D, k, t) ==
  \E n \in LiveAt(F, InUse(F, D), k) :
      n \in Int /\ n <= t /\ LiveAt(F, InUse(F, D), k) = {n} /\ Whole(F, D, n)

(* What is on the disk of D can be opened.                                    *)
Survives(F, D) ==
  /\ DirOK(F, D) /\ Leads(F, D)
  /\ \E t \in LiveAt(F, InUse(F, D), F[InUse(F, D)].synced) :
        HasTable(F, D, F[InUse(F, D)].synced, t)

(* D can be opened, and will be however much of it goes to the disk.          *)
OpensTo(F, D, t) ==
  /\ DirOK(F, D) /\ Leads(F, D)
  /\ t \in Int /\ LiveAt(F, InUse(F, D), F[InUse(F, D)].written) = {t}
  /\ \A k \in F[InUse(F, D)].synced..F[InUse(F, D)].written : HasTable(F, D, k, t)

(* G has all that is on the disk of F.                                        *)
Keeps(F, G) ==
  /\ DOMAIN F \subseteq DOMAIN G
  /\ \A f \in DOMAIN F :
       /\ F[f].synced <= G[f].synced
       /\ \A j \in 1..F[f].synced : G[f].data[j] = F[f].data[j]

(* G has the file m as F has it, up to what is written; more of it may be on  *)
(* the disk.                                                                  *)
SameWritten(F, G, m) ==
  /\ G[m].written = F[m].written
  /\ \A j \in 1..F[m].written : G[m].data[j] = F[m].data[j]

LEMMA NamesDiffer ==
  \A a, b, m, n : Name(a, m) = Name(b, n) <=> a = b /\ m = n
BY DEF Name

LEMMA LiveInSame ==
  ASSUME NEW r, NEW s, NEW k \in Nat, \A j \in 1..k : r[j] = s[j]
  PROVE  LiveIn(r, k) = LiveIn(s, k)
<1>1. \A i \in 1..k : \A j \in i + 1..k : j \in 1..k
  OBVIOUS
<1>2. \A i \in 1..k : {n \in r[i].add : \A j \in i + 1..k : n \notin r[j].del}
                        = {n \in s[i].add : \A j \in i + 1..k : n \notin s[j].del}
  BY <1>1
<1> QED BY <1>2 DEF LiveIn

LEMMA LiveInAppend ==
  ASSUME NEW r, NEW s, NEW k \in Nat, \A j \in 1..k : s[j] = r[j]
  PROVE  LiveIn(s, k + 1) = (LiveIn(r, k) \ s[k + 1].del) \cup s[k + 1].add
<1> DEFINE e == s[k + 1]
<1>1. ASSUME NEW n
      PROVE  n \in LiveIn(s, k + 1) <=> (n \in LiveIn(r, k) /\ n \notin e.del) \/ n \in e.add
  <2>1. n \in LiveIn(s, k + 1) <=>
          \E i \in 1..k + 1 : n \in s[i].add /\ \A j \in i + 1..k + 1 : n \notin s[j].del
    BY DEF LiveIn
  <2>2. n \in LiveIn(r, k) <=>
          \E i \in 1..k : n \in s[i].add /\ \A j \in i + 1..k : n \notin s[j].del
    <3>1. LiveIn(r, k) = LiveIn(s, k)
      BY LiveInSame
    <3> QED BY <3>1 DEF LiveIn
  <2>3. \A i \in 1..k : i + 1..k + 1 = (i + 1..k) \cup {k + 1}
    OBVIOUS
  <2>4. 1..k + 1 = (1..k) \cup {k + 1} /\ (k + 1) + 1..k + 1 = {}
    OBVIOUS
  <2>5. (\E i \in 1..k + 1 : n \in s[i].add /\ \A j \in i + 1..k + 1 : n \notin s[j].del)
          <=> \/ \E i \in 1..k : n \in s[i].add /\ (\A j \in i + 1..k : n \notin s[j].del) /\ n \notin e.del
              \/ n \in e.add
    BY <2>3, <2>4
  <2> QED BY <2>1, <2>2, <2>5
<1> QED BY <1>1

LEMMA FileNumbers ==
  ASSUME NEW F, FilesOK(F), NEW f \in DOMAIN F
  PROVE  /\ Len(F[f].data) \in Nat /\ F[f].written \in Nat /\ F[f].synced \in Nat
         /\ F[f].synced <= F[f].written /\ F[f].written <= Len(F[f].data)
<1>1. FileOK(F[f])
  BY DEF FilesOK
<1>2. Len(F[f].data) \in Nat
  BY <1>1 DEF FileOK, IsSeq
<1> QED BY <1>1, <1>2 DEF FileOK

LEMMA KeepsLeads ==
  ASSUME NEW F, NEW G, NEW D, FilesOK(F), FilesOK(G), Keeps(F, G), DirOK(F, D), Leads(F, D)
  PROVE  /\ DirOK(G, D) /\ Leads(G, D)
         /\ Number(G, D) = Number(F, D)
         /\ InUse(G, D) = InUse(F, D)
         /\ InUse(F, D) \in DOMAIN F
<1>1. D[CURRENT] \in DOMAIN F /\ InUse(F, D) \in DOMAIN F
  BY DEF DirOK, Leads, InUse
<1>2. Number(G, D) = Number(F, D)
  BY <1>1 DEF Keeps, Leads, Number, FilesOK, FileOK
<1>3. ManifestName(G, D) = ManifestName(F, D) /\ InUse(G, D) = InUse(F, D)
  BY <1>2 DEF ManifestName, InUse
<1>4. DirOK(G, D)
  BY DEF DirOK, Keeps
<1>5. /\ F[D[CURRENT]].synced \in Nat /\ G[D[CURRENT]].synced \in Nat
      /\ F[InUse(F, D)].synced \in Nat /\ G[InUse(F, D)].synced \in Nat
  BY <1>1, FileNumbers DEF Keeps
<1>6. Leads(G, D)
  BY <1>1, <1>2, <1>3, <1>5 DEF Keeps, Leads
<1> QED BY <1>1, <1>2, <1>3, <1>4, <1>6

LEMMA WholeKept ==
  ASSUME NEW F, NEW G, NEW D, FilesOK(F), FilesOK(G), Keeps(F, G), DirOK(F, D)
  PROVE  \A n : Whole(F, D, n) => Whole(G, D, n)
<1> SUFFICES ASSUME NEW n, Whole(F, D, n)
             PROVE  Whole(G, D, n)
  OBVIOUS
<1>1. D[Name("table", n)] \in DOMAIN F
  BY DEF Whole, DirOK
<1>2. F[D[Name("table", n)]].synced \in Nat /\ G[D[Name("table", n)]].synced \in Nat
  BY <1>1, FileNumbers DEF Keeps
<1> QED BY <1>1, <1>2 DEF Whole, Keeps

LEMMA KeepsHasTable ==
  ASSUME NEW F, NEW G, NEW D, FilesOK(F), FilesOK(G), Keeps(F, G), DirOK(F, D), Leads(F, D),
         NEW k \in Nat, NEW t, HasTable(F, D, k, t),
         \A j \in 1..k : G[InUse(F, D)].data[j] = F[InUse(F, D)].data[j]
  PROVE  /\ HasTable(G, D, k, t)
         /\ LiveAt(G, InUse(G, D), k) = LiveAt(F, InUse(F, D), k)
<1> DEFINE m == InUse(F, D)
<1>1. InUse(G, D) = m
  BY KeepsLeads
<1>2. LiveAt(G, m, k) = LiveAt(F, m, k)
  <2>1. \A j \in 1..k : G[m].data[j] = F[m].data[j]
    OBVIOUS
  <2> HIDE DEF m
  <2> QED BY <2>1, LiveInSame DEF LiveAt
<1>3. \A n : Whole(F, D, n) => Whole(G, D, n)
  BY WholeKept
<1> HIDE DEF m
<1> QED BY <1>1, <1>2, <1>3 DEF HasTable, m

LEMMA KeepsSurvives ==
  ASSUME NEW F, NEW G, NEW D, FilesOK(F), FilesOK(G), Keeps(F, G), Survives(F, D),
         G[InUse(F, D)].synced = F[InUse(F, D)].synced
  PROVE  Survives(G, D)
<1> DEFINE m == InUse(F, D)  k == F[m].synced
<1>1. DirOK(F, D) /\ Leads(F, D)
  BY DEF Survives
<1>2. DirOK(G, D) /\ Leads(G, D) /\ InUse(G, D) = m /\ m \in DOMAIN F
  BY <1>1, KeepsLeads
<1>3. k \in Nat
  BY <1>2, FileNumbers
<1>4. PICK t \in LiveAt(F, m, k) : HasTable(F, D, k, t)
  BY DEF Survives
<1>5. \A j \in 1..k : G[m].data[j] = F[m].data[j]
  BY <1>2 DEF Keeps
<1> HIDE DEF m, k
<1>6. HasTable(G, D, k, t) /\ LiveAt(G, m, k) = LiveAt(F, m, k)
  BY <1>1, <1>2, <1>3, <1>4, <1>5, KeepsHasTable DEF m
<1>7. G[m].synced = k
  BY DEF m, k
<1> QED BY <1>2, <1>4, <1>6, <1>7 DEF Survives

LEMMA KeepsOpens ==
  ASSUME NEW F, NEW G, NEW D, NEW t, FilesOK(F), FilesOK(G), Keeps(F, G), OpensTo(F, D, t),
         SameWritten(F, G, InUse(F, D))
  PROVE  OpensTo(G, D, t)
<1> DEFINE m == InUse(F, D)
<1>1. DirOK(F, D) /\ Leads(F, D)
  BY DEF OpensTo
<1>2. DirOK(G, D) /\ Leads(G, D) /\ InUse(G, D) = m /\ m \in DOMAIN F
  BY <1>1, KeepsLeads
<1> DEFINE lo == F[m].synced  hi == F[m].written
<1>3. lo \in Nat /\ hi \in Nat /\ lo <= hi
  BY <1>2, FileNumbers
<1>4. G[m].written = hi /\ G[m].synced \in Nat /\ lo <= G[m].synced
  BY <1>2, FileNumbers DEF SameWritten, Keeps
<1>5. ASSUME NEW k \in lo..hi
      PROVE  HasTable(G, D, k, t) /\ LiveAt(G, m, k) = LiveAt(F, m, k)
  <2>1. HasTable(F, D, k, t)
    BY DEF OpensTo
  <2>2. k \in Nat /\ \A j \in 1..k : G[InUse(F, D)].data[j] = F[InUse(F, D)].data[j]
    BY <1>3 DEF SameWritten
  <2>3. HasTable(G, D, k, t) /\ LiveAt(G, InUse(G, D), k) = LiveAt(F, InUse(F, D), k)
    BY <1>1, <2>1, <2>2, KeepsHasTable
  <2> QED BY <1>2, <2>3
<1>6. t \in Int /\ LiveAt(F, m, hi) = {t}
  BY DEF OpensTo
<1> HIDE DEF m, lo, hi
<1>7. LiveAt(G, m, hi) = {t}
  BY <1>3, <1>5, <1>6
<1> QED BY <1>2, <1>3, <1>4, <1>5, <1>6, <1>7 DEF OpensTo

LEMMA OpensSurvives ==
  ASSUME NEW F, NEW D, NEW t, FilesOK(F), OpensTo(F, D, t)
  PROVE  Survives(F, D)
<1> DEFINE m == InUse(F, D)  k == F[m].synced
<1>1. m \in DOMAIN F
  BY DEF OpensTo, DirOK, Leads, InUse
<1>2. k \in F[m].synced..F[m].written
  BY <1>1, FileNumbers
<1>3. HasTable(F, D, k, t)
  BY <1>2 DEF OpensTo
<1>4. PICK n : n \in LiveAt(F, m, k) /\ n \in Int /\ LiveAt(F, m, k) = {n} /\ Whole(F, D, n)
  BY <1>3 DEF HasTable
<1>5. HasTable(F, D, k, n)
  BY <1>4 DEF HasTable
<1> QED BY <1>4, <1>5 DEF OpensTo, Survives

(* Another directory that has what is needed of D.                            *)
LEMMA DirOpens ==
  ASSUME NEW F, NEW D, NEW E, NEW t, OpensTo(F, D, t), DirOK(F, E),
         CURRENT \in DOMAIN E, E[CURRENT] = D[CURRENT],
         ManifestName(F, D) \in DOMAIN E, E[ManifestName(F, D)] = D[ManifestName(F, D)],
         \A k \in F[InUse(F, D)].synced..F[InUse(F, D)].written, n \in Int :
           n <= t /\ LiveAt(F, InUse(F, D), k) = {n} /\ Name("table", n) \in DOMAIN D =>
             Name("table", n) \in DOMAIN E /\ E[Name("table", n)] = D[Name("table", n)]
  PROVE  OpensTo(F, E, t)
<1> DEFINE m == InUse(F, D)
<1>1. Number(F, E) = Number(F, D) /\ ManifestName(F, E) = ManifestName(F, D) /\ InUse(F, E) = m
  BY DEF Number, ManifestName, InUse
<1>2. Leads(F, E)
  BY <1>1 DEF OpensTo, Leads
<1> HIDE DEF m
<1>3. ASSUME NEW k \in F[m].synced..F[m].written
      PROVE  HasTable(F, E, k, t)
  <2>1. HasTable(F, D, k, t)
    BY <1>3 DEF OpensTo, m
  <2>2. PICK n : n \in LiveAt(F, m, k) /\ n \in Int /\ n <= t /\ LiveAt(F, m, k) = {n} /\ Whole(F, D, n)
    BY <2>1 DEF HasTable, m
  <2>3. Whole(F, E, n)
    BY <2>2 DEF Whole, m
  <2> QED BY <1>1, <2>2, <2>3 DEF HasTable
<1> QED BY <1>1, <1>2, <1>3 DEF OpensTo, m

-----------------------------------------------------------------------------
LEMMA AppendSeq ==
  ASSUME NEW s, IsSeq(s), NEW x
  PROVE  /\ IsSeq(Append(s, x)) /\ Append(s, x) # <<>>
         /\ Len(Append(s, x)) = Len(s) + 1
         /\ \A i \in 1..Len(s) : Append(s, x)[i] = s[i]
         /\ Append(s, x)[Len(s) + 1] = x
         /\ Last(Append(s, x)) = x
         /\ DOMAIN s = 1..Len(s) /\ DOMAIN Append(s, x) = 1..Len(s) + 1
<1> DEFINE S == {s[i] : i \in 1..Len(s)} \cup {x}
<1>1. s \in Seq(S) /\ Len(s) \in Nat
  <2>1. Len(s) \in Nat /\ s = [i \in 1..Len(s) |-> s[i]]
    BY DEF IsSeq
  <2>2. s \in [1..Len(s) -> S]
    BY <2>1
  <2> QED BY <2>1, <2>2, SeqDef
<1>2. x \in S
  OBVIOUS
<1> HIDE DEF S
<1>3. /\ Append(s, x) \in Seq(S) /\ Len(Append(s, x)) = Len(s) + 1
      /\ \A i \in 1..Len(s) : Append(s, x)[i] = s[i]
      /\ Append(s, x)[Len(s) + 1] = x
  BY <1>1, <1>2, AppendProperties
<1>4. DOMAIN s = 1..Len(s) /\ DOMAIN Append(s, x) = 1..Len(s) + 1
  BY <1>1, <1>3, LenProperties
<1>5. Append(s, x) = [i \in 1..Len(s) + 1 |-> Append(s, x)[i]]
  <2>1. \A T \in Seq(S) : T = [i \in 1..Len(T) |-> T[i]]
    BY LenProperties
  <2>2. Append(s, x) = [i \in 1..Len(Append(s, x)) |-> Append(s, x)[i]]
    BY <1>3, <2>1
  <2> QED BY <1>3, <2>2
<1> QED BY <1>1, <1>3, <1>4, <1>5 DEF IsSeq, Last

LEMMA OneSeq ==
  ASSUME NEW x
  PROVE  IsSeq(<<x>>) /\ <<x>> # <<>> /\ Len(<<x>>) = 1 /\ <<x>>[1] = x /\ Last(<<x>>) = x
         /\ DOMAIN <<x>> = {1}
BY DEF IsSeq, Last

(* A file changed.                                                            *)
LEMMA FileSet ==
  ASSUME NEW F, NEW f \in DOMAIN F, NEW x, FilesOK(F), FileOK(x)
  PROVE  LET G == [F EXCEPT ![f] = x]
         IN  /\ FilesOK(G) /\ DOMAIN G = DOMAIN F /\ G[f] = x
             /\ \A g \in DOMAIN F : g # f => G[g] = F[g]
<1> DEFINE G == [F EXCEPT ![f] = x]
<1>1. DOMAIN G = DOMAIN F /\ G[f] = x /\ \A g \in DOMAIN F : g # f => G[g] = F[g]
  OBVIOUS
<1>2. IsSeq(F) /\ DOMAIN F = 1..Len(F) /\ Len(F) \in Nat
  BY DEF FilesOK, IsSeq
<1>3. G = [i \in 1..Len(F) |-> G[i]]
  BY <1>2
<1>4. Len(G) = Len(F)
  BY <1>2
<1>5. IsSeq(G)
  BY <1>2, <1>3, <1>4 DEF IsSeq
<1>6. \A g \in DOMAIN G : FileOK(G[g])
  BY <1>1 DEF FilesOK
<1> HIDE DEF G
<1> QED BY <1>1, <1>5, <1>6 DEF FilesOK, G

NewFile == [data |-> <<>>, written |-> 0, synced |-> 0]

LEMMA FileAdded ==
  ASSUME NEW F, FilesOK(F)
  PROVE  LET G == Append(F, NewFile)
         IN  /\ FilesOK(G) /\ DOMAIN G = DOMAIN F \cup {Len(F) + 1} /\ Len(F) + 1 \notin DOMAIN F
             /\ G[Len(F) + 1] = NewFile
             /\ \A g \in DOMAIN F : G[g] = F[g]
             /\ Len(F) + 1 \in Nat
<1> DEFINE G == Append(F, NewFile)
<1>1. IsSeq(F) /\ DOMAIN F = 1..Len(F) /\ Len(F) \in Nat
  BY DEF FilesOK, IsSeq
<1>2. /\ IsSeq(G) /\ G[Len(F) + 1] = NewFile /\ DOMAIN G = 1..Len(F) + 1
      /\ \A g \in 1..Len(F) : G[g] = F[g]
  BY <1>1, AppendSeq
<1>3. FileOK(NewFile)
  BY DEF FileOK, NewFile, IsSeq
<1> HIDE DEF G
<1>4. 1..Len(F) + 1 = (1..Len(F)) \cup {Len(F) + 1} /\ Len(F) + 1 \notin 1..Len(F)
  BY <1>1
<1>5. \A g \in DOMAIN G : FileOK(G[g])
  BY <1>1, <1>2, <1>3, <1>4 DEF FilesOK
<1> QED BY <1>1, <1>2, <1>4, <1>5 DEF FilesOK, G

(* The states of the directory after steps that leave what is on the disk.    *)
LEMMA OldSurvive ==
  ASSUME NEW F, NEW G, FilesOK(F), FilesOK(G), Keeps(F, G),
         NEW E, \A i \in DOMAIN E : Survives(F, E[i]),
         \A f \in DOMAIN F : G[f].synced = F[f].synced
  PROVE  \A i \in DOMAIN E : Survives(G, E[i])
<1> SUFFICES ASSUME NEW i \in DOMAIN E
             PROVE  Survives(G, E[i])
  OBVIOUS
<1>1. Survives(F, E[i])
  OBVIOUS
<1>2. InUse(F, E[i]) \in DOMAIN F
  BY <1>1 DEF Survives, DirOK, Leads, InUse
<1> QED BY <1>1, <1>2, KeepsSurvives

LEMMA AppendSurvives ==
  ASSUME NEW F, NEW G, FilesOK(F), FilesOK(G), Keeps(F, G),
         NEW E, IsSeq(E), \A i \in DOMAIN E : Survives(F, E[i]),
         NEW d, NEW t, OpensTo(G, d, t),
         \A f \in DOMAIN F : G[f].synced = F[f].synced
  PROVE  \A i \in DOMAIN Append(E, d) : Survives(G, Append(E, d)[i])
<1>1. Survives(G, d)
  BY OpensSurvives
<1>2. \A i \in DOMAIN E : Survives(G, E[i])
  BY OldSurvive
<1>3. DOMAIN E = 1..Len(E) /\ Len(E) \in Nat
  BY DEF IsSeq
<1>4. \A i \in 1..Len(E) + 1 : i \in 1..Len(E) \/ i = Len(E) + 1
  BY <1>3
<1> QED BY <1>1, <1>2, <1>3, <1>4, AppendSeq

-----------------------------------------------------------------------------
(* The files F and the states E of the directory: any state of it survives,   *)
(* and the present one can be opened at no newer table than t.                *)
Good(F, E, t) ==
  /\ FilesOK(F)
  /\ IsSeq(E) /\ E # <<>>
  /\ \A i \in DOMAIN E : Survives(F, E[i])
  /\ OpensTo(F, Last(E), t)

LEMMA GoodFacts ==
  ASSUME NEW F, NEW E, NEW t, Good(F, E, t)
  PROVE  LET D == Last(E) IN
         /\ DirOK(F, D) /\ Leads(F, D) /\ t \in Int
         /\ D[CURRENT] \in DOMAIN F /\ InUse(F, D) \in DOMAIN F
         /\ CURRENT \in DOMAIN D /\ ManifestName(F, D) \in DOMAIN D
         /\ Number(F, D) \in Int
BY DEF Good, OpensTo, DirOK, Leads, InUse

(* A name that is not of a table up to t; one that is not of a table that the *)
(* MANIFEST in use may list.                                                  *)
NewerThan(t, name) == \A n \in Int : n <= t => name # Name("table", n)
NotListed(F, D, t, name) ==
  \A k \in F[InUse(F, D)].synced..F[InUse(F, D)].written, n \in Int :
    n <= t /\ LiveAt(F, InUse(F, D), k) = {n} => name # Name("table", n)

LEMMA CreateGood ==
  ASSUME NEW F, NEW E, NEW t, Good(F, E, t),
         NEW name, name # CURRENT, name # ManifestName(F, Last(E)),
         NewerThan(t, name),
         NEW d, IsFcn(d), DOMAIN d = DOMAIN Last(E) \cup {name},
         d[name] = Len(F) + 1, \A n \in DOMAIN Last(E) : n # name => d[n] = Last(E)[n]
  PROVE  /\ Good(Append(F, NewFile), Append(E, d), t)
         /\ Keeps(F, Append(F, NewFile))
         /\ Last(Append(E, d)) = d
         /\ Number(Append(F, NewFile), d) = Number(F, Last(E))
<1> DEFINE G == Append(F, NewFile)  D == Last(E)
<1>1. FilesOK(F) /\ IsSeq(E) /\ E # <<>> /\ OpensTo(F, D, t) /\ \A i \in DOMAIN E : Survives(F, E[i])
  BY DEF Good
<1>2. /\ FilesOK(G) /\ DOMAIN G = DOMAIN F \cup {Len(F) + 1} /\ Len(F) + 1 \notin DOMAIN F
      /\ \A g \in DOMAIN F : G[g] = F[g]
  BY <1>1, FileAdded
<1>3. /\ DirOK(F, D) /\ Leads(F, D) /\ InUse(F, D) \in DOMAIN F
      /\ CURRENT \in DOMAIN D /\ ManifestName(F, D) \in DOMAIN D
  BY GoodFacts
<1> HIDE DEF G, D
<1>4. Keeps(F, G)
  BY <1>1, <1>2, FileNumbers DEF Keeps
<1>5. SameWritten(F, G, InUse(F, D))
  BY <1>2, <1>3 DEF SameWritten
<1>6. OpensTo(G, D, t)
  BY <1>1, <1>2, <1>4, <1>5, KeepsOpens
<1>7. /\ Number(G, D) = Number(F, D) /\ InUse(G, D) = InUse(F, D)
      /\ ManifestName(G, D) = ManifestName(F, D) /\ DirOK(G, D)
  BY <1>1, <1>2, <1>3, <1>4, KeepsLeads DEF ManifestName
<1>9. DOMAIN d = DOMAIN D \cup {name} /\ d[name] = Len(F) + 1
      /\ (\A n \in DOMAIN D : n # name => d[n] = D[n]) /\ IsFcn(d)
  BY DEF D
<1>10. DirOK(G, d)
  <2>1. \A n \in DOMAIN d : d[n] \in DOMAIN G
    BY <1>2, <1>3, <1>9 DEF DirOK
  <2>2. \A n \in DOMAIN D : d[name] # D[n]
    BY <1>2, <1>3, <1>9 DEF DirOK
  <2>3. \A m, n \in DOMAIN d : d[m] = d[n] => m = n
    BY <1>3, <1>9, <2>2 DEF DirOK
  <2> QED BY <1>9, <2>1, <2>3 DEF DirOK
<1>11. CURRENT # name /\ ManifestName(G, D) # name
  BY <1>7 DEF D
<1>12. OpensTo(G, d, t)
  <2>1. CURRENT \in DOMAIN d /\ d[CURRENT] = D[CURRENT]
    BY <1>3, <1>9, <1>11
  <2>2. ManifestName(G, D) \in DOMAIN d /\ d[ManifestName(G, D)] = D[ManifestName(G, D)]
    BY <1>3, <1>7, <1>9, <1>11
  <2>3. \A n \in Int : n <= t /\ Name("table", n) \in DOMAIN D =>
           Name("table", n) \in DOMAIN d /\ d[Name("table", n)] = D[Name("table", n)]
    BY <1>9 DEF NewerThan
  <2> QED BY <1>6, <1>10, <2>1, <2>2, <2>3, DirOpens
<1>13. Number(G, d) = Number(G, D)
  BY <1>3, <1>9, <1>11 DEF Number
<1>14. \A f \in DOMAIN F : G[f].synced = F[f].synced
  BY <1>2
<1>15. /\ IsSeq(Append(E, d)) /\ Append(E, d) # <<>> /\ Last(Append(E, d)) = d
       /\ \A i \in DOMAIN Append(E, d) : Survives(G, Append(E, d)[i])
  BY <1>1, <1>2, <1>4, <1>12, <1>14, AppendSurvives, AppendSeq
<1> QED BY <1>2, <1>4, <1>7, <1>12, <1>13, <1>15 DEF Good, G, D

LEMMA UnlinkGood ==
  ASSUME NEW F, NEW E, NEW t, Good(F, E, t),
         NEW name, name # CURRENT, name # ManifestName(F, Last(E)),
         NotListed(F, Last(E), t, name),
         NEW d, d = [n \in DOMAIN Last(E) \ {name} |-> Last(E)[n]]
  PROVE  /\ Good(F, Append(E, d), t)
         /\ Last(Append(E, d)) = d
         /\ Number(F, d) = Number(F, Last(E))
<1> DEFINE D == Last(E)
<1>1. FilesOK(F) /\ IsSeq(E) /\ E # <<>> /\ OpensTo(F, D, t) /\ \A i \in DOMAIN E : Survives(F, E[i])
  BY DEF Good
<1>2. /\ DirOK(F, D) /\ CURRENT \in DOMAIN D /\ ManifestName(F, D) \in DOMAIN D
  BY GoodFacts
<1>3. DOMAIN d = DOMAIN D \ {name} /\ (\A n \in DOMAIN d : d[n] = D[n]) /\ IsFcn(d)
  BY DEF IsFcn
<1>4. name # ManifestName(F, D) /\ NotListed(F, D, t, name)
  OBVIOUS
<1> HIDE DEF D
<1>5. DirOK(F, d)
  BY <1>2, <1>3 DEF DirOK
<1>6. OpensTo(F, d, t)
  <2>1. /\ CURRENT \in DOMAIN d /\ d[CURRENT] = D[CURRENT]
        /\ ManifestName(F, D) \in DOMAIN d /\ d[ManifestName(F, D)] = D[ManifestName(F, D)]
    BY <1>2, <1>3, <1>4
  <2>2. \A k \in F[InUse(F, D)].synced..F[InUse(F, D)].written, n \in Int :
           n <= t /\ LiveAt(F, InUse(F, D), k) = {n} /\ Name("table", n) \in DOMAIN D =>
             Name("table", n) \in DOMAIN d /\ d[Name("table", n)] = D[Name("table", n)]
    BY <1>3, <1>4 DEF NotListed
  <2> QED BY <1>1, <1>5, <2>1, <2>2, DirOpens
<1>7. Number(F, d) = Number(F, D)
  BY <1>2, <1>3 DEF Number
<1>8. Keeps(F, F)
  BY <1>1, FileNumbers DEF Keeps
<1>9. /\ IsSeq(Append(E, d)) /\ Append(E, d) # <<>> /\ Last(Append(E, d)) = d
       /\ \A i \in DOMAIN Append(E, d) : Survives(F, Append(E, d)[i])
  BY <1>1, <1>6, <1>8, AppendSurvives, AppendSeq
<1> QED BY <1>1, <1>6, <1>7, <1>9 DEF Good, D

(* Writing to a file that is not the MANIFEST in use.                         *)
LEMMA WriteGood ==
  ASSUME NEW F, NEW E, NEW t, Good(F, E, t),
         NEW f \in DOMAIN F, NEW x, FileOK(x), x.synced = F[f].synced,
         \A j \in 1..F[f].synced : x.data[j] = F[f].data[j],
         f # InUse(F, Last(E))
  PROVE  /\ Good([F EXCEPT ![f] = x], E, t)
         /\ Keeps(F, [F EXCEPT ![f] = x])
         /\ Number([F EXCEPT ![f] = x], Last(E)) = Number(F, Last(E))
<1> DEFINE G == [F EXCEPT ![f] = x]  D == Last(E)
<1>1. FilesOK(F) /\ IsSeq(E) /\ E # <<>> /\ OpensTo(F, D, t) /\ \A i \in DOMAIN E : Survives(F, E[i])
  BY DEF Good
<1>2. /\ FilesOK(G) /\ DOMAIN G = DOMAIN F /\ G[f] = x
      /\ \A g \in DOMAIN F : g # f => G[g] = F[g]
  BY <1>1, FileSet
<1>3. DirOK(F, D) /\ Leads(F, D) /\ InUse(F, D) \in DOMAIN F
  BY GoodFacts
<1>4. f # InUse(F, D)
  OBVIOUS
<1> HIDE DEF G, D
<1>5. Keeps(F, G)
  BY <1>1, <1>2, FileNumbers DEF Keeps
<1>6. SameWritten(F, G, InUse(F, D))
  BY <1>2, <1>3, <1>4 DEF SameWritten
<1>7. OpensTo(G, D, t)
  BY <1>1, <1>2, <1>5, <1>6, KeepsOpens
<1>8. Number(G, D) = Number(F, D)
  BY <1>1, <1>2, <1>3, <1>5, KeepsLeads
<1>9. \A g \in DOMAIN F : G[g].synced = F[g].synced
  BY <1>2
<1>10. \A i \in DOMAIN E : Survives(G, E[i])
  BY <1>1, <1>2, <1>5, <1>9, OldSurvive
<1> QED BY <1>1, <1>2, <1>5, <1>7, <1>8, <1>10 DEF Good, G, D

(* More of a file on the disk, and the directory with it.  What is only       *)
(* buffered of the MANIFEST in use stays so.                                  *)
LEMMA SyncGood ==
  ASSUME NEW F, NEW E, NEW t, Good(F, E, t),
         NEW f \in DOMAIN F, NEW x, FileOK(x), x.data = F[f].data,
         F[f].synced <= x.synced,
         f = InUse(F, Last(E)) => x.written = F[f].written
  PROVE  /\ Good([F EXCEPT ![f] = x], <<Last(E)>>, t)
         /\ Keeps(F, [F EXCEPT ![f] = x])
         /\ Number([F EXCEPT ![f] = x], Last(E)) = Number(F, Last(E))
<1> DEFINE G == [F EXCEPT ![f] = x]  D == Last(E)
<1>1. FilesOK(F) /\ IsSeq(E) /\ E # <<>> /\ OpensTo(F, D, t) /\ \A i \in DOMAIN E : Survives(F, E[i])
  BY DEF Good
<1>2. /\ FilesOK(G) /\ DOMAIN G = DOMAIN F /\ G[f] = x
      /\ \A g \in DOMAIN F : g # f => G[g] = F[g]
  BY <1>1, FileSet
<1>3. DirOK(F, D) /\ Leads(F, D) /\ InUse(F, D) \in DOMAIN F
  BY GoodFacts
<1>4. f = InUse(F, D) => x.written = F[f].written
  OBVIOUS
<1> HIDE DEF G, D
<1>5. Keeps(F, G)
  BY <1>1, <1>2, FileNumbers DEF Keeps
<1>6. SameWritten(F, G, InUse(F, D))
  BY <1>2, <1>3, <1>4 DEF SameWritten
<1>7. OpensTo(G, D, t)
  BY <1>1, <1>2, <1>5, <1>6, KeepsOpens
<1>8. Number(G, D) = Number(F, D)
  BY <1>1, <1>2, <1>3, <1>5, KeepsLeads
<1>9. /\ IsSeq(<<D>>) /\ <<D>> # <<>> /\ Last(<<D>>) = D
      /\ \A i \in DOMAIN <<D>> : Survives(G, <<D>>[i])
  BY <1>2, <1>7, OpensSurvives, OneSeq
<1> QED BY <1>1, <1>2, <1>5, <1>7, <1>8, <1>9 DEF Good, G, D

LEMMA DirSyncGood ==
  ASSUME NEW F, NEW E, NEW t, Good(F, E, t)
  PROVE  Good(F, <<Last(E)>>, t) /\ Last(<<Last(E)>>) = Last(E)
BY OpensSurvives, OneSeq DEF Good

-----------------------------------------------------------------------------
(* Where the background thread is: with no new MANIFEST, with one, with one   *)
(* or none, and where it does no more.                                        *)
Calm == {"idle", "append table", "sync table", "close table", "drop table", "new manifest", "delete"}
Tmp == {"new tmp", "append tmp", "sync tmp", "close tmp", "rename"}
Fresh == {"snapshot", "drop tmp", "drop manifest"} \cup Tmp
Both == {"record", "sync dir", "sync manifest"}
Ends == {"failed", "down"}

WorkOK ==
  /\ work = [pc |-> work.pc, table |-> work.table, manifest |-> work.manifest,
             descriptor |-> work.descriptor, fresh |-> work.fresh, file |-> work.file]
  /\ work.pc \in Calm \cup Fresh \cup Both \cup Ends
  /\ work.table \in Int /\ work.manifest \in Int /\ work.fresh \in BOOLEAN
  /\ work.pc \in Calm => ~work.fresh
  /\ work.pc \in Fresh => work.fresh

\* the last table that the MANIFEST in use names
Newest == IF ~work.fresh /\ work.pc \in {"sync dir", "sync manifest"} THEN work.table + 1 ELSE work.table

\* the MANIFEST in use, or the one after it
ManifestOK ==
  /\ work.fresh => work.manifest = Number(files, Dir) + 1
  /\ ~work.fresh => work.manifest = Number(files, Dir)

DatabaseOK ==
  /\ \E t \in LiveAt(files, InUse(files, Dir), files[InUse(files, Dir)].written) : Good(files, dirs, t)
  /\ work.pc \notin Ends =>
       /\ Good(files, dirs, Newest)
       /\ ManifestOK

IsAt(name, f) == name \in DOMAIN Dir /\ Dir[name] = f
AllWritten(f) == files[f].written = Len(files[f].data)
AllSynced(f) == AllWritten(f) /\ files[f].synced = Len(files[f].data)
Desc == work.descriptor

TableOK ==
  /\ work.pc \in {"append table", "sync table"} => IsAt(Name("table", work.table + 1), work.file)
  /\ work.pc = "sync table" => Len(files[work.file].data) >= 1
  /\ work.pc \in ({"close table", "new manifest", "snapshot"} \cup Both \cup Tmp) =>
        Whole(files, Dir, work.table + 1)

DescOK ==
  /\ work.pc = "new manifest" => Desc = Closed
  /\ work.pc = "delete" => Desc # Closed
  /\ Desc # Closed /\ work.pc \in Calm =>
        IsAt(Name("MANIFEST", work.manifest), Desc) /\ AllSynced(Desc)
  /\ work.pc \in ({"snapshot"} \cup Both \cup Tmp) => Desc # Closed /\ IsAt(Name("MANIFEST", work.manifest), Desc)
  /\ work.pc = "snapshot" => files[Desc].data = <<>>
  /\ work.pc = "record" =>
       /\ AllWritten(Desc) /\ Len(files[Desc].data) >= 1
       /\ ~work.fresh => AllSynced(Desc)
       /\ LiveAt(files, Desc, Len(files[Desc].data)) = {work.table}
  /\ work.pc \in {"sync dir", "sync manifest"} \cup Tmp =>
       /\ AllWritten(Desc) /\ Len(files[Desc].data) >= 2
       /\ work.pc \in Tmp => AllSynced(Desc)
       /\ LiveAt(files, Desc, Len(files[Desc].data)) = {work.table + 1}

TmpOK ==
  /\ work.pc \in Tmp \ {"new tmp"} => IsAt(Name("tmp", work.manifest), work.file)
  /\ work.pc = "append tmp" => files[work.file].data = <<>>
  /\ work.pc \in {"sync tmp", "close tmp", "rename"} => files[work.file].data = <<work.manifest>>
  /\ work.pc \in {"close tmp", "rename"} => files[work.file].synced = 1


FilesInv == WorkOK /\ DatabaseOK /\ TableOK /\ DescOK /\ TmpOK

LEMMA SomeGood ==
  ASSUME NEW F, NEW E, NEW t, Good(F, E, t)
  PROVE  \E u \in LiveAt(F, InUse(F, Last(E)), F[InUse(F, Last(E))].written) : Good(F, E, u)
BY DEF Good, OpensTo

(* What Create leaves of a good directory and its files.                      *)
Created(t, name) ==
  /\ Good(files', dirs', t) /\ Keeps(files, files')
  /\ Number(files', Dir') = Number(files, Dir)
  /\ DOMAIN Dir' = DOMAIN Dir \cup {name} /\ Dir'[name] = Len(files) + 1
  /\ \A n \in DOMAIN Dir : n # name => Dir'[n] = Dir[n]
  /\ Len(files) + 1 \in Nat /\ Len(files) + 1 \notin DOMAIN files
  /\ DOMAIN files' = DOMAIN files \cup {Len(files) + 1}
  /\ files'[Len(files) + 1] = NewFile
  /\ \A f \in DOMAIN files : files'[f] = files[f]

LEMMA CreateStep ==
  ASSUME NEW t, Good(files, dirs, t), NEW name, Create(name),
         name # CURRENT, name # ManifestName(files, Dir),
         NewerThan(t, name)
  PROVE  Created(t, name)
<1> DEFINE d == [n \in DOMAIN Dir \cup {name} |-> IF n = name THEN Len(files) + 1 ELSE Dir[n]]
<1>1. dirs' = Append(dirs, d) /\ files' = Append(files, NewFile)
  BY DEF Create, Change, NewFile
<1>3. IsFcn(d) /\ DOMAIN d = DOMAIN Dir \cup {name} /\ d[name] = Len(files) + 1
      /\ \A n \in DOMAIN Dir : n # name => d[n] = Dir[n]
  BY DEF IsFcn
<1> HIDE DEF d
<1>4. /\ Good(files', dirs', t) /\ Keeps(files, files')
      /\ Last(dirs') = d /\ Number(files', d) = Number(files, Last(dirs))
  <2>1. name # ManifestName(files, Last(dirs))
    BY DEF Dir
  <2>2. /\ DOMAIN d = DOMAIN Last(dirs) \cup {name} /\ IsFcn(d)
        /\ d[name] = Len(files) + 1 /\ \A n \in DOMAIN Last(dirs) : n # name => d[n] = Last(dirs)[n]
    BY <1>3 DEF Dir
  <2>3. /\ Good(Append(files, NewFile), Append(dirs, d), t)
        /\ Keeps(files, Append(files, NewFile))
        /\ Last(Append(dirs, d)) = d
        /\ Number(Append(files, NewFile), d) = Number(files, Last(dirs))
    BY <2>1, <2>2, CreateGood, GoodFacts
  <2> QED BY <1>1, <2>3
<1>5. Dir' = d
  BY <1>4 DEF Dir
<1>6. FilesOK(files)
  BY DEF Good
<1>7. /\ Len(files) + 1 \in Nat /\ Len(files) + 1 \notin DOMAIN files
      /\ DOMAIN files' = DOMAIN files \cup {Len(files) + 1}
      /\ files'[Len(files) + 1] = NewFile
      /\ \A f \in DOMAIN files : files'[f] = files[f]
  BY <1>1, <1>6, FileAdded
<1> QED BY <1>3, <1>4, <1>5, <1>7 DEF Dir, Created

LEMMA UnlinkStep ==
  ASSUME NEW t, Good(files, dirs, t), NEW name, Unlink(name),
         name # CURRENT, name # ManifestName(files, Dir),
         NotListed(files, Dir, t, name)
  PROVE  /\ Good(files', dirs', t) /\ files' = files
         /\ Number(files', Dir') = Number(files, Dir)
         /\ DOMAIN Dir' = DOMAIN Dir \ {name}
         /\ \A n \in DOMAIN Dir : n # name => Dir'[n] = Dir[n]
<1> DEFINE d == [n \in DOMAIN Dir \ {name} |-> Dir[n]]
<1>1. dirs' = Append(dirs, d) /\ files' = files
  BY DEF Unlink, Change
<1>2. d = [n \in DOMAIN Last(dirs) \ {name} |-> Last(dirs)[n]]
  BY DEF Dir
<1>3. DOMAIN d = DOMAIN Dir \ {name} /\ \A n \in DOMAIN Dir : n # name => d[n] = Dir[n]
  OBVIOUS
<1> HIDE DEF d
<1>4. Good(files, Append(dirs, d), t) /\ Last(Append(dirs, d)) = d /\ Number(files, d) = Number(files, Last(dirs))
  BY <1>2, UnlinkGood DEF Dir
<1>5. Dir' = d
  BY <1>1, <1>4 DEF Dir
<1> QED BY <1>1, <1>3, <1>4, <1>5 DEF Dir

(* What a write of f to x leaves alone.                                       *)
OnlyFile(f, x) ==
  /\ files' = [files EXCEPT ![f] = x]
  /\ DOMAIN files' = DOMAIN files /\ files'[f] = x
  /\ \A g \in DOMAIN files : g # f => files'[g] = files[g]

LEMMA WriteStep ==
  ASSUME NEW t, Good(files, dirs, t), NEW f \in DOMAIN files, NEW x, FileOK(x),
         x.synced = files[f].synced, \A j \in 1..files[f].synced : x.data[j] = files[f].data[j],
         f # InUse(files, Dir),
         files' = [files EXCEPT ![f] = x], dirs' = dirs
  PROVE  /\ Good(files', dirs', t) /\ Keeps(files, files') /\ OnlyFile(f, x)
         /\ Dir' = Dir /\ Number(files', Dir') = Number(files, Dir)
<1>1. FilesOK(files)
  BY DEF Good
<1>2. OnlyFile(f, x)
  BY <1>1, FileSet DEF OnlyFile
<1>3. Good(files', dirs, t) /\ Keeps(files, files') /\ Number(files', Last(dirs)) = Number(files, Last(dirs))
  BY WriteGood DEF Dir
<1> QED BY <1>2, <1>3 DEF Dir

LEMMA AppendDataStep ==
  ASSUME NEW t, Good(files, dirs, t), NEW f \in DOMAIN files, NEW data, AppendData(f, data),
         f # InUse(files, Dir)
  PROVE  /\ Good(files', dirs', t) /\ Keeps(files, files')
         /\ Dir' = Dir /\ Number(files', Dir') = Number(files, Dir)
         /\ \E more : OnlyFile(f, [data |-> Append(files[f].data, data), written |-> more,
                                    synced |-> files[f].synced])
<1>1. FileOK(files[f]) /\ IsSeq(files[f].data)
  BY DEF Good, FilesOK, FileOK
<1>2. PICK more \in {files[f].written, Len(files[f].data) + 1} :
        files' = [files EXCEPT ![f].data = Append(@, data), ![f].written = more]
  BY DEF AppendData
<1> DEFINE x == [data |-> Append(files[f].data, data), written |-> more, synced |-> files[f].synced]
<1>3. files' = [files EXCEPT ![f] = x] /\ dirs' = dirs
  BY <1>1, <1>2 DEF AppendData, FileOK
<1>4. /\ IsSeq(x.data) /\ Len(x.data) = Len(files[f].data) + 1
      /\ \A j \in 1..Len(files[f].data) : x.data[j] = files[f].data[j]
  BY <1>1, AppendSeq
<1>5. files[f].synced <= Len(files[f].data) /\ Len(files[f].data) \in Nat /\ files[f].synced \in Nat
      /\ files[f].written \in Nat /\ files[f].synced <= files[f].written /\ files[f].written <= Len(files[f].data)
  BY FileNumbers DEF Good
<1>6. FileOK(x)
  BY <1>2, <1>4, <1>5 DEF FileOK
<1>7. x.synced = files[f].synced /\ \A j \in 1..files[f].synced : x.data[j] = files[f].data[j]
  BY <1>4, <1>5
<1> HIDE DEF x
<1>8. /\ Good(files', dirs', t) /\ Keeps(files, files') /\ OnlyFile(f, x)
      /\ Dir' = Dir /\ Number(files', Dir') = Number(files, Dir)
  BY <1>3, <1>6, <1>7, WriteStep
<1> QED BY <1>8 DEF x

LEMMA SyncStep ==
  ASSUME Journaled, NEW t, Good(files, dirs, t), NEW f \in DOMAIN files, Sync(f),
         f = InUse(files, Dir) => AllWritten(f)
  PROVE  /\ Good(files', dirs', t) /\ Keeps(files, files')
         /\ Dir' = Dir /\ Number(files', Dir') = Number(files, Dir)
         /\ OnlyFile(f, [data |-> files[f].data, written |-> Len(files[f].data),
                         synced |-> Len(files[f].data)])
<1>1. FilesOK(files) /\ FileOK(files[f]) /\ IsSeq(files[f].data)
  BY DEF Good, FilesOK, FileOK
<1> DEFINE x == [data |-> files[f].data, written |-> Len(files[f].data), synced |-> Len(files[f].data)]
<1>2. files' = [files EXCEPT ![f] = x] /\ dirs' = <<Dir>>
  <2>1. Flush(f) = [data |-> files[f].data, written |-> Len(files[f].data), synced |-> files[f].synced]
    BY <1>1 DEF Flush, FileOK
  <2>2. [Flush(f) EXCEPT !.synced = Len(files[f].data)] = x
    BY <2>1
  <2> QED BY <2>2 DEF Sync
<1>3. files[f].synced <= Len(files[f].data) /\ Len(files[f].data) \in Nat
  BY <1>1, FileNumbers
<1>4. FileOK(x)
  BY <1>1, <1>3 DEF FileOK
<1>5. x.data = files[f].data /\ files[f].synced <= x.synced
      /\ (f = InUse(files, Last(dirs)) => x.written = files[f].written)
  BY <1>3 DEF AllWritten, Dir
<1> HIDE DEF x
<1>6. OnlyFile(f, x)
  BY <1>1, <1>2, <1>4, FileSet DEF OnlyFile
<1>7. /\ Good(files', <<Last(dirs)>>, t) /\ Keeps(files, files')
      /\ Number(files', Last(dirs)) = Number(files, Last(dirs))
  BY <1>2, <1>4, <1>5, SyncGood
<1>8. dirs' = <<Last(dirs)>> /\ Last(dirs') = Last(dirs)
  BY <1>2, OneSeq DEF Dir
<1> QED BY <1>6, <1>7, <1>8 DEF Dir, x

-----------------------------------------------------------------------------
(* What FilesInv says where the work goes on, with the present files and      *)
(* directory.                                                                 *)
LEMMA Going ==
  ASSUME FilesInv, work.pc \notin Ends
  PROVE  /\ Good(files, dirs, Newest)
         /\ FilesOK(files) /\ DirOK(files, Dir) /\ Leads(files, Dir)
         /\ ManifestOK
         /\ work.table \in Int /\ work.manifest \in Int /\ work.fresh \in BOOLEAN
         /\ Number(files, Dir) \in Int
         /\ Dir[CURRENT] \in DOMAIN files /\ InUse(files, Dir) \in DOMAIN files
         /\ CURRENT \in DOMAIN Dir /\ ManifestName(files, Dir) \in DOMAIN Dir
<1>1. Good(files, dirs, Newest) /\ ManifestOK
  BY DEF FilesInv, DatabaseOK
<1>2. /\ DirOK(files, Dir) /\ Leads(files, Dir)
      /\ Dir[CURRENT] \in DOMAIN files /\ InUse(files, Dir) \in DOMAIN files
      /\ CURRENT \in DOMAIN Dir /\ ManifestName(files, Dir) \in DOMAIN Dir
      /\ Number(files, Dir) \in Int
  BY <1>1, GoodFacts DEF Dir
<1>3. FilesOK(files) /\ work.table \in Int /\ work.manifest \in Int /\ work.fresh \in BOOLEAN
  BY <1>1 DEF Good, FilesInv, WorkOK
<1> QED BY <1>1, <1>2, <1>3

(* The invariant after a step, from what the step does to each part.          *)
LEMMA GoesOn ==
  ASSUME Good(files', dirs', Newest'), WorkOK', TableOK', DescOK', TmpOK',
         ManifestOK'
  PROVE  FilesInv'
<1>1. \E u \in LiveAt(files', InUse(files', Last(dirs')), files'[InUse(files', Last(dirs'))].written) :
         Good(files', dirs', u)
  BY SomeGood
<1> QED BY <1>1 DEF FilesInv, DatabaseOK, Dir

LEMMA Stops ==
  ASSUME NEW t, Good(files', dirs', t), WorkOK', work'.pc \in Ends
  PROVE  FilesInv'
<1>1. \E u \in LiveAt(files', InUse(files', Last(dirs')), files'[InUse(files', Last(dirs'))].written) :
         Good(files', dirs', u)
  BY SomeGood
<1> QED BY <1>1 DEF FilesInv, DatabaseOK, Dir, TableOK, DescOK, TmpOK, Ends, Calm, Fresh, Both, Tmp

(* A call that fails changes nothing but where the work goes on.              *)
LEMMA FailsStep ==
  ASSUME FilesInv, NEW here, NEW fail, Fails(here, fail),
         \/ fail = "failed"
         \/ here \in Calm /\ fail = "drop table"
         \/ here = "delete" /\ fail = "idle"
         \/ here \in Fresh \cup Both /\ work.fresh /\ fail \in {"drop tmp", "drop manifest"}
  PROVE  FilesInv'
<1>1. /\ work.pc = here /\ work'.pc = fail /\ work'.table = work.table
      /\ work'.manifest = work.manifest /\ work'.descriptor = work.descriptor
      /\ work'.fresh = work.fresh /\ work'.file = work.file
      /\ work' = [pc |-> work'.pc, table |-> work'.table, manifest |-> work'.manifest,
                  descriptor |-> work'.descriptor, fresh |-> work'.fresh, file |-> work'.file]
      /\ files' = files /\ dirs' = dirs
  BY DEF Fails, FilesInv, WorkOK
<1>2. CASE fail = "failed"
  <2>1. PICK t \in LiveAt(files, InUse(files, Dir), files[InUse(files, Dir)].written) : Good(files, dirs, t)
    BY DEF FilesInv, DatabaseOK
  <2>2. WorkOK'
    BY <1>1, <1>2 DEF WorkOK, FilesInv, Calm, Fresh, Both, Tmp, Ends
  <2> QED BY <1>1, <1>2, <2>1, <2>2, Stops DEF Ends
<1>3. CASE here \in Calm /\ fail \in {"drop table", "idle"} /\ (fail = "idle" => here = "delete")
  <2>1. /\ Good(files, dirs, Newest)
        /\ ManifestOK
    BY <1>1, <1>3, Going DEF Calm, Ends
  <2>2. Newest = work.table /\ Newest' = work'.table
    BY <1>1, <1>3 DEF Newest, Calm
  <2>3. WorkOK' /\ TableOK' /\ DescOK' /\ TmpOK'
    <3>1. WorkOK'
      BY <1>1, <1>3 DEF WorkOK, FilesInv, Calm, Fresh, Both, Tmp, Ends
    <3>2. TableOK' /\ TmpOK'
      BY <1>1, <1>3 DEF TableOK, TmpOK, Calm, Fresh, Both, Tmp
    <3>3. Desc # Closed => IsAt(Name("MANIFEST", work.manifest), Desc) /\ AllSynced(Desc)
      BY <1>1, <1>3 DEF FilesInv, DescOK
    <3>4. DescOK'
      BY <1>1, <1>3, <3>3 DEF DescOK, Calm, Fresh, Both, Tmp, Desc, IsAt, AllSynced, AllWritten, Dir
    <3> QED BY <3>1, <3>2, <3>4
  <2>4. ManifestOK'
    BY <1>1, <2>1 DEF Dir, ManifestOK
  <2> QED BY <1>1, <2>1, <2>2, <2>3, <2>4, GoesOn
<1>4. CASE here \in Fresh \cup Both /\ work.fresh /\ fail \in {"drop tmp", "drop manifest"}
  <2>1. /\ Good(files, dirs, Newest)
        /\ ManifestOK
    BY <1>1, <1>4, Going DEF Fresh, Both, Tmp, Ends
  <2>2. Newest = work.table /\ Newest' = work'.table
    BY <1>1, <1>4 DEF Newest
  <2>3. WorkOK'
    BY <1>1, <1>4 DEF WorkOK, FilesInv, Calm, Fresh, Both, Tmp, Ends
  <2>4. TableOK' /\ DescOK' /\ TmpOK'
    BY <1>1, <1>4 DEF TableOK, DescOK, TmpOK, Calm, Fresh, Both, Tmp
  <2>5. ManifestOK'
    BY <1>1, <2>1 DEF Dir, ManifestOK
  <2> QED BY <1>1, <2>1, <2>2, <2>3, <2>4, <2>5, GoesOn
<1> QED BY <1>2, <1>3, <1>4 DEF Calm

-----------------------------------------------------------------------------
(* The fields of work as it is, and as it is after a call that goes on.       *)
WorkFields ==
  work' = [pc |-> work'.pc, table |-> work'.table, manifest |-> work'.manifest,
           descriptor |-> work'.descriptor, fresh |-> work'.fresh, file |-> work'.file]

LEMMA GoesTo ==
  ASSUME FilesInv, NEW here, NEW there, Calls(here, WorkAt(there))
  PROVE  /\ work.pc = here /\ work'.pc = there /\ work'.table = work.table
         /\ work'.manifest = work.manifest /\ work'.descriptor = work.descriptor
         /\ work'.fresh = work.fresh /\ work'.file = work.file
         /\ WorkFields
BY DEF Calls, WorkAt, FilesInv, WorkOK, WorkFields

(* Nothing that is named by another name than name moves.                     *)
LEMMA NewTableStep ==
  ASSUME FilesInv, NewTable
  PROVE  FilesInv'
<1>1. CASE Fails("idle", "failed")
  BY <1>1, FailsStep
<1>2. CASE /\ Calls("idle", [work EXCEPT !.pc = "append table", !.file = Len(files) + 1])
           /\ Create(Name("table", work.table + 1))
  <2> DEFINE name == Name("table", work.table + 1)
  <2>1. /\ work.pc = "idle" /\ work'.pc = "append table" /\ work'.table = work.table
        /\ work'.manifest = work.manifest /\ work'.descriptor = work.descriptor
        /\ work'.fresh = work.fresh /\ work'.file = Len(files) + 1 /\ ~work.fresh
        /\ WorkFields
    BY <1>2 DEF Calls, FilesInv, WorkOK, WorkFields, Calm
  <2>2. Newest = work.table /\ Newest' = work.table
    BY <2>1 DEF Newest
  <2>3. work.pc \notin Ends
    BY <2>1 DEF Ends
  <2>4. name # CURRENT /\ name # ManifestName(files, Dir)
    BY NamesDiffer DEF CURRENT, ManifestName
  <2>5. NewerThan(work.table, name)
    BY <2>3, Going DEF NewerThan, Name
  <2> HIDE DEF name
  <2>6. Create(name)
    BY <1>2 DEF name
  <2>7. Good(files, dirs, work.table) /\ work.manifest = Number(files, Dir) /\ work.table \in Int
    BY <2>1, <2>2, <2>3, Going DEF ManifestOK
  <2>8. /\ Good(files', dirs', work.table) /\ Number(files', Dir') = Number(files, Dir)
        /\ DOMAIN Dir' = DOMAIN Dir \cup {name} /\ Dir'[name] = Len(files) + 1
        /\ \A n \in DOMAIN Dir : n # name => Dir'[n] = Dir[n]
        /\ \A f \in DOMAIN files : files'[f] = files[f]
    <3>1. PICK n, t : n = name /\ t = work.table
      OBVIOUS
    <3>2. Good(files, dirs, t) /\ NewerThan(t, n) /\ Create(n)
          /\ n # CURRENT /\ n # ManifestName(files, Dir)
      BY <2>4, <2>5, <2>6, <2>7, <3>1
    <3>3. Created(t, n)
      BY <3>2, CreateStep
    <3> QED BY <3>1, <3>3 DEF Created
  <2>9. WorkOK'
    BY <2>1 DEF WorkOK, WorkFields, FilesInv, Calm, Fresh, Both, Tmp, Ends
  <2>10. TableOK' /\ TmpOK'
    BY <2>1, <2>8 DEF TableOK, TmpOK, Calm, Fresh, Both, Tmp, IsAt, name
  <2>11. DescOK'
    <3>1. Desc # Closed => IsAt(Name("MANIFEST", work.manifest), Desc) /\ AllSynced(Desc)
      BY <2>1 DEF FilesInv, DescOK, Calm
    <3>2. Name("MANIFEST", work.manifest) # name
      BY NamesDiffer DEF name
    <3>3. Desc # Closed => Desc \in DOMAIN files
      BY <2>3, <3>1, Going DEF IsAt, DirOK
    <3>4. Desc # Closed => (IsAt(Name("MANIFEST", work.manifest), Desc) /\ AllSynced(Desc))'
      BY <2>1, <2>8, <3>1, <3>2, <3>3 DEF IsAt, AllSynced, AllWritten, Desc
    <3> QED BY <2>1, <3>4 DEF DescOK, Desc, Calm, Both, Tmp
  <2>12. ManifestOK'
    BY <2>1, <2>7, <2>8 DEF ManifestOK
  <2> QED BY <2>2, <2>8, <2>9, <2>10, <2>11, <2>12, GoesOn
<1> QED BY <1>1, <1>2 DEF NewTable

(* The file a table is written to is not the MANIFEST in use, nor the         *)
(* descriptor.                                                                *)
LEMMA TableFile ==
  ASSUME FilesInv, work.pc \in {"append table", "sync table"}
  PROVE  /\ work.file \in DOMAIN files /\ work.file # InUse(files, Dir)
         /\ Desc # Closed =>
              IsAt(Name("MANIFEST", work.manifest), Desc) /\ AllSynced(Desc) /\ Desc \in DOMAIN files
              /\ Desc # work.file
         /\ IsAt(Name("table", work.table + 1), work.file)
         /\ Newest = work.table /\ ~work.fresh /\ work.manifest = Number(files, Dir)
         /\ Good(files, dirs, work.table) /\ work.table \in Int /\ work.manifest \in Int
<1>1. work.pc \notin Ends /\ work.pc \in Calm
  BY DEF Ends, Calm
<1>2. IsAt(Name("table", work.table + 1), work.file)
  BY DEF FilesInv, TableOK
<1>3. Desc # Closed => IsAt(Name("MANIFEST", work.manifest), Desc) /\ AllSynced(Desc)
  BY <1>1 DEF FilesInv, DescOK
<1>4. Newest = work.table /\ ~work.fresh
  BY <1>1 DEF Newest, FilesInv, WorkOK
<1>5. work.file # InUse(files, Dir) /\ work.file \in DOMAIN files
  <2>1. ManifestName(files, Dir) # Name("table", work.table + 1)
    BY DEF ManifestName, Name
  <2> QED BY <1>1, <1>2, <2>1, Going DEF IsAt, InUse, DirOK
<1>6. Desc # Closed => Desc \in DOMAIN files /\ Desc # work.file
  <2>1. Name("MANIFEST", work.manifest) # Name("table", work.table + 1)
    BY DEF Name
  <2> QED BY <1>1, <1>2, <1>3, <2>1, Going DEF IsAt, DirOK
<1> QED BY <1>1, <1>2, <1>3, <1>4, <1>5, <1>6, Going DEF ManifestOK

LEMMA AppendTableStep ==
  ASSUME FilesInv, AppendTable
  PROVE  FilesInv'
<1>1. CASE Fails("append table", "drop table")
  BY <1>1, FailsStep DEF Calm
<1>2. CASE Calls("append table", WorkAt("sync table")) /\ AppendData(work.file, "entries")
  <2> DEFINE f == work.file
  <2>1. /\ work.pc = "append table" /\ work'.pc = "sync table" /\ work'.table = work.table
        /\ work'.manifest = work.manifest /\ work'.descriptor = work.descriptor
        /\ work'.fresh = work.fresh /\ work'.file = work.file /\ WorkFields
    BY <1>2, GoesTo
  <2>2. /\ f \in DOMAIN files /\ f # InUse(files, Dir)
        /\ Desc # Closed =>
              IsAt(Name("MANIFEST", work.manifest), Desc) /\ AllSynced(Desc) /\ Desc \in DOMAIN files
              /\ Desc # f
        /\ IsAt(Name("table", work.table + 1), f)
        /\ Newest = work.table /\ ~work.fresh /\ work.manifest = Number(files, Dir)
        /\ Good(files, dirs, work.table) /\ work.table \in Int /\ work.manifest \in Int
    BY <2>1, TableFile
  <2> HIDE DEF f
  <2>3. AppendData(f, "entries")
    BY <1>2 DEF f
  <2>4. /\ Good(files', dirs', work.table) /\ Dir' = Dir /\ Number(files', Dir') = Number(files, Dir)
        /\ \E more : OnlyFile(f, [data |-> Append(files[f].data, "entries"), written |-> more,
                                    synced |-> files[f].synced])
    BY <2>2, <2>3, AppendDataStep
  <2>5. files'[f].data = Append(files[f].data, "entries") /\ \A g \in DOMAIN files : g # f => files'[g] = files[g]
    BY <2>4 DEF OnlyFile
  <2>6. Len(files'[f].data) >= 1
    <3>1. IsSeq(files[f].data)
      BY <2>2 DEF Good, FilesOK, FileOK
    <3> QED BY <2>5, <3>1, AppendSeq DEF IsSeq
  <2>7. WorkOK'
    BY <2>1 DEF WorkOK, WorkFields, FilesInv, Calm, Fresh, Both, Tmp, Ends
  <2>8. TableOK' /\ TmpOK'
    BY <2>1, <2>2, <2>4, <2>6 DEF TableOK, TmpOK, Both, Tmp, IsAt, f
  <2>9. DescOK'
    BY <2>1, <2>2, <2>4, <2>5 DEF DescOK, Desc, Both, Tmp, IsAt, AllSynced, AllWritten
  <2>10. Newest' = work.table
    BY <2>1 DEF Newest
  <2>11. ManifestOK'
    BY <2>1, <2>2, <2>4 DEF ManifestOK
  <2> QED BY <2>4, <2>7, <2>8, <2>9, <2>10, <2>11, GoesOn
<1> QED BY <1>1, <1>2 DEF AppendTable

LEMMA SyncTableStep ==
  ASSUME FilesInv, Journaled, SyncTable
  PROVE  FilesInv'
<1>1. CASE Fails("sync table", "drop table")
  BY <1>1, FailsStep DEF Calm
<1>2. CASE Calls("sync table", WorkAt("close table")) /\ Sync(work.file)
  <2> DEFINE f == work.file
  <2>1. /\ work.pc = "sync table" /\ work'.pc = "close table" /\ work'.table = work.table
        /\ work'.manifest = work.manifest /\ work'.descriptor = work.descriptor
        /\ work'.fresh = work.fresh /\ work'.file = work.file /\ WorkFields
    BY <1>2, GoesTo
  <2>2. /\ f \in DOMAIN files /\ f # InUse(files, Dir)
        /\ Desc # Closed =>
              IsAt(Name("MANIFEST", work.manifest), Desc) /\ AllSynced(Desc) /\ Desc \in DOMAIN files
              /\ Desc # f
        /\ IsAt(Name("table", work.table + 1), f)
        /\ Newest = work.table /\ ~work.fresh /\ work.manifest = Number(files, Dir)
        /\ Good(files, dirs, work.table) /\ work.table \in Int /\ work.manifest \in Int
    BY <2>1, TableFile
  <2>3. Len(files[f].data) >= 1
    BY <2>1 DEF FilesInv, TableOK
  <2> HIDE DEF f
  <2>4. Sync(f)
    BY <1>2 DEF f
  <2>5. /\ Good(files', dirs', work.table) /\ Dir' = Dir /\ Number(files', Dir') = Number(files, Dir)
        /\ OnlyFile(f, [data |-> files[f].data, written |-> Len(files[f].data),
                        synced |-> Len(files[f].data)])
    BY <2>2, <2>4, SyncStep
  <2>6. files'[f].synced >= 1 /\ \A g \in DOMAIN files : g # f => files'[g] = files[g]
    BY <2>3, <2>5 DEF OnlyFile
  <2>7. WorkOK'
    BY <2>1 DEF WorkOK, WorkFields, FilesInv, Calm, Fresh, Both, Tmp, Ends
  <2>8. TableOK' /\ TmpOK'
    BY <2>1, <2>2, <2>5, <2>6 DEF TableOK, TmpOK, Both, Tmp, IsAt, Whole
  <2>9. DescOK'
    BY <2>1, <2>2, <2>5, <2>6 DEF DescOK, Desc, Both, Tmp, IsAt, AllSynced, AllWritten
  <2>10. Newest' = work.table
    BY <2>1 DEF Newest
  <2>11. ManifestOK'
    BY <2>1, <2>2, <2>5 DEF ManifestOK
  <2> QED BY <2>5, <2>7, <2>8, <2>9, <2>10, <2>11, GoesOn
<1> QED BY <1>1, <1>2 DEF SyncTable

(* The table is written; the MANIFEST is opened next, or the open one, which  *)
(* names the tables up to it, goes on.                                        *)
LEMMA CloseTableStep ==
  ASSUME FilesInv, CloseTable
  PROVE  FilesInv'
<1>1. CASE Fails("close table", "drop table")
  BY <1>1, FailsStep DEF Calm
<1>2. CASE /\ Calls("close table", WorkAt(IF work.descriptor = Closed THEN "new manifest" ELSE "record"))
           /\ UNCHANGED <<dirs, files>>
  <2>1. /\ work.pc = "close table" /\ work'.table = work.table
        /\ work'.pc = IF Desc = Closed THEN "new manifest" ELSE "record"
        /\ work'.manifest = work.manifest /\ work'.descriptor = Desc
        /\ work'.fresh = work.fresh /\ work'.file = work.file /\ ~work.fresh
        /\ WorkFields /\ files' = files /\ Dir' = Dir
    BY <1>2 DEF Calls, WorkAt, FilesInv, WorkOK, WorkFields, Calm, Dir, Desc
  <2>2. work.pc \notin Ends /\ work.pc \in Calm /\ work'.pc \notin Ends
    BY <2>1 DEF Ends, Calm
  <2>3. Newest = work.table /\ Newest' = work.table
    BY <2>1 DEF Newest
  <2>4. Good(files', dirs', Newest') /\ ManifestOK'
    BY <1>2, <2>1, <2>2, <2>3, Going DEF ManifestOK
  <2>5. WorkOK'
    BY <2>1 DEF WorkOK, WorkFields, FilesInv, Calm, Fresh, Both, Tmp, Ends
  <2>6. TableOK' /\ TmpOK'
    <3>1. Whole(files, Dir, work.table + 1)
      BY <2>1 DEF FilesInv, TableOK
    <3> QED BY <2>1, <3>1 DEF TableOK, TmpOK, Both, Tmp
  <2>7. Desc # Closed => /\ IsAt(Name("MANIFEST", work.manifest), Desc) /\ AllSynced(Desc)
                         /\ Len(files[Desc].data) >= 1
                         /\ LiveAt(files, Desc, Len(files[Desc].data)) = {work.table}
    <3> SUFFICES ASSUME Desc # Closed
                 PROVE  /\ IsAt(Name("MANIFEST", work.manifest), Desc) /\ AllSynced(Desc)
                        /\ Len(files[Desc].data) >= 1
                        /\ LiveAt(files, Desc, Len(files[Desc].data)) = {work.table}
      OBVIOUS
    <3>1. IsAt(Name("MANIFEST", work.manifest), Desc) /\ AllSynced(Desc)
      BY <2>2 DEF FilesInv, DescOK
    <3>2. Desc = InUse(files, Dir)
      BY <2>1, <2>2, <3>1, Going DEF IsAt, InUse, ManifestName, ManifestOK
    <3>3. OpensTo(files, Dir, work.table)
      BY <2>2, <2>3, Going DEF Good, Dir
    <3> QED BY <3>1, <3>2, <3>3 DEF OpensTo, Leads, AllSynced, AllWritten
  <2>8. DescOK'
    BY <2>1, <2>7 DEF DescOK, Desc, Calm, Both, Tmp, IsAt, AllSynced, AllWritten
  <2> QED BY <2>4, <2>5, <2>6, <2>8, GoesOn
<1> QED BY <1>1, <1>2 DEF CloseTable

(* The name of a file that Dir may lose before the work stops.                *)
LEMMA UnlinkStops ==
  ASSUME FilesInv, work.pc \notin Ends, NEW name, Unlink(name), WorkOK', work'.pc \in Ends,
         name # CURRENT, name # ManifestName(files, Dir),
         NotListed(files, Dir, Newest, name)
  PROVE  FilesInv'
<1>1. PICK t : t = Newest
  OBVIOUS
<1>2. Good(files, dirs, t) /\ NotListed(files, Dir, t, name)
  BY <1>1, Going
<1>3. Good(files', dirs', t)
  BY <1>2, UnlinkStep
<1> QED BY <1>3, Stops

LEMMA DropTableStep ==
  ASSUME FilesInv, DropTable
  PROVE  FilesInv'
<1>1. CASE Fails("drop table", "failed")
  BY <1>1, FailsStep
<1>2. CASE Calls("drop table", WorkAt("failed")) /\ Unlink(Name("table", work.table + 1))
  <2>1. /\ work.pc = "drop table" /\ work'.pc = "failed" /\ work'.table = work.table
        /\ work'.manifest = work.manifest /\ work'.fresh = work.fresh /\ WorkFields
    BY <1>2, GoesTo
  <2>2. work.pc \notin Ends /\ Newest = work.table /\ work'.pc \in Ends
    BY <2>1 DEF Ends, Newest
  <2>3. WorkOK'
    BY <2>1 DEF WorkOK, WorkFields, FilesInv, Calm, Fresh, Both, Tmp, Ends
  <2>4. PICK name : name = Name("table", work.table + 1)
    OBVIOUS
  <2>5. name # CURRENT /\ name # ManifestName(files, Dir)
    BY <2>4, NamesDiffer DEF CURRENT, ManifestName
  <2>6. NotListed(files, Dir, Newest, name)
    <3>1. work.table \in Int
      BY <2>2, Going
    <3> QED BY <2>2, <2>4, <3>1 DEF NotListed, Name
  <2>7. Unlink(name)
    BY <1>2, <2>4
  <2> QED BY <2>2, <2>3, <2>5, <2>6, <2>7, UnlinkStops
<1> QED BY <1>1, <1>2 DEF DropTable

LEMMA DropManifestStep ==
  ASSUME FilesInv, DropManifest
  PROVE  FilesInv'
<1>1. CASE Fails("drop manifest", "failed")
  BY <1>1, FailsStep
<1>2. CASE Calls("drop manifest", WorkAt("failed")) /\ Unlink(Name("MANIFEST", work.manifest))
  <2>1. /\ work.pc = "drop manifest" /\ work'.pc = "failed" /\ work'.table = work.table
        /\ work'.manifest = work.manifest /\ work'.fresh = work.fresh /\ WorkFields
    BY <1>2, GoesTo
  <2>2. work.pc \notin Ends /\ work'.pc \in Ends /\ work.fresh
    BY <2>1 DEF Ends, FilesInv, WorkOK, Fresh
  <2>3. WorkOK'
    BY <2>1 DEF WorkOK, WorkFields, FilesInv, Calm, Fresh, Both, Tmp, Ends
  <2>4. PICK name : name = Name("MANIFEST", work.manifest)
    OBVIOUS
  <2>5. name # CURRENT /\ name # ManifestName(files, Dir)
    <3>1. work.manifest = Number(files, Dir) + 1 /\ Number(files, Dir) \in Int
      BY <2>2, Going DEF ManifestOK
    <3>2. work.manifest # Number(files, Dir)
      BY <3>1
    <3> QED BY <2>4, <3>2, NamesDiffer DEF CURRENT, ManifestName
  <2>6. NotListed(files, Dir, Newest, name)
    BY <2>4, NamesDiffer DEF NotListed
  <2>7. Unlink(name)
    BY <1>2, <2>4
  <2> QED BY <2>2, <2>3, <2>5, <2>6, <2>7, UnlinkStops
<1> QED BY <1>1, <1>2 DEF DropManifest

LEMMA NewManifestStep ==
  ASSUME FilesInv, NewManifest
  PROVE  FilesInv'
<1>1. CASE Fails("new manifest", "failed")
  BY <1>1, FailsStep
<1>2. CASE /\ Calls("new manifest", [work EXCEPT !.pc = "snapshot", !.fresh = TRUE,
                                       !.manifest = @ + 1, !.descriptor = Len(files) + 1])
           /\ Create(Name("MANIFEST", work.manifest + 1))
  <2>1. /\ work.pc = "new manifest" /\ work'.pc = "snapshot" /\ work'.table = work.table
        /\ work'.manifest = work.manifest + 1 /\ work'.descriptor = Len(files) + 1
        /\ ~work.fresh /\ work'.fresh = TRUE /\ WorkFields
    BY <1>2 DEF Calls, FilesInv, WorkOK, WorkFields, Calm
  <2>2. work.pc \notin Ends /\ Newest = work.table /\ Newest' = work.table
    BY <2>1 DEF Ends, Newest
  <2>3. /\ Good(files, dirs, work.table) /\ work.manifest = Number(files, Dir)
        /\ work.table \in Int /\ work.manifest \in Int
    BY <2>1, <2>2, Going DEF ManifestOK
  <2>4. PICK n, t : n = Name("MANIFEST", work.manifest + 1) /\ t = work.table
    OBVIOUS
  <2>5. Good(files, dirs, t) /\ Create(n)
    BY <1>2, <2>3, <2>4
  <2>6. n # CURRENT /\ n # ManifestName(files, Dir) /\ NewerThan(t, n)
    <3>1. work.manifest + 1 # Number(files, Dir)
      BY <2>3
    <3> QED BY <2>4, <3>1, NamesDiffer DEF CURRENT, ManifestName, NewerThan
  <2>7. Created(t, n)
    BY <2>5, <2>6, CreateStep
  <2>8. WorkOK'
    <3>1. work'.table \in Int /\ work'.manifest \in Int /\ work'.fresh \in BOOLEAN
      <4> PICK m \in Int : m = work.manifest
        BY <2>3
      <4>1. m + 1 \in Int
        OBVIOUS
      <4>2. work'.manifest = m + 1
        BY ONLY <2>1, m = work.manifest
      <4> QED BY <2>1, <2>3, <4>1, <4>2
    <3>2. work'.pc \in Fresh /\ work'.pc \notin Calm
      BY <2>1 DEF Fresh, Calm
    <3> QED BY <2>1, <3>1, <3>2 DEF WorkOK, WorkFields
  <2>9. TableOK' /\ TmpOK'
    <3>1. Whole(files, Dir, work.table + 1)
      BY <2>1 DEF FilesInv, TableOK
    <3>2. Whole(files', Dir', work.table + 1)
      <4>1. Name("table", work.table + 1) # n
        BY <2>4, NamesDiffer
      <4>2. Dir[Name("table", work.table + 1)] \in DOMAIN files
        BY <2>2, <3>1, Going DEF Whole, DirOK
      <4> QED BY <2>7, <3>1, <4>1, <4>2 DEF Whole, Created
    <3> QED BY <2>1, <3>2 DEF TableOK, TmpOK, Both, Tmp
  <2>10. DescOK'
    <3>1. n \in DOMAIN Dir' /\ Dir'[n] = Len(files) + 1 /\ n = Name("MANIFEST", work'.manifest)
      BY <2>1, <2>4, <2>7 DEF Created
    <3>2. files'[Len(files) + 1].data = <<>> /\ Len(files) + 1 # Closed
      BY <2>7, FilesAssumption DEF Created, NewFile
    <3> QED BY <2>1, <3>1, <3>2 DEF DescOK, Desc, Calm, Both, Tmp, IsAt
  <2>11. ManifestOK'
    BY <2>1, <2>3, <2>7 DEF ManifestOK, Created
  <2> QED BY <2>2, <2>4, <2>7, <2>8, <2>9, <2>10, <2>11, GoesOn DEF Created
<1> QED BY <1>1, <1>2 DEF NewManifest

(* A new MANIFEST is not the one in use until CURRENT names it; one that was  *)
(* open before is.                                                            *)
LEMMA FreshFile ==
  ASSUME FilesInv, work.fresh, work.pc \in {"snapshot"} \cup Both \cup Tmp
  PROVE  /\ Desc \in DOMAIN files /\ Desc # InUse(files, Dir)
         /\ IsAt(Name("MANIFEST", work.manifest), Desc) /\ Desc # Closed
         /\ Newest = work.table /\ Good(files, dirs, work.table)
         /\ work.manifest = Number(files, Dir) + 1 /\ Number(files, Dir) \in Int
         /\ work.table \in Int /\ work.manifest \in Int
         /\ Whole(files, Dir, work.table + 1)
         /\ work.pc \notin Ends
<1>1. work.pc \notin Ends
  BY DEF Ends, Both, Tmp
<1>2. Newest = work.table
  BY DEF Newest
<1>3. Desc # Closed /\ IsAt(Name("MANIFEST", work.manifest), Desc)
  BY DEF FilesInv, DescOK
<1>4. Whole(files, Dir, work.table + 1)
  BY DEF FilesInv, TableOK
<1>5. /\ work.manifest = Number(files, Dir) + 1 /\ Good(files, dirs, work.table)
      /\ Number(files, Dir) \in Int /\ work.table \in Int /\ work.manifest \in Int
      /\ DirOK(files, Dir) /\ ManifestName(files, Dir) \in DOMAIN Dir
  BY <1>1, <1>2, Going DEF ManifestOK
<1>6. Name("MANIFEST", work.manifest) # ManifestName(files, Dir)
  <2>1. work.manifest # Number(files, Dir)
    BY <1>5
  <2> QED BY <2>1, NamesDiffer DEF ManifestName
<1>7. Desc \in DOMAIN files /\ Desc # InUse(files, Dir)
  BY <1>3, <1>5, <1>6 DEF IsAt, InUse, DirOK
<1> QED BY <1>1, <1>2, <1>3, <1>4, <1>5, <1>7

LEMMA OldFile ==
  ASSUME FilesInv, ~work.fresh, work.pc \in Both
  PROVE  /\ Desc \in DOMAIN files /\ Desc = InUse(files, Dir)
         /\ IsAt(Name("MANIFEST", work.manifest), Desc) /\ Desc # Closed
         /\ Newest = (IF work.pc = "record" THEN work.table ELSE work.table + 1)
         /\ Good(files, dirs, Newest)
         /\ work.manifest = Number(files, Dir)
         /\ work.table \in Int /\ work.manifest \in Int
         /\ Whole(files, Dir, work.table + 1)
         /\ work.pc \notin Ends
<1>1. work.pc \notin Ends
  BY DEF Ends, Both
<1>2. Newest = IF work.pc = "record" THEN work.table ELSE work.table + 1
  BY DEF Newest, Both
<1>3. Desc # Closed /\ IsAt(Name("MANIFEST", work.manifest), Desc)
  BY DEF FilesInv, DescOK
<1>4. Whole(files, Dir, work.table + 1)
  BY DEF FilesInv, TableOK
<1>5. Desc \in DOMAIN files /\ Desc = InUse(files, Dir)
  BY <1>1, <1>3, Going DEF IsAt, InUse, ManifestName, ManifestOK
<1> QED BY <1>1, <1>2, <1>3, <1>4, <1>5, Going DEF ManifestOK

(* A record at the end of a file all of which is written.                     *)
Recorded(f, record) ==
  /\ DOMAIN files' = DOMAIN files /\ Dir' = Dir
  /\ \A g \in DOMAIN files : g # f => files'[g] = files[g]
  /\ files'[f].data = Append(files[f].data, record)
  /\ Len(files'[f].data) = Len(files[f].data) + 1
  /\ files'[f].written = Len(files[f].data) + 1
  /\ files'[f].synced = files[f].synced
  /\ LiveAt(files', f, Len(files[f].data) + 1)
       = (LiveAt(files, f, Len(files[f].data)) \ record.del) \cup record.add

LEMMA AddRecordFile ==
  ASSUME FilesOK(files), Desc \in DOMAIN files, NEW record, AddRecord(record)
  PROVE  /\ Recorded(Desc, record)
         /\ FilesOK(files') /\ Keeps(files, files')
         /\ dirs' = dirs
         /\ \E x : /\ FileOK(x) /\ files' = [files EXCEPT ![Desc] = x]
                   /\ x.synced = files[Desc].synced
                   /\ \A j \in 1..Len(files[Desc].data) : x.data[j] = files[Desc].data[j]
<1> DEFINE f == Desc
<1>1. FileOK(files[f]) /\ IsSeq(files[f].data)
  BY DEF FilesOK, FileOK
<1> DEFINE n == Len(files[f].data)
           x == [data |-> Append(files[f].data, record), written |-> n + 1, synced |-> files[f].synced]
<1>2. /\ IsSeq(x.data) /\ Len(x.data) = n + 1 /\ x.data[n + 1] = record
      /\ \A j \in 1..n : x.data[j] = files[f].data[j]
  BY <1>1, AppendSeq
<1>3. files' = [files EXCEPT ![f] = x] /\ dirs' = dirs
  <2> DEFINE longer == [files EXCEPT ![f].data = Append(@, record)]
  <2>1. longer[f] = [data |-> Append(files[f].data, record), written |-> files[f].written,
                     synced |-> files[f].synced]
    BY <1>1 DEF FileOK
  <2>2. longer[f].data = Append(files[f].data, record) /\ DOMAIN longer = DOMAIN files
        /\ \A g \in DOMAIN files : g # f => longer[g] = files[g]
    BY <1>1 DEF FileOK
  <2>3. files' = [longer EXCEPT ![f].written = Len(longer[f].data)] /\ dirs' = dirs
    BY DEF AddRecord, Desc
  <2>4. [longer[f] EXCEPT !.written = Len(longer[f].data)] = x
    <3>1. Len(longer[f].data) = n + 1
      BY <1>2, <2>1
    <3>2. PICK a, b, c, m : /\ a = Append(files[f].data, record) /\ b = files[f].written
                            /\ c = files[f].synced /\ m = n + 1
      OBVIOUS
    <3>3. [[data |-> a, written |-> b, synced |-> c] EXCEPT !.written = m]
            = [data |-> a, written |-> m, synced |-> c]
      OBVIOUS
    <3> QED BY <2>1, <3>1, <3>2, <3>3
  <2>5. [longer EXCEPT ![f].written = Len(longer[f].data)] = [files EXCEPT ![f] = x]
    BY <2>2, <2>4
  <2> QED BY <2>3, <2>5
<1>4. /\ n \in Nat /\ files[f].synced \in Nat /\ files[f].written \in Nat
      /\ files[f].synced <= files[f].written /\ files[f].written <= n
  BY FileNumbers
<1>5. FileOK(x)
  BY <1>2, <1>4 DEF FileOK
<1>6. x.synced = files[f].synced /\ x.written = n + 1 /\ x.data = Append(files[f].data, record)
  OBVIOUS
<1> HIDE DEF x
<1>7. /\ FilesOK(files') /\ DOMAIN files' = DOMAIN files /\ files'[f] = x
      /\ \A g \in DOMAIN files : g # f => files'[g] = files[g]
  BY <1>3, <1>5, FileSet
<1>8. Keeps(files, files')
  <2>1. ASSUME NEW g \in DOMAIN files, g = f
        PROVE  /\ files[g].synced <= files'[g].synced
               /\ \A j \in 1..files[g].synced : files'[g].data[j] = files[g].data[j]
    <3>1. \A j \in 1..files[f].synced : j \in 1..n
      BY <1>4
    <3> QED BY <1>2, <1>4, <1>6, <1>7, <2>1, <3>1
  <2>2. ASSUME NEW g \in DOMAIN files, g # f
        PROVE  /\ files[g].synced <= files'[g].synced
               /\ \A j \in 1..files[g].synced : files'[g].data[j] = files[g].data[j]
    BY <1>7, <2>2, FileNumbers
  <2> QED BY <1>7, <2>1, <2>2 DEF Keeps
<1>9. LiveAt(files', f, n + 1) = (LiveAt(files, f, n) \ record.del) \cup record.add
  <2>1. PICK r, s : r = files[f].data /\ s = x.data
    OBVIOUS
  <2> PICK k \in Nat : k = n
    BY <1>4
  <2>2. (\A j \in 1..k : s[j] = r[j]) /\ s[k + 1] = record
    BY <1>2, <2>1
  <2>3. LiveIn(s, k + 1) = (LiveIn(r, k) \ s[k + 1].del) \cup s[k + 1].add
    BY <2>2, LiveInAppend
  <2> QED BY <1>7, <2>1, <2>2, <2>3 DEF LiveAt
<1>10. Recorded(f, record)
  BY <1>2, <1>3, <1>6, <1>7, <1>9 DEF Recorded, Dir
<1> QED BY <1>2, <1>3, <1>5, <1>6, <1>7, <1>8, <1>10

(* An edit recorded in the MANIFEST in use: the database opens to one table   *)
(* or the other, whether the record reaches the disk or not.                  *)
LEMMA RecordGood ==
  ASSUME NEW t \in Int, Good(files, dirs, t), Desc = InUse(files, Dir), AllSynced(Desc),
         LiveAt(files, Desc, Len(files[Desc].data)) = {t}, Whole(files, Dir, t + 1),
         AddRecord(TableEdit({t + 1}, {t}))
  PROVE  /\ Good(files', dirs', t + 1)
         /\ Number(files', Dir') = Number(files, Dir)
<1> DEFINE f == Desc  D == Dir
<1>1. FilesOK(files) /\ f \in DOMAIN files /\ DirOK(files, D) /\ Leads(files, D) /\ OpensTo(files, D, t)
  BY GoodFacts DEF Good, Dir
<1>2. PICK record : record = TableEdit({t + 1}, {t})
  OBVIOUS
<1>3. /\ Recorded(f, record) /\ FilesOK(files') /\ Keeps(files, files') /\ dirs' = dirs
  BY <1>1, <1>2, AddRecordFile
<1> PICK n \in Nat : n = Len(files[f].data)
  BY <1>1, FileNumbers
<1>4. /\ files[f].synced = n /\ files[f].written = n
      /\ files'[f].synced = n /\ files'[f].written = n + 1
      /\ \A j \in 1..n : files'[f].data[j] = files[f].data[j]
  <2>1. IsSeq(files[f].data)
    BY <1>1 DEF FilesOK, FileOK
  <2> QED BY <1>3, <2>1, AppendSeq DEF AllSynced, AllWritten, Recorded
<1>5. LiveAt(files', f, n + 1) = {t + 1}
  <2>1. record.del = {t} /\ record.add = {t + 1}
    BY <1>2 DEF TableEdit
  <2>2. LiveAt(files', f, n + 1) = (LiveAt(files, f, n) \ record.del) \cup record.add
    BY <1>3 DEF Recorded
  <2>3. LiveAt(files, f, n) = {t}
    OBVIOUS
  <2> QED BY <2>1, <2>2, <2>3
<1>6. /\ DirOK(files', D) /\ Leads(files', D) /\ InUse(files', D) = f
      /\ Number(files', D) = Number(files, D)
  BY <1>1, <1>3, KeepsLeads
<1>7. HasTable(files', D, n, t)
  <2>1. HasTable(files, D, n, t)
    BY <1>4 DEF OpensTo, Good, Dir
  <2>2. \A j \in 1..n : files'[InUse(files, D)].data[j] = files[InUse(files, D)].data[j]
    BY <1>4
  <2> QED BY <1>1, <1>3, <2>1, <2>2, KeepsHasTable
<1>8. HasTable(files', D, n, t + 1)
  <2>1. PICK m \in Int : /\ m \in LiveAt(files', f, n) /\ m <= t /\ LiveAt(files', f, n) = {m}
                         /\ Whole(files', D, m)
    BY <1>6, <1>7 DEF HasTable
  <2>2. m <= t + 1
    BY <2>1
  <2> QED BY <1>6, <2>1, <2>2 DEF HasTable
<1>9. HasTable(files', D, n + 1, t + 1)
  <2>1. Whole(files', D, t + 1)
    BY <1>1, <1>3, WholeKept
  <2>2. t + 1 \in Int /\ t + 1 <= t + 1
    OBVIOUS
  <2> QED BY <1>5, <1>6, <2>1, <2>2 DEF HasTable
<1>10. \A k \in n..n + 1 : HasTable(files', D, k, t + 1)
  <2>1. \A k \in n..n + 1 : k = n \/ k = n + 1
    OBVIOUS
  <2> QED BY <1>8, <1>9, <2>1
<1>11. t + 1 \in Int
  OBVIOUS
<1> HIDE DEF f, D
<1>12. OpensTo(files', D, t + 1)
  BY <1>4, <1>5, <1>6, <1>10, <1>11 DEF OpensTo
<1>13. \A g \in DOMAIN files : files'[g].synced = files[g].synced
  BY <1>3 DEF Recorded
<1>14. /\ IsSeq(dirs) /\ dirs # <<>> /\ \A i \in DOMAIN dirs : Survives(files, dirs[i])
  BY DEF Good
<1>15. \A i \in DOMAIN dirs : Survives(files', dirs[i])
  BY <1>1, <1>3, <1>13, <1>14, OldSurvive
<1>16. Good(files', dirs', t + 1)
  BY <1>3, <1>12, <1>14, <1>15 DEF Good, Dir, D
<1> QED BY <1>3, <1>6, <1>16 DEF Dir, D

LEMMA SnapshotStep ==
  ASSUME FilesInv, Snapshot
  PROVE  FilesInv'
<1>1. CASE Fails("snapshot", "drop manifest")
  <2>1. work.fresh
    BY <1>1 DEF Fails, FilesInv, WorkOK, Fresh
  <2> QED BY <1>1, <2>1, FailsStep DEF Fresh
<1>2. CASE Calls("snapshot", WorkAt("record")) /\ AddRecord(TableEdit({work.table}, {}))
  <2>1. /\ work.pc = "snapshot" /\ work'.pc = "record" /\ work'.table = work.table
        /\ work'.manifest = work.manifest /\ work'.descriptor = Desc
        /\ work'.fresh = work.fresh /\ WorkFields
    BY <1>2, GoesTo DEF Desc
  <2>2. work.fresh /\ files[Desc].data = <<>>
    BY <2>1 DEF FilesInv, WorkOK, Fresh, DescOK
  <2>3. /\ Desc \in DOMAIN files /\ Desc # InUse(files, Dir)
        /\ IsAt(Name("MANIFEST", work.manifest), Desc) /\ Desc # Closed
        /\ Good(files, dirs, work.table) /\ work.manifest = Number(files, Dir) + 1
        /\ Whole(files, Dir, work.table + 1) /\ work.pc \notin Ends
    BY <2>1, <2>2, FreshFile
  <2>4. FilesOK(files) /\ DirOK(files, Dir)
    BY <2>3, Going
  <2>5. PICK record : record = TableEdit({work.table}, {})
    OBVIOUS
  <2>6. PICK x : /\ FileOK(x) /\ files' = [files EXCEPT ![Desc] = x] /\ x.synced = files[Desc].synced
                 /\ \A j \in 1..Len(files[Desc].data) : x.data[j] = files[Desc].data[j]
    BY <1>2, <2>3, <2>4, AddRecordFile
  <2>7. Recorded(Desc, record) /\ FilesOK(files') /\ Keeps(files, files') /\ dirs' = dirs
    BY <1>2, <2>3, <2>4, <2>5, AddRecordFile
  <2>8. /\ Good(files', dirs', work.table) /\ Number(files', Dir') = Number(files, Dir)
    <3>1. \A j \in 1..files[Desc].synced : x.data[j] = files[Desc].data[j]
      BY <2>3, <2>4, <2>6, FileNumbers
    <3> QED BY <2>3, <2>6, <2>7, <3>1, WriteStep
  <2>9. Whole(files', Dir', work.table + 1)
    BY <2>3, <2>4, <2>7, WholeKept DEF Recorded
  <2>10. WorkOK'
    BY <2>1 DEF WorkOK, WorkFields, FilesInv, Calm, Fresh, Both, Tmp, Ends
  <2>11. TableOK' /\ TmpOK'
    BY <2>1, <2>9 DEF TableOK, TmpOK, Both, Tmp
  <2>12. DescOK'
    <3>1. Len(files[Desc].data) = 0
      BY <2>2
    <3>2. LiveAt(files, Desc, 0) = {}
      BY DEF LiveAt, LiveIn
    <3>3. record.add = {work.table} /\ record.del = {}
      BY <2>5 DEF TableEdit
    <3>4. /\ Len(files'[Desc].data) = 1 /\ files'[Desc].written = 1
          /\ LiveAt(files', Desc, 1) = {work.table}
      BY <2>7, <3>1, <3>2, <3>3 DEF Recorded
    <3>5. IsAt(Name("MANIFEST", work.manifest), Desc)'
      BY <2>1, <2>3, <2>7 DEF IsAt, Recorded, Desc
    <3> QED BY <2>1, <2>2, <2>3, <3>4, <3>5 DEF DescOK, Desc, Calm, Both, Tmp, AllWritten, IsAt
  <2>13. Newest' = work.table
    BY <2>1, <2>2 DEF Newest
  <2>14. ManifestOK'
    BY <2>1, <2>2, <2>3, <2>8 DEF ManifestOK
  <2> QED BY <2>8, <2>10, <2>11, <2>12, <2>13, <2>14, GoesOn
<1> QED BY <1>1, <1>2 DEF Snapshot

LEMMA RecordStep ==
  ASSUME FilesInv, Record
  PROVE  FilesInv'
<1>1. CASE Fails("record", ManifestFailed)
  BY <1>1, FailsStep DEF ManifestFailed, Both
<1>2. CASE Calls("record", WorkAt("sync dir")) /\ AddRecord(TableEdit({work.table + 1}, {work.table}))
  <2>1. /\ work.pc = "record" /\ work'.pc = "sync dir" /\ work'.table = work.table
        /\ work'.manifest = work.manifest /\ work'.descriptor = Desc
        /\ work'.fresh = work.fresh /\ WorkFields
    BY <1>2, GoesTo DEF Desc
  <2>2. /\ AllWritten(Desc) /\ Len(files[Desc].data) >= 1
        /\ ~work.fresh => AllSynced(Desc)
        /\ LiveAt(files, Desc, Len(files[Desc].data)) = {work.table}
    BY <2>1 DEF FilesInv, DescOK
  <2>3. /\ Desc \in DOMAIN files /\ IsAt(Name("MANIFEST", work.manifest), Desc) /\ Desc # Closed
        /\ Good(files, dirs, work.table) /\ work.table \in Int
        /\ Whole(files, Dir, work.table + 1) /\ work.pc \notin Ends
        /\ work.fresh => Desc # InUse(files, Dir)
        /\ ~work.fresh => Desc = InUse(files, Dir)
    BY <2>1, FreshFile, OldFile DEF Both
  <2>4. FilesOK(files) /\ DirOK(files, Dir) /\ ManifestOK /\ work.fresh \in BOOLEAN
    BY <2>3, Going
  <2> PICK t \in Int : t = work.table
    BY <2>3
  <2>5. PICK record : record = TableEdit({t + 1}, {t})
    OBVIOUS
  <2>6. PICK x : /\ FileOK(x) /\ files' = [files EXCEPT ![Desc] = x] /\ x.synced = files[Desc].synced
                 /\ \A j \in 1..Len(files[Desc].data) : x.data[j] = files[Desc].data[j]
    BY <1>2, <2>3, <2>4, AddRecordFile
  <2>7. Recorded(Desc, record) /\ FilesOK(files') /\ Keeps(files, files') /\ dirs' = dirs
    BY <1>2, <2>3, <2>4, <2>5, AddRecordFile
  <2>8. Good(files', dirs', Newest') /\ Number(files', Dir') = Number(files, Dir)
    <3>1. CASE work.fresh
      <4>1. \A j \in 1..files[Desc].synced : x.data[j] = files[Desc].data[j]
        BY <2>3, <2>4, <2>6, FileNumbers
      <4>2. Good(files', dirs', t) /\ Number(files', Dir') = Number(files, Dir)
        BY <2>3, <2>6, <2>7, <3>1, <4>1, WriteStep
      <4>3. Newest' = t
        BY <2>1, <3>1 DEF Newest
      <4> QED BY <4>2, <4>3
    <3>2. CASE ~work.fresh
      <4>1. Good(files', dirs', t + 1) /\ Number(files', Dir') = Number(files, Dir)
        BY <1>2, <2>2, <2>3, <3>2, RecordGood
      <4>2. Newest' = t + 1
        BY <2>1, <3>2 DEF Newest
      <4> QED BY <4>1, <4>2
    <3> QED BY <3>1, <3>2
  <2>9. Whole(files', Dir', work.table + 1)
    BY <2>3, <2>4, <2>7, WholeKept DEF Recorded
  <2>10. WorkOK'
    BY <2>1 DEF WorkOK, WorkFields, FilesInv, Calm, Fresh, Both, Tmp, Ends
  <2>11. TableOK' /\ TmpOK'
    BY <2>1, <2>9 DEF TableOK, TmpOK, Both, Tmp
  <2>12. DescOK'
    <3> PICK n \in Nat : n = Len(files[Desc].data)
      BY <2>3, <2>4, FileNumbers
    <3>1. record.add = {t + 1} /\ record.del = {t}
      BY <2>5 DEF TableEdit
    <3>2. /\ Len(files'[Desc].data) = n + 1 /\ files'[Desc].written = n + 1
          /\ LiveAt(files', Desc, n + 1) = (LiveAt(files, Desc, n) \ record.del) \cup record.add
      BY <2>7 DEF Recorded
    <3>3. LiveAt(files', Desc, n + 1) = {t + 1} /\ n + 1 >= 2
      BY <2>2, <3>1, <3>2
    <3>4. IsAt(Name("MANIFEST", work.manifest), Desc)'
      BY <2>1, <2>3, <2>7 DEF IsAt, Recorded, Desc
    <3>5. /\ Len(files'[Desc].data) >= 2 /\ files'[Desc].written = Len(files'[Desc].data)
          /\ LiveAt(files', Desc, Len(files'[Desc].data)) = {work.table + 1}
      BY <3>2, <3>3
    <3> QED BY <2>1, <2>3, <3>4, <3>5 DEF DescOK, Desc, Calm, Both, Tmp, AllWritten, IsAt
  <2>13. ManifestOK'
    BY <2>1, <2>4, <2>8 DEF ManifestOK
  <2> QED BY <2>8, <2>10, <2>11, <2>12, <2>13, GoesOn
<1> QED BY <1>1, <1>2 DEF Record

LEMMA SyncDirStep ==
  ASSUME FilesInv, SyncDirIfManifest
  PROVE  FilesInv'
<1>1. CASE Fails("sync dir", ManifestFailed)
  BY <1>1, FailsStep DEF ManifestFailed, Both
<1>2. CASE Calls("sync dir", WorkAt("sync manifest")) /\ dirs' = <<Dir>> /\ UNCHANGED files
  <2>1. /\ work.pc = "sync dir" /\ work'.pc = "sync manifest" /\ work'.table = work.table
        /\ work'.manifest = work.manifest /\ work'.descriptor = Desc
        /\ work'.fresh = work.fresh /\ WorkFields
    BY <1>2, GoesTo DEF Desc
  <2>2. work.pc \notin Ends /\ Newest' = Newest
    BY <2>1 DEF Ends, Newest
  <2>3. Good(files, dirs, Newest) /\ ManifestOK
    BY <2>2, Going
  <2>4. Good(files', dirs', Newest') /\ Dir' = Dir
    BY <1>2, <2>2, <2>3, DirSyncGood DEF Dir
  <2>5. WorkOK'
    BY <2>1 DEF WorkOK, WorkFields, FilesInv, Calm, Fresh, Both, Tmp, Ends
  <2>6. Whole(files, Dir, work.table + 1)
    BY <2>1 DEF FilesInv, TableOK, Both
  <2>7. TableOK' /\ TmpOK'
    BY <1>2, <2>1, <2>4, <2>6 DEF TableOK, TmpOK, Both, Tmp
  <2>8. /\ Desc # Closed /\ IsAt(Name("MANIFEST", work.manifest), Desc)
        /\ AllWritten(Desc) /\ Len(files[Desc].data) >= 2
        /\ LiveAt(files, Desc, Len(files[Desc].data)) = {work.table + 1}
    BY <2>1 DEF FilesInv, DescOK, Both
  <2>9. DescOK'
    BY <1>2, <2>1, <2>4, <2>8 DEF DescOK, Desc, Calm, Both, Tmp, AllWritten, IsAt
  <2>10. ManifestOK'
    BY <1>2, <2>1, <2>3, <2>4 DEF ManifestOK
  <2> QED BY <2>4, <2>5, <2>7, <2>9, <2>10, GoesOn
<1> QED BY <1>1, <1>2 DEF SyncDirIfManifest

LEMMA SyncManifestStep ==
  ASSUME FilesInv, Journaled, SyncManifest
  PROVE  FilesInv'
<1>1. CASE Fails("sync manifest", ManifestFailed)
  BY <1>1, FailsStep DEF ManifestFailed, Both
<1>2. CASE /\ Calls("sync manifest", IF work.fresh THEN WorkAt("new tmp") ELSE Applied("delete"))
           /\ Sync(work.descriptor)
  <2>1. /\ work.pc = "sync manifest" /\ work'.manifest = work.manifest /\ work'.descriptor = Desc
        /\ work'.fresh = work.fresh /\ WorkFields
        /\ work.fresh => work'.pc = "new tmp" /\ work'.table = work.table
        /\ ~work.fresh => work'.pc = "delete" /\ work'.table = work.table + 1
    BY <1>2 DEF Calls, WorkAt, Applied, FilesInv, WorkOK, WorkFields, Desc
  <2>2. /\ AllWritten(Desc) /\ Len(files[Desc].data) >= 2
        /\ LiveAt(files, Desc, Len(files[Desc].data)) = {work.table + 1}
    BY <2>1 DEF FilesInv, DescOK, Both
  <2>3. /\ Desc \in DOMAIN files /\ IsAt(Name("MANIFEST", work.manifest), Desc) /\ Desc # Closed
        /\ Good(files, dirs, Newest) /\ work.table \in Int
        /\ Whole(files, Dir, work.table + 1) /\ work.pc \notin Ends
        /\ Newest = IF work.fresh THEN work.table ELSE work.table + 1
    BY <2>1, FreshFile, OldFile DEF Both
  <2>4. FilesOK(files) /\ DirOK(files, Dir) /\ ManifestOK /\ work.fresh \in BOOLEAN /\ work.manifest \in Int
    BY <2>3, Going
  <2>5. PICK t, f : t = Newest /\ f = Desc
    OBVIOUS
  <2>6. /\ Good(files', dirs', t) /\ Keeps(files, files')
        /\ Dir' = Dir /\ Number(files', Dir') = Number(files, Dir)
        /\ OnlyFile(f, [data |-> files[f].data, written |-> Len(files[f].data),
                        synced |-> Len(files[f].data)])
    <3>1. Good(files, dirs, t) /\ f \in DOMAIN files /\ Sync(f) /\ AllWritten(f)
      BY <1>2, <2>2, <2>3, <2>5 DEF Desc
    <3> QED BY <3>1, SyncStep
  <2>7. /\ files'[f].data = files[f].data /\ files'[f].written = Len(files[f].data)
        /\ files'[f].synced = Len(files[f].data)
    BY <2>6 DEF OnlyFile
  <2>8. Newest' = t
    BY <2>1, <2>3, <2>4, <2>5 DEF Newest
  <2>9. Whole(files', Dir', work.table + 1) /\ FilesOK(files')
    <3>1. FilesOK(files')
      BY <2>6 DEF Good
    <3> QED BY <2>3, <2>4, <2>6, <3>1, WholeKept
  <2>10. WorkOK'
    <3>1. work'.table \in Int /\ work'.manifest \in Int /\ work'.fresh \in BOOLEAN
      <4> PICK k \in Int : k = work.table
        BY <2>3
      <4>1. k + 1 \in Int
        OBVIOUS
      <4>2. work'.table = k \/ work'.table = k + 1
        BY <2>1, <2>4
      <4> QED BY <2>1, <2>4, <4>1, <4>2
    <3> QED BY <2>1, <2>4, <3>1 DEF WorkOK, WorkFields, Calm, Fresh, Tmp
  <2>11. TableOK' /\ TmpOK'
    BY <2>1, <2>4, <2>9 DEF TableOK, TmpOK, Both, Tmp
  <2>12. DescOK'
    <3>1. IsAt(Name("MANIFEST", work.manifest), Desc)' /\ AllSynced(Desc)' /\ AllWritten(Desc)'
      BY <2>1, <2>3, <2>5, <2>6, <2>7 DEF IsAt, Desc, AllSynced, AllWritten
    <3>2. /\ Len(files'[Desc].data) >= 2
          /\ LiveAt(files', Desc, Len(files'[Desc].data)) = {work.table + 1}
      BY <2>2, <2>5, <2>7 DEF LiveAt
    <3> QED BY <2>1, <2>3, <2>4, <3>1, <3>2 DEF DescOK, Desc, Calm, Both, Tmp
  <2>13. ManifestOK'
    BY <2>1, <2>4, <2>6 DEF ManifestOK
  <2> QED BY <2>6, <2>8, <2>10, <2>11, <2>12, <2>13, GoesOn
<1> QED BY <1>1, <1>2 DEF SyncManifest

LEMMA NewTmpStep ==
  ASSUME FilesInv, NewTmp
  PROVE  FilesInv'
<1> USE DEF Fresh, Both, Tmp
<1>1. CASE Fails("new tmp", "drop tmp")
  <2>1. work.fresh
    BY <1>1 DEF Fails, FilesInv, WorkOK
  <2> QED BY <1>1, <2>1, FailsStep
<1>2. CASE /\ Calls("new tmp", [work EXCEPT !.pc = "append tmp", !.file = Len(files) + 1])
           /\ Create(Name("tmp", work.manifest))
  <2>1. /\ work.pc = "new tmp" /\ work'.pc = "append tmp" /\ work'.table = work.table
        /\ work'.manifest = work.manifest /\ work'.descriptor = Desc
        /\ work'.fresh = work.fresh /\ work'.file = Len(files) + 1
        /\ WorkFields /\ work.fresh
    BY <1>2 DEF Calls, FilesInv, WorkOK, WorkFields, Desc
  <2>2. /\ Desc \in DOMAIN files /\ IsAt(Name("MANIFEST", work.manifest), Desc) /\ Desc # Closed
        /\ Newest = work.table /\ Good(files, dirs, work.table)
        /\ work.manifest = Number(files, Dir) + 1
        /\ Whole(files, Dir, work.table + 1) /\ work.pc \notin Ends
    BY <2>1, FreshFile
  <2>3. /\ AllSynced(Desc) /\ AllWritten(Desc) /\ Len(files[Desc].data) >= 2
        /\ LiveAt(files, Desc, Len(files[Desc].data)) = {work.table + 1}
    BY <2>1 DEF FilesInv, DescOK
  <2>4. PICK n, t : n = Name("tmp", work.manifest) /\ t = work.table
    OBVIOUS
  <2>5. Good(files, dirs, t) /\ Create(n) /\ n # CURRENT /\ n # ManifestName(files, Dir)
        /\ NewerThan(t, n)
    <3>1. n # CURRENT /\ n # ManifestName(files, Dir) /\ NewerThan(t, n)
      BY <2>4 DEF CURRENT, ManifestName, NewerThan, Name
    <3> QED BY <1>2, <2>2, <2>4, <3>1
  <2>6. Created(t, n)
    BY <2>5, CreateStep
  <2>7. WorkOK'
    BY <2>1 DEF WorkOK, WorkFields, FilesInv, Calm, Ends
  <2>8. Whole(files', Dir', work.table + 1)
    <3>1. Name("table", work.table + 1) # n
      BY <2>4, NamesDiffer
    <3>2. Dir[Name("table", work.table + 1)] \in DOMAIN files
      BY <2>2, Going DEF Whole, DirOK
    <3> QED BY <2>2, <2>6, <3>1, <3>2 DEF Whole, Created
  <2>9. TableOK' /\ TmpOK'
    <3>1. Dir'[n] = Len(files) + 1 /\ n \in DOMAIN Dir' /\ n = Name("tmp", work'.manifest)
      BY <2>1, <2>4, <2>6 DEF Created
    <3>2. files'[Len(files) + 1].data = <<>>
      BY <2>6 DEF Created, NewFile
    <3> QED BY <2>1, <2>8, <3>1, <3>2 DEF TableOK, TmpOK, IsAt
  <2>10. DescOK'
    <3>1. Name("MANIFEST", work.manifest) # n
      BY <2>4, NamesDiffer
    <3>2. IsAt(Name("MANIFEST", work.manifest), Desc)' /\ files'[Desc] = files[Desc]
      BY <2>1, <2>2, <2>6, <3>1 DEF Created, IsAt, Desc
    <3> QED BY <2>1, <2>2, <2>3, <3>2 DEF DescOK, Desc, Calm, IsAt, AllSynced, AllWritten, LiveAt
  <2>11. Newest' = t
    BY <2>1, <2>4 DEF Newest
  <2>12. ManifestOK'
    BY <2>1, <2>2, <2>6 DEF ManifestOK, Created
  <2>13. Good(files', dirs', Newest')
    BY <2>6, <2>11 DEF Created
  <2> QED BY <2>7, <2>9, <2>10, <2>12, <2>13, GoesOn
<1> QED BY <1>1, <1>2 DEF NewTmp

(* The temporary file is neither the MANIFEST in use nor the new one, nor the *)
(* new table.                                                                 *)
LEMMA TmpFile ==
  ASSUME FilesInv, work.pc \in Tmp \ {"new tmp"}
  PROVE  /\ work.file \in DOMAIN files /\ work.file # InUse(files, Dir) /\ work.file # Desc
         /\ IsAt(Name("tmp", work.manifest), work.file)
         /\ Desc \in DOMAIN files /\ IsAt(Name("MANIFEST", work.manifest), Desc) /\ Desc # Closed
         /\ AllSynced(Desc) /\ AllWritten(Desc) /\ Len(files[Desc].data) >= 2
         /\ LiveAt(files, Desc, Len(files[Desc].data)) = {work.table + 1}
         /\ work.fresh /\ Newest = work.table /\ Good(files, dirs, work.table)
         /\ work.manifest = Number(files, Dir) + 1
         /\ work.manifest \in Int /\ work.table \in Int
         /\ Whole(files, Dir, work.table + 1) /\ work.pc \notin Ends
         /\ FilesOK(files) /\ DirOK(files, Dir)
<1>1. work.fresh
  BY DEF FilesInv, WorkOK, Fresh, Tmp
<1>2. /\ Desc \in DOMAIN files /\ IsAt(Name("MANIFEST", work.manifest), Desc) /\ Desc # Closed
      /\ Newest = work.table /\ Good(files, dirs, work.table)
      /\ work.manifest = Number(files, Dir) + 1 /\ work.manifest \in Int /\ work.table \in Int
      /\ Whole(files, Dir, work.table + 1) /\ work.pc \notin Ends
  BY <1>1, FreshFile
<1>3. /\ AllSynced(Desc) /\ AllWritten(Desc) /\ Len(files[Desc].data) >= 2
      /\ LiveAt(files, Desc, Len(files[Desc].data)) = {work.table + 1}
  BY DEF FilesInv, DescOK, Tmp
<1>4. IsAt(Name("tmp", work.manifest), work.file)
  BY DEF FilesInv, TmpOK
<1>5. FilesOK(files) /\ DirOK(files, Dir) /\ ManifestName(files, Dir) \in DOMAIN Dir
  BY <1>2, Going
<1>6. work.file \in DOMAIN files /\ work.file # InUse(files, Dir) /\ work.file # Desc
  <2>1. /\ Name("tmp", work.manifest) # ManifestName(files, Dir)
        /\ Name("tmp", work.manifest) # Name("MANIFEST", work.manifest)
    BY DEF Name, ManifestName
  <2> QED BY <1>2, <1>4, <1>5, <2>1 DEF IsAt, InUse, DirOK
<1> QED BY <1>1, <1>2, <1>3, <1>4, <1>5, <1>6

(* What a call on the temporary file leaves as it was.                        *)
LEMMA TmpGoesOn ==
  ASSUME FilesInv, work.pc \in Tmp \ {"new tmp"}, work'.pc \in Tmp \ {"new tmp"},
         work'.table = work.table, work'.manifest = work.manifest, work'.descriptor = Desc,
         work'.fresh = work.fresh, work'.file = work.file, WorkFields,
         Good(files', dirs', work.table), Keeps(files, files'), Dir' = Dir,
         Number(files', Dir') = Number(files, Dir), files'[Desc] = files[Desc], TmpOK'
  PROVE  FilesInv'
<1> USE DEF Fresh, Both, Tmp
<1>1. /\ IsAt(Name("MANIFEST", work.manifest), Desc) /\ Desc # Closed
      /\ AllSynced(Desc) /\ AllWritten(Desc) /\ Len(files[Desc].data) >= 2
      /\ LiveAt(files, Desc, Len(files[Desc].data)) = {work.table + 1}
      /\ work.fresh /\ work.manifest = Number(files, Dir) + 1
      /\ Whole(files, Dir, work.table + 1) /\ FilesOK(files) /\ DirOK(files, Dir)
  BY TmpFile
<1>2. WorkOK'
  BY DEF WorkOK, WorkFields, FilesInv, Calm, Ends
<1>3. Whole(files', Dir', work.table + 1)
  BY <1>1, WholeKept DEF Good
<1>4. TableOK'
  BY <1>3 DEF TableOK
<1>5. DescOK'
  BY <1>1 DEF DescOK, Desc, Calm, IsAt, AllSynced, AllWritten, LiveAt
<1>6. Newest' = work.table
  BY <1>1 DEF Newest
<1>7. ManifestOK'
  BY <1>1 DEF ManifestOK
<1> QED BY <1>2, <1>4, <1>5, <1>6, <1>7, GoesOn

LEMMA AppendTmpStep ==
  ASSUME FilesInv, AppendTmp
  PROVE  FilesInv'
<1>1. CASE Fails("append tmp", "drop tmp")
  <2>1. work.fresh
    BY <1>1 DEF Fails, FilesInv, WorkOK, Fresh, Tmp
  <2> QED BY <1>1, <2>1, FailsStep DEF Fresh, Tmp
<1>2. CASE Calls("append tmp", WorkAt("sync tmp")) /\ AppendData(work.file, work.manifest)
  <2>1. /\ work.pc = "append tmp" /\ work'.pc = "sync tmp" /\ work'.table = work.table
        /\ work'.manifest = work.manifest /\ work'.descriptor = Desc
        /\ work'.fresh = work.fresh /\ work'.file = work.file /\ WorkFields
    BY <1>2, GoesTo DEF Desc
  <2>2. /\ work.file \in DOMAIN files /\ work.file # InUse(files, Dir) /\ work.file # Desc
        /\ IsAt(Name("tmp", work.manifest), work.file) /\ Desc \in DOMAIN files
        /\ Good(files, dirs, work.table)
    BY <2>1, TmpFile DEF Tmp
  <2>3. files[work.file].data = <<>>
    BY <2>1 DEF FilesInv, TmpOK
  <2>4. PICK f, data, t : f = work.file /\ data = work.manifest /\ t = work.table
    OBVIOUS
  <2>5. /\ Good(files', dirs', t) /\ Keeps(files, files')
        /\ Dir' = Dir /\ Number(files', Dir') = Number(files, Dir)
        /\ \E more : OnlyFile(f, [data |-> Append(files[f].data, data), written |-> more,
                                    synced |-> files[f].synced])
    <3>1. Good(files, dirs, t) /\ f \in DOMAIN files /\ AppendData(f, data) /\ f # InUse(files, Dir)
      BY <1>2, <2>2, <2>4
    <3> QED BY <3>1, AppendDataStep
  <2>6. files'[f].data = <<data>> /\ files'[Desc] = files[Desc]
    <3>1. files'[f].data = Append(files[f].data, data) /\ files'[Desc] = files[Desc]
      BY <2>2, <2>4, <2>5 DEF OnlyFile
    <3> QED BY <2>3, <2>4, <3>1
  <2>7. TmpOK'
    BY <2>1, <2>2, <2>4, <2>5, <2>6 DEF TmpOK, Tmp, IsAt
  <2> QED BY <2>1, <2>4, <2>5, <2>6, <2>7, TmpGoesOn DEF Tmp
<1> QED BY <1>1, <1>2 DEF AppendTmp

LEMMA SyncTmpStep ==
  ASSUME FilesInv, Journaled, SyncTmp
  PROVE  FilesInv'
<1>1. CASE Fails("sync tmp", "drop tmp")
  <2>1. work.fresh
    BY <1>1 DEF Fails, FilesInv, WorkOK, Fresh, Tmp
  <2> QED BY <1>1, <2>1, FailsStep DEF Fresh, Tmp
<1>2. CASE Calls("sync tmp", WorkAt("close tmp")) /\ Sync(work.file)
  <2>1. /\ work.pc = "sync tmp" /\ work'.pc = "close tmp" /\ work'.table = work.table
        /\ work'.manifest = work.manifest /\ work'.descriptor = Desc
        /\ work'.fresh = work.fresh /\ work'.file = work.file /\ WorkFields
    BY <1>2, GoesTo DEF Desc
  <2>2. /\ work.file \in DOMAIN files /\ work.file # InUse(files, Dir) /\ work.file # Desc
        /\ IsAt(Name("tmp", work.manifest), work.file) /\ Desc \in DOMAIN files
        /\ Good(files, dirs, work.table)
    BY <2>1, TmpFile DEF Tmp
  <2>3. files[work.file].data = <<work.manifest>>
    BY <2>1 DEF FilesInv, TmpOK
  <2>4. PICK f, t : f = work.file /\ t = work.table
    OBVIOUS
  <2>5. /\ Good(files', dirs', t) /\ Keeps(files, files')
        /\ Dir' = Dir /\ Number(files', Dir') = Number(files, Dir)
        /\ OnlyFile(f, [data |-> files[f].data, written |-> Len(files[f].data),
                        synced |-> Len(files[f].data)])
    <3>1. Good(files, dirs, t) /\ f \in DOMAIN files /\ Sync(f) /\ f # InUse(files, Dir)
      BY <1>2, <2>2, <2>4
    <3> QED BY <3>1, SyncStep
  <2>6. files'[f].data = <<work.manifest>> /\ files'[f].synced = 1 /\ files'[Desc] = files[Desc]
    <3>1. files'[f].data = files[f].data /\ files'[f].synced = Len(files[f].data)
          /\ files'[Desc] = files[Desc]
      BY <2>2, <2>4, <2>5 DEF OnlyFile
    <3> QED BY <2>3, <2>4, <3>1, OneSeq
  <2>7. TmpOK'
    BY <2>1, <2>2, <2>4, <2>5, <2>6 DEF TmpOK, Tmp, IsAt
  <2> QED BY <2>1, <2>4, <2>5, <2>6, <2>7, TmpGoesOn DEF Tmp
<1> QED BY <1>1, <1>2 DEF SyncTmp

LEMMA CloseTmpStep ==
  ASSUME FilesInv, CloseTmp
  PROVE  FilesInv'
<1>1. CASE Fails("close tmp", "drop tmp")
  <2>1. work.fresh
    BY <1>1 DEF Fails, FilesInv, WorkOK, Fresh, Tmp
  <2> QED BY <1>1, <2>1, FailsStep DEF Fresh, Tmp
<1>2. CASE /\ Calls("close tmp", WorkAt("rename"))
           /\ files' = [files EXCEPT ![work.file] = Flush(work.file)]
           /\ UNCHANGED dirs
  <2>1. /\ work.pc = "close tmp" /\ work'.pc = "rename" /\ work'.table = work.table
        /\ work'.manifest = work.manifest /\ work'.descriptor = Desc
        /\ work'.fresh = work.fresh /\ work'.file = work.file /\ WorkFields
    BY <1>2, GoesTo DEF Desc
  <2>2. /\ work.file \in DOMAIN files /\ work.file # InUse(files, Dir) /\ work.file # Desc
        /\ IsAt(Name("tmp", work.manifest), work.file) /\ Desc \in DOMAIN files
        /\ Good(files, dirs, work.table) /\ FilesOK(files)
    BY <2>1, TmpFile DEF Tmp
  <2>3. files[work.file].data = <<work.manifest>> /\ files[work.file].synced = 1
    BY <2>1 DEF FilesInv, TmpOK
  <2>4. PICK f, t, x : f = work.file /\ t = work.table /\ x = Flush(f)
    OBVIOUS
  <2>5. x.data = files[f].data /\ x.synced = files[f].synced /\ FileOK(x)
    <3>1. FileOK(files[f])
      BY <2>2, <2>4 DEF FilesOK
    <3>2. x = [data |-> files[f].data, written |-> Len(files[f].data), synced |-> files[f].synced]
      BY <2>4, <3>1 DEF Flush, FileOK
    <3>3. Len(files[f].data) \in Nat /\ files[f].synced \in 0..Len(files[f].data)
      BY <2>2, <2>4, FileNumbers
    <3> QED BY <3>1, <3>2, <3>3 DEF FileOK
  <2>6. /\ Good(files', dirs', t) /\ Keeps(files, files') /\ OnlyFile(f, x)
        /\ Dir' = Dir /\ Number(files', Dir') = Number(files, Dir)
    <3>1. /\ Good(files, dirs, t) /\ f \in DOMAIN files /\ f # InUse(files, Dir)
          /\ files' = [files EXCEPT ![f] = x] /\ dirs' = dirs
      BY <1>2, <2>2, <2>4
    <3> QED BY <2>5, <3>1, WriteStep
  <2>7. files'[f].data = <<work.manifest>> /\ files'[f].synced = 1 /\ files'[Desc] = files[Desc]
    BY <2>2, <2>3, <2>4, <2>5, <2>6 DEF OnlyFile
  <2>8. TmpOK'
    BY <2>1, <2>2, <2>4, <2>6, <2>7 DEF TmpOK, Tmp, IsAt
  <2> QED BY <2>1, <2>4, <2>6, <2>7, <2>8, TmpGoesOn DEF Tmp
<1> QED BY <1>1, <1>2 DEF CloseTmp

(* The temporary file takes the place of CURRENT: both the directory before   *)
(* and the one after can be opened, the second to the new table.              *)
LEMMA RenameGood ==
  ASSUME NEW F, NEW E, NEW t, Good(F, E, t),
         NEW f, NEW m, NEW number \in Int, NEW u \in Int, NEW d, NEW tmp,
         tmp = Name("tmp", number), tmp \in DOMAIN Last(E), Last(E)[tmp] = f,
         d = [n \in DOMAIN Last(E) \ {tmp} |-> IF n = CURRENT THEN f ELSE Last(E)[n]],
         F[f].data = <<number>>, F[f].synced = 1,
         Name("MANIFEST", number) \in DOMAIN Last(E), Last(E)[Name("MANIFEST", number)] = m,
         F[m].synced >= 2, F[m].written = F[m].synced, LiveAt(F, m, F[m].written) = {u},
         Whole(F, Last(E), u)
  PROVE  /\ Good(F, Append(E, d), u)
         /\ Last(Append(E, d)) = d /\ Number(F, d) = number
         /\ \A n \in DOMAIN Last(E) \ {tmp, CURRENT} : n \in DOMAIN d /\ d[n] = Last(E)[n]
<1> DEFINE D == Last(E)
<1>1. FilesOK(F) /\ IsSeq(E) /\ E # <<>> /\ \A i \in DOMAIN E : Survives(F, E[i])
  BY DEF Good
<1>2. DirOK(F, D) /\ CURRENT \in DOMAIN D
  BY GoodFacts
<1>3. tmp \in DOMAIN D /\ D[tmp] = f /\ m \in DOMAIN F
  BY <1>2 DEF DirOK
<1>4. /\ DOMAIN d = DOMAIN D \ {tmp} /\ IsFcn(d)
      /\ \A n \in DOMAIN d : d[n] = IF n = CURRENT THEN f ELSE D[n]
  BY DEF IsFcn
<1>5. tmp # CURRENT /\ tmp # Name("MANIFEST", number) /\ tmp # Name("table", u)
      /\ CURRENT # Name("MANIFEST", number) /\ CURRENT # Name("table", u)
  BY DEF Name, CURRENT
<1>6. /\ CURRENT \in DOMAIN d /\ d[CURRENT] = f
      /\ Name("MANIFEST", number) \in DOMAIN d /\ d[Name("MANIFEST", number)] = m
      /\ Name("table", u) \in DOMAIN d /\ d[Name("table", u)] = D[Name("table", u)]
  BY <1>2, <1>4, <1>5 DEF Whole
<1>7. Number(F, d) = number /\ InUse(F, d) = m /\ ManifestName(F, d) = Name("MANIFEST", number)
  <2>1. F[f].data[1] = number
    BY OneSeq
  <2> QED BY <1>6, <2>1 DEF Number, InUse, ManifestName
<1> HIDE DEF D
<1>8. DirOK(F, d)
  <2>1. \A n \in DOMAIN d : d[n] \in DOMAIN F
    BY <1>2, <1>3, <1>4 DEF DirOK
  <2>2. \A a, b \in DOMAIN d : d[a] = d[b] => a = b
    <3>1. \A n \in DOMAIN d : n \in DOMAIN D /\ D[n] # f
      BY <1>2, <1>3, <1>4 DEF DirOK
    <3> QED BY <1>2, <1>4, <3>1 DEF DirOK
  <2> QED BY <1>4, <2>1, <2>2 DEF DirOK
<1>9. Leads(F, d)
  BY <1>6, <1>7 DEF Leads
<1>10. HasTable(F, d, F[m].written, u)
  BY <1>6, <1>7 DEF HasTable, Whole, D
<1>11. OpensTo(F, d, u)
  <2>1. F[m].synced \in Nat
    BY <1>1, <1>3, FileNumbers
  <2>2. \A k \in F[m].synced..F[m].written : k = F[m].written
    BY <2>1
  <2> QED BY <1>7, <1>8, <1>9, <1>10, <2>2 DEF OpensTo
<1>12. Keeps(F, F)
  BY <1>1, FileNumbers DEF Keeps
<1>13. /\ IsSeq(Append(E, d)) /\ Append(E, d) # <<>> /\ Last(Append(E, d)) = d
       /\ \A i \in DOMAIN Append(E, d) : Survives(F, Append(E, d)[i])
  BY <1>1, <1>11, <1>12, AppendSurvives, AppendSeq
<1>14. \A n \in DOMAIN D \ {tmp, CURRENT} : n \in DOMAIN d /\ d[n] = D[n]
  BY <1>4
<1> QED BY <1>1, <1>7, <1>11, <1>13, <1>14 DEF Good, D

LEMMA RenameStep ==
  ASSUME FilesInv, RenameFile
  PROVE  FilesInv'
<1>1. CASE Fails("rename", "drop tmp")
  <2>1. work.fresh
    BY <1>1 DEF Fails, FilesInv, WorkOK, Fresh, Tmp
  <2> QED BY <1>1, <2>1, FailsStep DEF Fresh, Tmp
<1>2. CASE /\ Calls("rename", Applied("delete"))
           /\ Change([n \in DOMAIN Dir \ {Name("tmp", work.manifest)} |->
                        IF n = CURRENT THEN work.file ELSE Dir[n]])
           /\ UNCHANGED files
  <2>1. /\ work.pc = "rename" /\ work'.pc = "delete" /\ work'.table = work.table + 1
        /\ work'.manifest = work.manifest /\ work'.descriptor = Desc
        /\ work'.fresh = FALSE /\ WorkFields
    BY <1>2 DEF Calls, Applied, FilesInv, WorkOK, WorkFields, Desc
  <2>2. /\ work.file \in DOMAIN files
        /\ IsAt(Name("tmp", work.manifest), work.file)
        /\ Desc \in DOMAIN files /\ IsAt(Name("MANIFEST", work.manifest), Desc) /\ Desc # Closed
        /\ AllSynced(Desc) /\ AllWritten(Desc) /\ Len(files[Desc].data) >= 2
        /\ LiveAt(files, Desc, Len(files[Desc].data)) = {work.table + 1}
        /\ Good(files, dirs, work.table) /\ work.manifest \in Int /\ work.table \in Int
        /\ Whole(files, Dir, work.table + 1)
    BY <2>1, TmpFile DEF Tmp
  <2>3. files[work.file].data = <<work.manifest>> /\ files[work.file].synced = 1
    BY <2>1 DEF FilesInv, TmpOK
  <2> PICK number \in Int : number = work.manifest
    BY <2>2
  <2> PICK t \in Int : t = work.table
    BY <2>2
  <2>4. PICK f, m, tmp : f = work.file /\ m = Desc /\ tmp = Name("tmp", number)
    OBVIOUS
  <2>5. PICK d : d = [n \in DOMAIN Last(dirs) \ {tmp} |-> IF n = CURRENT THEN f ELSE Last(dirs)[n]]
    OBVIOUS
  <2>6. dirs' = Append(dirs, d) /\ files' = files
    BY <1>2, <2>4, <2>5 DEF Change, Dir
  <2>7. PICK u \in Int : u = t + 1
    OBVIOUS
  <2>8. /\ Good(files, Append(dirs, d), u)
        /\ Last(Append(dirs, d)) = d /\ Number(files, d) = number
        /\ \A n \in DOMAIN Last(dirs) \ {tmp, CURRENT} : n \in DOMAIN d /\ d[n] = Last(dirs)[n]
    <3>1. Good(files, dirs, t) /\ tmp \in DOMAIN Last(dirs) /\ Last(dirs)[tmp] = f
      BY <2>2, <2>4 DEF IsAt, Dir
    <3>2. files[f].data = <<number>> /\ files[f].synced = 1
      BY <2>3, <2>4
    <3>3. Name("MANIFEST", number) \in DOMAIN Last(dirs) /\ Last(dirs)[Name("MANIFEST", number)] = m
      BY <2>2, <2>4 DEF IsAt, Dir
    <3>4. /\ files[m].synced >= 2 /\ files[m].written = files[m].synced
          /\ LiveAt(files, m, files[m].written) = {u} /\ Whole(files, Last(dirs), u)
      BY <2>2, <2>4, <2>7 DEF AllSynced, AllWritten, Dir
    <3> QED BY <2>4, <2>5, <3>1, <3>2, <3>3, <3>4, RenameGood
  <2>9. Dir' = d
    BY <2>6, <2>8 DEF Dir
  <2>10. Newest' = u
    BY <2>1, <2>7 DEF Newest
  <2>11. WorkOK'
    BY <2>1, <2>2, <2>7 DEF WorkOK, WorkFields, Calm, Fresh, Tmp
  <2>12. TableOK' /\ TmpOK'
    BY <2>1 DEF TableOK, TmpOK, Both, Tmp
  <2>13. DescOK'
    <3>1. Name("MANIFEST", number) # tmp /\ Name("MANIFEST", number) # CURRENT
      BY <2>4 DEF Name, CURRENT
    <3>2. Name("MANIFEST", number) \in DOMAIN Last(dirs) /\ Last(dirs)[Name("MANIFEST", number)] = Desc
      BY <2>2 DEF IsAt, Dir
    <3>3. Name("MANIFEST", number) \in DOMAIN d /\ d[Name("MANIFEST", number)] = Desc
      BY <2>8, <3>1, <3>2
    <3>4. IsAt(Name("MANIFEST", work.manifest), Desc)' /\ AllSynced(Desc)'
      BY <2>1, <2>2, <2>6, <2>9, <3>3 DEF IsAt, AllSynced, AllWritten, Desc
    <3> QED BY <2>1, <2>2, <3>4 DEF DescOK, Desc, Calm, Both, Tmp
  <2>14. ManifestOK'
    BY <2>1, <2>6, <2>8, <2>9 DEF ManifestOK
  <2>15. Good(files', dirs', Newest')
    BY <2>6, <2>8, <2>10
  <2> QED BY <2>11, <2>12, <2>13, <2>14, <2>15, GoesOn
<1> QED BY <1>1, <1>2 DEF RenameFile

LEMMA DropTmpStep ==
  ASSUME FilesInv, DropTmp
  PROVE  FilesInv'
<1>1. CASE Fails("drop tmp", "drop manifest")
  <2>1. work.fresh
    BY <1>1 DEF Fails, FilesInv, WorkOK, Fresh
  <2> QED BY <1>1, <2>1, FailsStep DEF Fresh
<1>2. CASE /\ Calls("drop tmp", WorkAt("drop manifest"))
           /\ IF Name("tmp", work.manifest) \in DOMAIN Dir
              THEN Unlink(Name("tmp", work.manifest)) ELSE UNCHANGED <<dirs, files>>
  <2>1. /\ work.pc = "drop tmp" /\ work'.pc = "drop manifest" /\ work'.table = work.table
        /\ work'.manifest = work.manifest /\ work'.descriptor = Desc
        /\ work'.fresh = work.fresh /\ work'.file = work.file /\ WorkFields
    BY <1>2, GoesTo DEF Desc
  <2>2. work.fresh /\ work.pc \notin Ends /\ Newest = work.table /\ Newest' = work.table
    BY <2>1 DEF FilesInv, WorkOK, Fresh, Ends, Newest
  <2>3. Good(files, dirs, work.table) /\ ManifestOK
    BY <2>2, Going
  <2>4. PICK name, t : name = Name("tmp", work.manifest) /\ t = work.table
    OBVIOUS
  <2>5. Good(files', dirs', t) /\ Number(files', Dir') = Number(files, Dir)
    <3>1. CASE Unlink(name)
      <4>1. Good(files, dirs, t) /\ name # CURRENT /\ name # ManifestName(files, Dir)
            /\ NotListed(files, Dir, t, name)
        BY <2>3, <2>4 DEF CURRENT, ManifestName, Name, NotListed
      <4> QED BY <3>1, <4>1, UnlinkStep
    <3>2. CASE UNCHANGED <<dirs, files>>
      BY <2>3, <2>4, <3>2 DEF Dir
    <3> QED BY <1>2, <2>4, <3>1, <3>2
  <2>6. WorkOK'
    BY <2>1, <2>2 DEF WorkOK, WorkFields, FilesInv, Calm, Fresh
  <2>7. TableOK' /\ TmpOK' /\ DescOK'
    BY <2>1 DEF TableOK, TmpOK, DescOK, Calm, Both, Tmp
  <2>8. ManifestOK'
    BY <2>1, <2>3, <2>5 DEF ManifestOK
  <2> QED BY <2>2, <2>4, <2>5, <2>6, <2>7, <2>8, GoesOn
<1> QED BY <1>1, <1>2 DEF DropTmp

(* Nothing is deleted that the MANIFEST in use needs: all of it is on the     *)
(* disk, and names no other table than the newest.                            *)
LEMMA DeleteStep ==
  ASSUME FilesInv, DeleteObsolete
  PROVE  FilesInv'
<1>1. CASE Fails("delete", "idle")
  BY <1>1, FailsStep DEF Calm
<1>2. CASE Calls("delete", work) /\ \E n \in Obsolete : Unlink(n)
  <2>1. work.pc = "delete" /\ work' = work
    BY <1>2 DEF Calls
  <2>2. ~work.fresh /\ work.pc \notin Ends /\ Newest = work.table /\ Newest' = work.table
    BY <2>1 DEF FilesInv, WorkOK, Calm, Ends, Newest
  <2>3. Good(files, dirs, work.table) /\ ManifestOK /\ DirOK(files, Dir) /\ work.table \in Int
        /\ FilesOK(files) /\ InUse(files, Dir) \in DOMAIN files
        /\ work.manifest = Number(files, Dir) /\ work.manifest \in Int
    BY <2>2, Going DEF ManifestOK
  <2>4. Desc # Closed /\ IsAt(Name("MANIFEST", work.manifest), Desc) /\ AllSynced(Desc)
        /\ Desc = InUse(files, Dir)
    BY <2>1, <2>3 DEF FilesInv, DescOK, Calm, IsAt, InUse, ManifestName
  <2>5. PICK n \in Obsolete : Unlink(n)
    BY <1>2
  <2>6. PICK t \in Int : t = work.table
    BY <2>3
  <2>7. n # CURRENT /\ n # Name("MANIFEST", work.manifest) /\ n # Name("table", t)
    <3>1. \/ n[1] = "table" /\ n[2] # work.table
          \/ n[1] = "MANIFEST" /\ n[2] < work.manifest
          \/ n[1] = "tmp"
      BY <2>5 DEF Obsolete
    <3>2. n # CURRENT
      BY <3>1 DEF CURRENT, Name
    <3>3. n # Name("table", t)
      BY <2>6, <3>1 DEF Name
    <3>4. n # Name("MANIFEST", work.manifest)
      BY <2>3, <3>1 DEF Name
    <3> QED BY <3>2, <3>3, <3>4
  <2>8. NotListed(files, Dir, t, n)
    <3>1. \A k \in files[InUse(files, Dir)].synced..files[InUse(files, Dir)].written :
             k = files[InUse(files, Dir)].written
      BY <2>3, <2>4, FileNumbers DEF AllSynced, AllWritten
    <3>2. LiveAt(files, InUse(files, Dir), files[InUse(files, Dir)].written) = {t}
      BY <2>3, <2>6 DEF Good, OpensTo, Dir
    <3> QED BY <2>7, <3>1, <3>2 DEF NotListed
  <2>9. /\ Good(files', dirs', t) /\ files' = files
        /\ Number(files', Dir') = Number(files, Dir)
        /\ DOMAIN Dir' = DOMAIN Dir \ {n}
        /\ \A m \in DOMAIN Dir : m # n => Dir'[m] = Dir[m]
    <3>1. Good(files, dirs, t) /\ n # ManifestName(files, Dir)
      BY <2>3, <2>6, <2>7 DEF ManifestName
    <3> QED BY <2>5, <2>7, <2>8, <3>1, UnlinkStep
  <2>10. WorkOK' /\ TableOK' /\ TmpOK'
    BY <2>1 DEF FilesInv, WorkOK, TableOK, TmpOK, Both, Tmp
  <2>11. DescOK'
    <3>1. IsAt(Name("MANIFEST", work.manifest), Desc)' /\ AllSynced(Desc)'
      BY <2>1, <2>4, <2>7, <2>9 DEF IsAt, AllSynced, AllWritten, Desc
    <3> QED BY <2>1, <2>4, <3>1 DEF DescOK, Desc, Calm, Both, Tmp
  <2>12. ManifestOK'
    BY <2>1, <2>3, <2>9 DEF ManifestOK
  <2> QED BY <2>2, <2>6, <2>9, <2>10, <2>11, <2>12, GoesOn
<1>3. CASE Obsolete = {} /\ Calls("delete", WorkAt("idle")) /\ UNCHANGED <<dirs, files>>
  <2>1. /\ work.pc = "delete" /\ work'.pc = "idle" /\ work'.table = work.table
        /\ work'.manifest = work.manifest /\ work'.descriptor = Desc
        /\ work'.fresh = work.fresh /\ work'.file = work.file /\ WorkFields
    BY <1>3, GoesTo DEF Desc
  <2>2. work.pc \notin Ends /\ Newest = work.table /\ Newest' = work.table /\ Dir' = Dir
    BY <1>3, <2>1 DEF Ends, Newest, Dir
  <2>3. Good(files, dirs, work.table) /\ ManifestOK
    BY <2>2, Going
  <2>4. WorkOK'
    BY <2>1 DEF FilesInv, WorkOK, WorkFields, Calm, Fresh, Tmp
  <2>5. TableOK' /\ TmpOK'
    BY <2>1 DEF TableOK, TmpOK, Both, Tmp
  <2>6. Desc # Closed => IsAt(Name("MANIFEST", work.manifest), Desc) /\ AllSynced(Desc)
    BY <2>1 DEF FilesInv, DescOK, Calm
  <2>7. DescOK'
    BY <1>3, <2>1, <2>2, <2>6 DEF DescOK, Desc, Calm, Both, Tmp, IsAt, AllSynced, AllWritten
  <2>8. ManifestOK'
    BY <1>3, <2>1, <2>2, <2>3 DEF ManifestOK
  <2> QED BY <1>3, <2>2, <2>3, <2>4, <2>5, <2>7, <2>8, GoesOn
<1> QED BY <1>1, <1>2, <1>3 DEF DeleteObsolete

(* The system may put any of what is written on the disk: no file changes for *)
(* the process, and what was all on the disk is.                              *)
LEMMA WriteBackFile ==
  ASSUME Journaled, NEW t, Good(files, dirs, t), WriteBack
  PROVE  /\ Good(files', dirs', t) /\ Keeps(files, files')
         /\ Dir' = Dir /\ Number(files', Dir') = Number(files, Dir)
         /\ \A g \in DOMAIN files :
              /\ files'[g].data = files[g].data /\ files'[g].written = files[g].written
              /\ files[g].synced = files[g].written => files'[g] = files[g]
              /\ files'[g].synced \in files[g].synced..files[g].written
<1> PICK f \in DOMAIN files : \E n \in files[f].synced + 1..files[f].written :
        files' = [files EXCEPT ![f].synced = n]
  BY DEF WriteBack
<1>1. PICK n \in files[f].synced + 1..files[f].written : files' = [files EXCEPT ![f].synced = n]
  OBVIOUS
<1>2. FilesOK(files) /\ FileOK(files[f])
  BY DEF Good, FilesOK
<1> PICK k \in Nat, w \in Nat : k = files[f].synced /\ w = files[f].written
  BY <1>2, FileNumbers
<1>3. Len(files[f].data) \in Nat /\ w <= Len(files[f].data) /\ n \in k + 1..w
  BY <1>1, <1>2, FileNumbers
<1> DEFINE x == [data |-> files[f].data, written |-> w, synced |-> n]
<1>4. files' = [files EXCEPT ![f] = x] /\ dirs' = <<Last(dirs)>>
  <2>1. [files[f] EXCEPT !.synced = n] = x
    BY <1>2 DEF FileOK
  <2> QED BY <1>1, <2>1 DEF WriteBack, Dir
<1>5. FileOK(x) /\ x.data = files[f].data /\ x.written = files[f].written
      /\ files[f].synced <= x.synced /\ x.synced \in k..w
  BY <1>2, <1>3 DEF FileOK
<1> HIDE DEF x
<1>6. /\ DOMAIN files' = DOMAIN files /\ files'[f] = x
      /\ \A g \in DOMAIN files : g # f => files'[g] = files[g]
  BY <1>2, <1>4, <1>5, FileSet
<1>7. /\ Good(files', <<Last(dirs)>>, t) /\ Keeps(files, files')
      /\ Number(files', Last(dirs)) = Number(files, Last(dirs))
  BY <1>4, <1>5, SyncGood
<1>8. Dir' = Dir
  BY <1>4, OneSeq DEF Dir
<1>9. \A g \in DOMAIN files :
        /\ files'[g].data = files[g].data /\ files'[g].written = files[g].written
        /\ files[g].synced = files[g].written => files'[g] = files[g]
        /\ files'[g].synced \in files[g].synced..files[g].written
  <2>1. k # w
    BY <1>3
  <2>2. \A g \in DOMAIN files : files[g].synced \in files[g].synced..files[g].written
    BY <1>2, FileNumbers
  <2>3. \A g \in DOMAIN files : g # f =>
          /\ files'[g].data = files[g].data /\ files'[g].written = files[g].written
          /\ files[g].synced = files[g].written => files'[g] = files[g]
          /\ files'[g].synced \in files[g].synced..files[g].written
    BY <1>6, <2>2
  <2>4. /\ files'[f].data = files[f].data /\ files'[f].written = files[f].written
        /\ files[f].synced # files[f].written
        /\ files'[f].synced \in files[f].synced..files[f].written
    BY <1>5, <1>6, <2>1
  <2> QED BY <2>3, <2>4
<1> QED BY <1>4, <1>7, <1>8, <1>9 DEF Dir

LEMMA WriteBackStep ==
  ASSUME FilesInv, Journaled, WriteBack
  PROVE  FilesInv'
<1>1. work' = work
  BY DEF WriteBack
<1>2. WorkOK'
  BY <1>1 DEF FilesInv, WorkOK
<1>3. CASE work.pc \in Ends
  <2>1. PICK t \in LiveAt(files, InUse(files, Dir), files[InUse(files, Dir)].written) : Good(files, dirs, t)
    BY DEF FilesInv, DatabaseOK
  <2>2. Good(files', dirs', t)
    BY <2>1, WriteBackFile
  <2> QED BY <1>1, <1>2, <1>3, <2>2, Stops
<1>4. CASE work.pc \notin Ends
  <2>1. /\ Good(files, dirs, Newest) /\ ManifestOK /\ FilesOK(files) /\ DirOK(files, Dir)
    BY <1>4, Going
  <2> PICK t : t = Newest
    OBVIOUS
  <2>2. /\ Good(files', dirs', t) /\ Keeps(files, files')
        /\ Dir' = Dir /\ Number(files', Dir') = Number(files, Dir)
        /\ \A g \in DOMAIN files :
             /\ files'[g].data = files[g].data /\ files'[g].written = files[g].written
             /\ files[g].synced = files[g].written => files'[g] = files[g]
             /\ files'[g].synced \in files[g].synced..files[g].written
    BY <2>1, WriteBackFile
  <2>3. Newest' = t
    BY <1>1 DEF Newest
  <2>4. ManifestOK'
    BY <1>1, <2>1, <2>2 DEF ManifestOK
  <2>5. TableOK'
    <3>1. FilesOK(files')
      BY <2>2 DEF Good
    <3>2. \A n : Whole(files, Dir, n) => Whole(files', Dir', n)
      BY <2>1, <2>2, <3>1, WholeKept
    <3>3. work.pc = "sync table" => work.file \in DOMAIN files
      BY <2>1 DEF FilesInv, TableOK, IsAt, DirOK
    <3> QED BY <1>1, <2>2, <3>2, <3>3 DEF FilesInv, TableOK, IsAt
  <2>6. DescOK'
    <3>1. CASE Desc \in DOMAIN files
      <4>1. /\ files'[Desc].data = files[Desc].data
            /\ AllWritten(Desc) => AllWritten(Desc)'
            /\ AllSynced(Desc) => AllSynced(Desc)'
            /\ LiveAt(files', Desc, Len(files'[Desc].data)) = LiveAt(files, Desc, Len(files[Desc].data))
        BY <1>1, <2>2, <3>1 DEF AllWritten, AllSynced, Desc, LiveAt
      <4> QED BY <1>1, <2>2, <4>1 DEF FilesInv, DescOK, IsAt, Desc
    <3>2. CASE Desc \notin DOMAIN files
      <4>1. ~IsAt(Name("MANIFEST", work.manifest), Desc)
        BY <2>1, <3>2 DEF IsAt, DirOK
      <4>2. (Desc # Closed => work.pc \notin Calm) /\ work.pc \notin {"snapshot"} \cup Both \cup Tmp
        BY <4>1 DEF FilesInv, DescOK
      <4> QED BY <1>1, <4>2 DEF FilesInv, DescOK, Desc, Both, Tmp
    <3> QED BY <3>1, <3>2
  <2>7. TmpOK'
    <3>1. CASE work.pc \in Tmp \ {"new tmp"}
      <4>1. work.file \in DOMAIN files
        BY <3>1, TmpFile
      <4>2. files'[work.file].data = files[work.file].data
            /\ files'[work.file].synced \in files[work.file].synced..files[work.file].written
        BY <2>2, <4>1
      <4>3. work.pc \in {"close tmp", "rename"} => files'[work.file].synced = 1
        <5> SUFFICES ASSUME work.pc \in {"close tmp", "rename"}
                     PROVE  files'[work.file].synced = 1
          OBVIOUS
        <5>1. files[work.file].synced = 1 /\ files[work.file].data = <<work.manifest>>
          BY DEF FilesInv, TmpOK
        <5>2. Len(files[work.file].data) = 1
          BY <5>1
        <5>3. files[work.file].written \in Nat /\ files[work.file].written <= 1
          BY <2>1, <4>1, <5>2, FileNumbers
        <5> QED BY ONLY <4>2, <5>1, <5>3
      <4> QED BY <1>1, <2>2, <4>2, <4>3 DEF FilesInv, TmpOK, IsAt
    <3>2. CASE work.pc \notin Tmp \ {"new tmp"}
      BY <1>1, <3>2 DEF TmpOK, Tmp
    <3> QED BY <3>1, <3>2
  <2> QED BY <1>2, <2>2, <2>3, <2>4, <2>5, <2>6, <2>7, GoesOn
<1> QED BY <1>3, <1>4

-----------------------------------------------------------------------------
(* What a process reads of a file: what is written of it.                     *)
LEMMA SubSeqSeq ==
  ASSUME NEW s, IsSeq(s), NEW k \in 0..Len(s)
  PROVE  /\ IsSeq(SubSeq(s, 1, k)) /\ Len(SubSeq(s, 1, k)) = k
         /\ \A j \in 1..k : SubSeq(s, 1, k)[j] = s[j]
         /\ DOMAIN SubSeq(s, 1, k) = 1..k
<1> DEFINE S == {s[i] : i \in 1..Len(s)}  q == SubSeq(s, 1, k)
<1>1. Len(s) \in Nat /\ k \in Nat
  BY DEF IsSeq
<1>2. \A i \in 1..k : s[i] \in S
  BY <1>1
<1> HIDE DEF S
<1>3. /\ q \in Seq(S) /\ Len(q) = (IF 1 <= k THEN k - 1 + 1 ELSE 0)
      /\ \A i \in 1..k - 1 + 1 : q[i] = s[1 + i - 1]
  BY <1>1, <1>2, SubSeqProperties
<1> HIDE DEF q
<1>4. Len(q) = k /\ \A i \in 1..k : q[i] = s[i]
  BY <1>1, <1>3
<1>5. q = [i \in 1..Len(q) |-> q[i]] /\ DOMAIN q = 1..Len(q)
  BY <1>3, LenProperties
<1> QED BY <1>1, <1>4, <1>5 DEF IsSeq, q

LEMMA FcnSeq ==
  ASSUME NEW s, IsSeq(s), NEW q, DOMAIN q = DOMAIN s, IsFcn(q)
  PROVE  IsSeq(q)
<1> PICK n \in Nat : n = Len(s)
  BY DEF IsSeq
<1>1. q = [i \in 1..n |-> q[i]]
  BY DEF IsSeq, IsFcn
<1>2. Len(q) = n
  BY <1>1
<1> QED BY <1>1, <1>2 DEF IsSeq

LEMMA LiveTablesIn ==
  ASSUME NEW r, DOMAIN r = 1..Len(r)
  PROVE  LiveTables(r) = LiveIn(r, Len(r))
BY DEF LiveTables, LiveIn

(* The files cut to some of what is written of each, but no shorter than what *)
(* is on the disk of them.                                                    *)
Cut(F, G) ==
  /\ IsSeq(G) /\ DOMAIN G = DOMAIN F
  /\ \A f \in DOMAIN F : \E k \in F[f].synced..F[f].written :
       G[f] = [data |-> SubSeq(F[f].data, 1, k), written |-> k, synced |-> F[f].synced]

LEMMA CutKeeps ==
  ASSUME NEW F, NEW G, FilesOK(F), Cut(F, G)
  PROVE  FilesOK(G) /\ Keeps(F, G)
<1>1. ASSUME NEW f \in DOMAIN F
      PROVE  /\ FileOK(G[f]) /\ F[f].synced <= G[f].synced
             /\ \A j \in 1..F[f].synced : G[f].data[j] = F[f].data[j]
  <2>1. /\ IsSeq(F[f].data) /\ Len(F[f].data) \in Nat /\ F[f].written \in Nat /\ F[f].synced \in Nat
        /\ F[f].synced <= F[f].written /\ F[f].written <= Len(F[f].data)
    BY FileNumbers DEF FilesOK, FileOK
  <2>2. PICK k \in F[f].synced..F[f].written :
          G[f] = [data |-> SubSeq(F[f].data, 1, k), written |-> k, synced |-> F[f].synced]
    BY DEF Cut
  <2>3. k \in 0..Len(F[f].data) /\ k \in Nat /\ F[f].synced <= k
    BY <2>1
  <2>4. /\ IsSeq(SubSeq(F[f].data, 1, k)) /\ Len(SubSeq(F[f].data, 1, k)) = k
        /\ \A j \in 1..k : SubSeq(F[f].data, 1, k)[j] = F[f].data[j]
    BY <2>1, <2>3, SubSeqSeq
  <2>5. G[f].data = SubSeq(F[f].data, 1, k) /\ G[f].written = k /\ G[f].synced = F[f].synced
    BY <2>2
  <2>6. FileOK(G[f])
    <3>1. G[f] = [data |-> G[f].data, written |-> G[f].written, synced |-> G[f].synced]
      BY <2>2
    <3> QED BY <2>1, <2>3, <2>4, <2>5, <3>1 DEF FileOK
  <2> QED BY <2>1, <2>3, <2>4, <2>5, <2>6
<1> QED BY <1>1 DEF FilesOK, Keeps, Cut

(* Files of which no more than what is written is left are as they were.      *)
LEMMA CutGood ==
  ASSUME NEW F, NEW G, NEW E, NEW t, Good(F, E, t), Cut(F, G),
         \A f \in DOMAIN F : G[f].written = F[f].written
  PROVE  Good(G, E, t)
<1>1. /\ FilesOK(F) /\ IsSeq(E) /\ E # <<>> /\ OpensTo(F, Last(E), t)
      /\ \A i \in DOMAIN E : Survives(F, E[i])
  BY DEF Good
<1>2. FilesOK(G) /\ Keeps(F, G)
  BY <1>1, CutKeeps
<1>3. ASSUME NEW f \in DOMAIN F
      PROVE  SameWritten(F, G, f) /\ G[f].synced = F[f].synced
  <2>1. PICK k \in F[f].synced..F[f].written :
          G[f] = [data |-> SubSeq(F[f].data, 1, k), written |-> k, synced |-> F[f].synced]
    BY DEF Cut
  <2>2. k = F[f].written /\ G[f].data = SubSeq(F[f].data, 1, k) /\ G[f].synced = F[f].synced
    BY <2>1
  <2>3. IsSeq(F[f].data) /\ k \in 0..Len(F[f].data)
    BY <1>1, <2>2 DEF FilesOK, FileOK
  <2> QED BY <2>2, <2>3, SubSeqSeq DEF SameWritten
<1>4. InUse(F, Last(E)) \in DOMAIN F
  BY GoodFacts
<1>5. OpensTo(G, Last(E), t)
  BY <1>1, <1>2, <1>3, <1>4, KeepsOpens
<1>6. \A i \in DOMAIN E : Survives(G, E[i])
  BY <1>1, <1>2, <1>3, OldSurvive
<1> QED BY <1>1, <1>2, <1>5, <1>6 DEF Good

(* Files of which no more than what is on the disk is left, and any state of  *)
(* the directory, can be opened.                                              *)
LEMMA CutOpens ==
  ASSUME NEW F, NEW G, NEW D, FilesOK(F), Survives(F, D), Cut(F, G),
         \A f \in DOMAIN F : G[f].written = F[f].synced
  PROVE  \E t : Good(G, <<D>>, t)
<1> DEFINE m == InUse(F, D)
<1>1. DirOK(F, D) /\ Leads(F, D)
  BY DEF Survives
<1>2. FilesOK(G) /\ Keeps(F, G)
  BY CutKeeps
<1>3. DirOK(G, D) /\ Leads(G, D) /\ InUse(G, D) = m /\ m \in DOMAIN F
  BY <1>1, <1>2, KeepsLeads
<1> PICK k \in Nat : k = F[m].synced
  BY <1>3, FileNumbers
<1>4. PICK n : n \in LiveAt(F, m, k) /\ HasTable(F, D, k, n)
  BY DEF Survives
<1>5. n \in Int /\ LiveAt(F, m, k) = {n} /\ Whole(F, D, n)
  BY <1>4 DEF HasTable
<1>6. HasTable(G, D, k, n) /\ LiveAt(G, m, k) = {n}
  <2>1. \A j \in 1..k : G[m].data[j] = F[m].data[j]
    BY <1>2, <1>3 DEF Keeps
  <2>2. HasTable(G, D, k, n) /\ LiveAt(G, InUse(G, D), k) = LiveAt(F, InUse(F, D), k)
    BY <1>1, <1>2, <1>4, <2>1, KeepsHasTable
  <2> QED BY <1>3, <1>5, <2>2
<1>7. G[m].written = k /\ G[m].synced = k
  BY <1>3 DEF Cut
<1> HIDE DEF m
<1>8. \A j \in k..k : j = k
  OBVIOUS
<1>9. OpensTo(G, D, n)
  BY <1>3, <1>5, <1>6, <1>7, <1>8 DEF OpensTo
<1> QED BY <1>2, <1>9, OpensSurvives, OneSeq DEF Good

(* What a process finds when it opens a good directory.                       *)
LEMMA Opens ==
  ASSUME NEW t, Good(files, dirs, t)
  PROVE  DatabaseOpens /\ Reopened = Opened(t, Number(files, Dir)) /\ t \in Int
<1> DEFINE m == InUse(files, Dir)  c == Dir[CURRENT]
<1>1. FilesOK(files) /\ OpensTo(files, Dir, t)
  BY DEF Good, Dir
<1>2. /\ DirOK(files, Dir) /\ Leads(files, Dir) /\ t \in Int
      /\ c \in DOMAIN files /\ m \in DOMAIN files
      /\ CURRENT \in DOMAIN Dir /\ ManifestName(files, Dir) \in DOMAIN Dir
  BY GoodFacts DEF Dir
<1>3. ASSUME NEW f \in DOMAIN files
      PROVE  /\ IsSeq(files[f].data) /\ IsSeq(Seen(f)) /\ Len(Seen(f)) = files[f].written
             /\ \A j \in 1..files[f].written : Seen(f)[j] = files[f].data[j]
             /\ DOMAIN Seen(f) = 1..files[f].written
             /\ files[f].written \in Nat /\ files[f].synced \in Nat
             /\ files[f].synced <= files[f].written
  <2>1. IsSeq(files[f].data) /\ files[f].written \in 0..Len(files[f].data)
    BY <1>1 DEF FilesOK, FileOK
  <2> QED BY <1>1, <2>1, SubSeqSeq, FileNumbers DEF Seen
<1>4. Seen(c)[1] = Number(files, Dir) /\ Len(Seen(c)) >= 1
  <2>1. files[c].synced >= 1
    BY <1>2 DEF Leads
  <2> QED BY <1>2, <1>3, <2>1 DEF Number
<1>5. Manifest = ManifestName(files, Dir)
  BY <1>4 DEF Manifest, ManifestName
<1>6. Dir[Manifest] = m
  BY <1>5 DEF InUse
<1>7. Len(Seen(m)) >= 2
  <2>1. files[m].synced >= 2
    BY <1>2 DEF Leads
  <2> QED BY <1>2, <1>3, <2>1
<1>8. LiveTables(Seen(m)) = {t}
  <2> PICK k \in Nat : k = files[m].written
    BY <1>2, <1>3
  <2>1. LiveTables(Seen(m)) = LiveIn(Seen(m), k)
    BY <1>2, <1>3, LiveTablesIn
  <2>2. LiveIn(Seen(m), k) = LiveIn(files[m].data, k)
    BY <1>2, <1>3, LiveInSame
  <2>3. LiveIn(files[m].data, k) = {t}
    BY <1>1 DEF OpensTo, LiveAt
  <2> QED BY <2>1, <2>2, <2>3
<1>9. FileExists(Name("table", t)) /\ Seen(Dir[Name("table", t)]) # <<>>
  <2>1. files[m].written \in files[m].synced..files[m].written
    BY <1>2, <1>3
  <2>2. HasTable(files, Dir, files[m].written, t) /\ LiveAt(files, m, files[m].written) = {t}
    BY <1>1, <2>1 DEF OpensTo
  <2>3. Whole(files, Dir, t)
    BY <2>2 DEF HasTable
  <2>4. Dir[Name("table", t)] \in DOMAIN files
    BY <1>2, <2>3 DEF Whole, DirOK
  <2>5. Len(Seen(Dir[Name("table", t)])) >= 1
    BY <1>3, <2>3, <2>4 DEF Whole
  <2> QED BY <2>3, <2>5 DEF Whole, FileExists, GetChildren
<1>10. Seen(c) # <<>>
  BY <1>4
<1> HIDE DEF m, c
<1>11. DatabaseOpens
  BY <1>2, <1>5, <1>6, <1>7, <1>8, <1>9, <1>10 DEF DatabaseOpens, FileExists, GetChildren, c
<1>12. Reopened = Opened(t, Number(files, Dir))
  <2>1. Max({t}) = t
    <3>1. \A x \in {t} : x >= x
      BY <1>2
    <3> QED BY <3>1 DEF Max
  <2>2. ReadFileToString(CURRENT)[1] = Number(files, Dir)
    BY <1>4 DEF ReadFileToString, c
  <2>3. LiveTables(ReadFileToString(Name("MANIFEST", Number(files, Dir)))) = {t}
    BY <1>5, <1>6, <1>8 DEF ReadFileToString, ManifestName
  <2> QED BY <2>1, <2>2, <2>3 DEF Reopened
<1> QED BY <1>2, <1>11, <1>12

(* A process that has opened the directory goes on from there.                *)
LEMMA OpenedInv ==
  ASSUME NEW t \in Int, Good(files', dirs', t), work' = Opened(t, Number(files', Dir'))
  PROVE  FilesInv'
<1>1. /\ work'.pc = "idle" /\ work'.table = t /\ work'.manifest = Number(files', Dir')
      /\ work'.descriptor = Closed /\ work'.fresh = FALSE /\ WorkFields
  BY DEF Opened, WorkFields
<1>2. Number(files', Dir') \in Int
  BY GoodFacts DEF Dir
<1>3. WorkOK'
  BY <1>1, <1>2 DEF WorkOK, WorkFields, Calm, Fresh, Tmp
<1>4. TableOK' /\ TmpOK' /\ DescOK'
  BY <1>1 DEF TableOK, TmpOK, DescOK, Desc, Both, Tmp
<1>5. Newest' = t /\ ManifestOK'
  BY <1>1 DEF Newest, ManifestOK
<1> QED BY <1>3, <1>4, <1>5, GoesOn

LEMMA ProcessDiesStep ==
  ASSUME FilesInv, ProcessDies
  PROVE  FilesInv'
<1>1. PICK t \in LiveAt(files, InUse(files, Dir), files[InUse(files, Dir)].written) : Good(files, dirs, t)
  BY DEF FilesInv, DatabaseOK
<1>2. FilesOK(files) /\ IsSeq(files) /\ DOMAIN files = 1..Len(files)
  BY <1>1 DEF Good, FilesOK, IsSeq
<1>3. Cut(files, files') /\ \A f \in DOMAIN files : files'[f].written = files[f].written
  <2>1. files' = [f \in DOMAIN files |-> [files[f] EXCEPT !.data = Seen(f)]]
    BY DEF ProcessDies
  <2>2. \A f \in DOMAIN files :
           /\ files'[f] = [data |-> SubSeq(files[f].data, 1, files[f].written),
                           written |-> files[f].written, synced |-> files[f].synced]
           /\ files[f].written \in files[f].synced..files[f].written
    <3> SUFFICES ASSUME NEW f \in DOMAIN files
                 PROVE  /\ files'[f] = [data |-> SubSeq(files[f].data, 1, files[f].written),
                                        written |-> files[f].written, synced |-> files[f].synced]
                        /\ files[f].written \in files[f].synced..files[f].written
      OBVIOUS
    <3>1. FileOK(files[f])
      BY <1>2 DEF FilesOK
    <3>2. files[f].written \in files[f].synced..files[f].written
      BY <1>2, FileNumbers
    <3> QED BY <2>1, <3>1, <3>2 DEF FileOK, Seen
  <2>3. IsSeq(files')
    BY <1>2, <2>1 DEF IsSeq
  <2> QED BY <2>1, <2>2, <2>3 DEF Cut
<1>4. dirs' = dirs /\ Dir' = Dir /\ work' = Reopened
  BY DEF ProcessDies, Dir
<1>5. Good(files', dirs', t)
  BY <1>1, <1>3, <1>4, CutGood
<1>6. Reopened = Opened(t, Number(files, Dir)) /\ t \in Int
  BY <1>1, Opens
<1>7. Number(files', Dir) = Number(files, Dir)
  <2>1. DirOK(files, Dir) /\ Leads(files, Dir)
    BY <1>1, GoodFacts DEF Dir
  <2> QED BY <1>2, <1>3, <2>1, CutKeeps, KeepsLeads
<1> QED BY <1>4, <1>5, <1>6, <1>7, OpenedInv

LEMMA MachineDiesStep ==
  ASSUME FilesInv, MachineDies
  PROVE  FilesInv'
<1>1. FilesOK(files) /\ IsSeq(files) /\ DOMAIN files = 1..Len(files)
      /\ \A i \in DOMAIN dirs : Survives(files, dirs[i])
  BY DEF FilesInv, DatabaseOK, Good, FilesOK, IsSeq
<1>2. PICK i \in DOMAIN dirs : dirs' = <<dirs[i]>>
  BY DEF MachineDies
<1>3. Cut(files, files') /\ \A f \in DOMAIN files : files'[f].written = files[f].synced
  <2>1. files' = [f \in DOMAIN files |->
                    [files[f] EXCEPT !.data = SubSeq(@, 1, files[f].synced), !.written = files[f].synced]]
    BY DEF MachineDies
  <2>2. \A f \in DOMAIN files :
           /\ files'[f] = [data |-> SubSeq(files[f].data, 1, files[f].synced),
                           written |-> files[f].synced, synced |-> files[f].synced]
           /\ files[f].synced \in files[f].synced..files[f].written
    <3> SUFFICES ASSUME NEW f \in DOMAIN files
                 PROVE  /\ files'[f] = [data |-> SubSeq(files[f].data, 1, files[f].synced),
                                        written |-> files[f].synced, synced |-> files[f].synced]
                        /\ files[f].synced \in files[f].synced..files[f].written
      OBVIOUS
    <3>1. FileOK(files[f])
      BY <1>1 DEF FilesOK
    <3>2. files[f].synced \in files[f].synced..files[f].written
      BY <1>1, FileNumbers
    <3> QED BY <2>1, <3>1, <3>2 DEF FileOK
  <2>3. DOMAIN files' = DOMAIN files /\ IsFcn(files')
    BY <2>1 DEF IsFcn
  <2>4. IsSeq(files')
    BY <1>1, <2>3, FcnSeq
  <2> QED BY <2>2, <2>3, <2>4 DEF Cut
<1>4. \E t : Good(files', dirs', t)
  BY <1>1, <1>2, <1>3, CutOpens
<1>5. work' = [work EXCEPT !.pc = "down"]
  BY DEF MachineDies, WorkAt
<1>6. WorkOK' /\ work'.pc \in Ends
  BY <1>5 DEF FilesInv, WorkOK, Calm, Fresh, Both, Tmp, Ends
<1> QED BY <1>4, <1>6, Stops

LEMMA ReopenStep ==
  ASSUME FilesInv, Reopen
  PROVE  FilesInv'
<1>1. PICK t \in LiveAt(files, InUse(files, Dir), files[InUse(files, Dir)].written) : Good(files, dirs, t)
  BY DEF FilesInv, DatabaseOK
<1>2. files' = files /\ dirs' = dirs /\ Dir' = Dir /\ work' = Reopened
  BY DEF Reopen, Dir
<1>3. Reopened = Opened(t, Number(files, Dir)) /\ t \in Int
  BY <1>1, Opens
<1> QED BY <1>1, <1>2, <1>3, OpenedInv

LEMMA FilesInitInv == FilesInit => FilesInv
<1> SUFFICES ASSUME FilesInit
             PROVE  FilesInv
  OBVIOUS
<1> DEFINE D == [n \in {Name("table", 1), Name("MANIFEST", 1), CURRENT} |->
                   CASE n = Name("table", 1) -> 1 [] n = Name("MANIFEST", 1) -> 2 [] OTHER -> 3]
           first == TableEdit({}, {})
           second == TableEdit({1}, {})
<1>1. /\ files = <<[data |-> <<"entries">>, written |-> 1, synced |-> 1],
                   [data |-> <<first, second>>, written |-> 2, synced |-> 2],
                   [data |-> <<1>>, written |-> 1, synced |-> 1]>>
      /\ dirs = <<D>> /\ work = Opened(1, 1)
  BY DEF FilesInit
<1>2. /\ DOMAIN files = 1..3 /\ IsSeq(files)
      /\ files[1] = [data |-> <<"entries">>, written |-> 1, synced |-> 1]
      /\ files[2] = [data |-> <<first, second>>, written |-> 2, synced |-> 2]
      /\ files[3] = [data |-> <<1>>, written |-> 1, synced |-> 1]
  BY <1>1 DEF IsSeq
<1>3. FilesOK(files)
  <2>1. FileOK(files[1]) /\ FileOK(files[3])
    BY <1>2, OneSeq DEF FileOK
  <2>2. FileOK(files[2])
    BY <1>2 DEF FileOK, IsSeq
  <2> QED BY <1>2, <2>1, <2>2 DEF FilesOK
<1>4. /\ Name("table", 1) # Name("MANIFEST", 1) /\ Name("table", 1) # CURRENT
      /\ Name("MANIFEST", 1) # CURRENT
  BY DEF Name, CURRENT
<1>5. /\ DOMAIN D = {Name("table", 1), Name("MANIFEST", 1), CURRENT} /\ IsFcn(D)
      /\ D[Name("table", 1)] = 1 /\ D[Name("MANIFEST", 1)] = 2 /\ D[CURRENT] = 3
  BY <1>4 DEF IsFcn
<1>6. LiveIn(<<first, second>>, 2) = {1}
  <2>1. PICK r, s : r = <<first>> /\ s = <<first, second>>
    OBVIOUS
  <2>2. s[1] = first /\ s[2] = second /\ first.add = {} /\ second.add = {1} /\ second.del = {}
    BY <2>1 DEF TableEdit
  <2>3. LiveIn(s, 1 + 1) = (LiveIn(s, 1) \ s[1 + 1].del) \cup s[1 + 1].add
    BY LiveInAppend
  <2>4. LiveIn(s, 1) = {}
    <3>1. 1..1 = {1}
      OBVIOUS
    <3> QED BY <2>2, <3>1 DEF LiveIn
  <2> QED BY <2>1, <2>2, <2>3, <2>4
<1> HIDE DEF D, first, second
<1>7. /\ Number(files, D) = 1 /\ ManifestName(files, D) = Name("MANIFEST", 1) /\ InUse(files, D) = 2
      /\ LiveAt(files, 2, 2) = {1}
  BY <1>2, <1>5, <1>6, OneSeq DEF Number, ManifestName, InUse, LiveAt
<1>8. DirOK(files, D) /\ Leads(files, D)
  BY <1>2, <1>5, <1>7 DEF DirOK, Leads
<1>9. HasTable(files, D, 2, 1)
  BY <1>2, <1>5, <1>7 DEF HasTable, Whole
<1>10. OpensTo(files, D, 1)
  <2>1. \A k \in 2..2 : k = 2
    OBVIOUS
  <2> QED BY <1>2, <1>7, <1>8, <1>9, <2>1 DEF OpensTo
<1>11. Good(files, dirs, 1) /\ Dir = D
  BY <1>1, <1>3, <1>10, OpensSurvives, OneSeq DEF Good, Dir
<1>12. \E u \in LiveAt(files, InUse(files, Dir), files[InUse(files, Dir)].written) : Good(files, dirs, u)
  BY <1>11, SomeGood DEF Dir
<1>13. /\ work.pc = "idle" /\ work.table = 1 /\ work.manifest = 1 /\ work.descriptor = Closed
       /\ work.fresh = FALSE /\ WorkOK
  BY <1>1 DEF Opened, WorkOK, Calm, Fresh, Tmp
<1>14. DatabaseOK
  BY <1>7, <1>11, <1>12, <1>13 DEF DatabaseOK, Newest, ManifestOK
<1>15. TableOK /\ DescOK /\ TmpOK
  BY <1>13 DEF TableOK, DescOK, TmpOK, Desc, Both, Tmp
<1> QED BY <1>13, <1>14, <1>15 DEF FilesInv

LEMMA FilesNextInv ==
  ASSUME FilesInv, Journaled, [FilesNext]_filesVars
  PROVE  FilesInv'
<1>1. CASE UNCHANGED filesVars
  <2>1. files' = files /\ dirs' = dirs /\ work' = work /\ Dir' = Dir /\ Newest' = Newest
    BY <1>1 DEF filesVars, Dir, Newest
  <2>2. WorkOK' /\ TmpOK'
    BY <2>1 DEF FilesInv, WorkOK, TmpOK, IsAt
  <2>3. TableOK' /\ DescOK'
    BY <2>1 DEF FilesInv, TableOK, DescOK, IsAt, AllWritten, AllSynced, Desc
  <2>4. DatabaseOK'
    BY <2>1 DEF FilesInv, DatabaseOK, ManifestOK
  <2> QED BY <2>2, <2>3, <2>4 DEF FilesInv
<1>2. CASE FilesNext
  BY <1>2, NewTableStep, AppendTableStep, SyncTableStep, CloseTableStep, DropTableStep,
     NewManifestStep, SnapshotStep, RecordStep, SyncDirStep, SyncManifestStep, DropManifestStep,
     NewTmpStep, AppendTmpStep, SyncTmpStep, CloseTmpStep, RenameStep, DropTmpStep, DeleteStep,
     WriteBackStep, ProcessDiesStep, MachineDiesStep, ReopenStep DEF FilesNext
<1> QED BY <1>1, <1>2

(* DatabaseOpens is an invariant on a file system that puts changes of the    *)
(* directory on the disk before data written later: whatever calls of Env     *)
(* fail, and whenever the process or the machine dies, CURRENT leads to a     *)
(* MANIFEST and all the tables that it names.                                 *)
THEOREM DatabaseCanBeOpened == Journaled => (FilesSpec => []DatabaseOpens)
<1> SUFFICES ASSUME Journaled
             PROVE  FilesSpec => []DatabaseOpens
  OBVIOUS
<1>1. FilesInit => FilesInv
  BY FilesInitInv
<1>2. FilesInv /\ [FilesNext]_filesVars => FilesInv'
  BY FilesNextInv
<1>3. FilesInv => DatabaseOpens
  <2> SUFFICES ASSUME FilesInv
               PROVE  DatabaseOpens
    OBVIOUS
  <2>1. PICK t \in LiveAt(files, InUse(files, Dir), files[InUse(files, Dir)].written) : Good(files, dirs, t)
    BY DEF FilesInv, DatabaseOK
  <2> QED BY <2>1, Opens
<1> QED BY <1>1, <1>2, <1>3, PTL DEF FilesSpec

-----------------------------------------------------------------------------
(* Recursions. *)

LEMMA LeastNatural ==
  ASSUME NEW S \in SUBSET Nat, S # {}
  PROVE  \E n \in S : \A m \in S : n <= m
<1>1. PICK n \in S : \A m \in S : ~ (<<m, n>> \in OpToRel(<, Nat))
  BY NatLessThanWellFounded, WFMin, ZenonT(30)
<1>2. \A m \in S : ~(m < n)
  BY <1>1 DEF OpToRel
<1> QED BY <1>2

(* What a recursion over 0..n computes exists, when its steps F stay in S.    *)
Computed(F, a, n, g) == g = [i \in 0..n |-> IF i = 0 THEN a ELSE F[i][g[i - 1]]]

LEMMA RecursionExists ==
  ASSUME NEW S, NEW a \in S, NEW n \in Nat, NEW F, \A i \in 1..n, x \in S : F[i][x] \in S
  PROVE  \E g \in [0..n -> S] : Computed(F, a, n, g)
<1> DEFINE Missing == {m \in 0..n : ~\E g \in [0..m -> S] : Computed(F, a, m, g)}
<1>1. SUFFICES ASSUME Missing # {} PROVE FALSE
  <2>1. n \in 0..n
    OBVIOUS
  <2> QED BY <2>1
<1>2. PICK m \in Missing : \A k \in Missing : m <= k
  <2>1. Missing \in SUBSET Nat
    OBVIOUS
  <2> HIDE DEF Missing
  <2> QED BY <1>1, <2>1, LeastNatural
<1>3. m # 0
  <2> DEFINE g == [i \in 0..0 |-> a]
  <2>1. g \in [0..0 -> S]
    OBVIOUS
  <2>2. Computed(F, a, 0, g)
    BY DEF Computed
  <2> HIDE DEF g
  <2> QED BY <2>1, <2>2
<1>4. m \in 1..n /\ m - 1 \in 0..n /\ ~(m <= m - 1)
  BY <1>3
<1>5. PICK f \in [0..m - 1 -> S] : Computed(F, a, m - 1, f)
  BY <1>2, <1>4
<1> DEFINE g == [i \in 0..m |-> IF i = m THEN F[m][f[m - 1]] ELSE f[i]]
<1>6. f[m - 1] \in S
  BY <1>4, <1>5
<1>7. g \in [0..m -> S]
  BY <1>4, <1>5, <1>6
<1>8. Computed(F, a, m, g)
  <2>1. ASSUME NEW i \in 0..m
        PROVE  g[i] = IF i = 0 THEN a ELSE F[i][g[i - 1]]
    <3>1. CASE i = m
      BY <1>3, <1>4, <3>1
    <3>2. CASE i # m
      <4>1. i \in 0..m - 1 /\ g[i] = f[i] /\ (i # 0 => g[i - 1] = f[i - 1])
        BY <1>4, <3>2
      <4>2. f[i] = IF i = 0 THEN a ELSE F[i][f[i - 1]]
        BY <1>5, <4>1 DEF Computed
      <4> HIDE DEF g
      <4> QED BY <4>1, <4>2
    <3> QED BY <3>1, <3>2
  <2>2. g = [i \in 0..m |-> g[i]]
    OBVIOUS
  <2> HIDE DEF g
  <2> QED BY <2>1, <2>2 DEF Computed
<1> HIDE DEF g
<1> QED BY <1>2, <1>7, <1>8

LEMMA RecursionUnique ==
  ASSUME NEW F, NEW a, NEW m \in Nat, NEW n \in Nat, m <= n, NEW f, NEW g,
         Computed(F, a, m, f), Computed(F, a, n, g)
  PROVE  \A i \in 0..m : f[i] = g[i]
<1> DEFINE Odd == {i \in 0..m : f[i] # g[i]}
<1>1. SUFFICES ASSUME Odd # {} PROVE FALSE
  OBVIOUS
<1>2. PICK i \in Odd : \A k \in Odd : i <= k
  <2>1. Odd \in SUBSET Nat
    OBVIOUS
  <2> HIDE DEF Odd
  <2> QED BY <1>1, <2>1, LeastNatural
<1>3. i \in 0..m /\ i \in 0..n
  OBVIOUS
<1>4. /\ f[i] = IF i = 0 THEN a ELSE F[i][f[i - 1]]
      /\ g[i] = IF i = 0 THEN a ELSE F[i][g[i - 1]]
  BY <1>3 DEF Computed
<1>5. i # 0
  BY <1>4
<1>6. i - 1 \in 0..m /\ ~(i <= i - 1)
  BY <1>5
<1>7. f[i - 1] = g[i - 1]
  BY <1>2, <1>6
<1> QED BY <1>4, <1>5, <1>7

-----------------------------------------------------------------------------
(* Arithmetic. *)

LEMMA Times ==
  ASSUME NEW b \in Nat, NEW x \in Nat, NEW y \in Nat, x < y
  PROVE  b * x \in Nat /\ b * y \in Nat /\ b * x + b <= b * y
<1>1. x + 1 <= y
  OBVIOUS
<1>2. b * (x + 1) <= b * y
  BY ONLY <1>1, b \in Nat, x \in Nat, y \in Nat
<1>3. b * (x + 1) = b * x + b
  OBVIOUS
<1> QED BY <1>2, <1>3

LEMMA Division ==
  ASSUME NEW n \in Nat, NEW d \in Nat \ {0}
  PROVE  /\ n \div d \in Nat /\ n % d \in 0..d - 1
         /\ n = d * (n \div d) + (n % d)
         /\ \A q \in Nat, r \in 0..d - 1 : n = d * q + r => q = n \div d /\ r = n % d
<1>1. n \div d \in Nat /\ n % d \in 0..d - 1
  OBVIOUS
<1>2. n = d * (n \div d) + (n % d)
  OBVIOUS
<1>3. ASSUME NEW q \in Nat, NEW r \in 0..d - 1, n = d * q + r
      PROVE  q = n \div d /\ r = n % d
  <2>1. PICK e \in Nat, s \in 0..d - 1 : e = n \div d /\ s = n % d
    BY <1>1
  <2>2. d * q + r = d * e + s
    BY <1>2, <1>3, <2>1
  <2>3. ~(q < e)
    BY <2>2, Times
  <2>4. ~(e < q)
    BY <2>2, Times
  <2>5. q = e
    BY <2>3, <2>4
  <2> QED BY <2>1, <2>2, <2>5
<1> QED BY <1>1, <1>2, <1>3

(* Dividing by p and then by b is dividing by b * p.                          *)
LEMMA DivideTwice ==
  ASSUME NEW n \in Nat, NEW p \in Nat \ {0}, NEW b \in Nat \ {0}
  PROVE  n \div (b * p) = (n \div p) \div b
<1>1. PICK q \in Nat, r \in 0..p - 1 : q = n \div p /\ n = p * q + r
  BY Division
<1>2. PICK e \in Nat, s \in 0..b - 1 : e = q \div b /\ q = b * e + s
  BY Division
<1> DEFINE x == p * s + r
<1>3. b * p \in Nat \ {0} /\ (b * p) * e = p * (b * e) /\ p * (b * e + s) = p * (b * e) + p * s
  OBVIOUS
<1>4. n = (b * p) * e + x
  <2>1. p * q = (b * p) * e + p * s
    BY <1>2, <1>3
  <2>2. (b * p) * e \in Nat /\ p * s \in Nat
    OBVIOUS
  <2> QED BY <1>1, <2>1, <2>2
<1>5. x \in 0..b * p - 1
  <2>1. p * s \in Nat /\ p * (b - 1) = b * p - p
    OBVIOUS
  <2>2. p * s <= p * (b - 1)
    BY ONLY s \in 0..b - 1, b \in Nat \ {0}, p \in Nat
  <2> QED BY <1>3, <2>1, <2>2
<1> HIDE DEF x
<1>6. e = n \div (b * p)
  BY <1>3, <1>4, <1>5, Division
<1> QED BY <1>1, <1>2, <1>6

(* The test of ConsumeDecimalNumber is that for overflow.                     *)
LEMMA OverflowTest ==
  ASSUME NEW a \in Nat, NEW d \in 0..Base - 1
  PROVE  a > kMaxUint \div Base \/ (a = kMaxUint \div Base /\ d > kMaxUint % Base)
           <=> a * Base + d > kMaxUint
<1>1. Base \in Nat \ {0} /\ kMaxUint \in Nat
  BY NamesAssumption
<1>2. PICK q \in Nat, r \in 0..Base - 1 :
        q = kMaxUint \div Base /\ r = kMaxUint % Base /\ kMaxUint = Base * q + r
  BY <1>1, Division
<1>3. a * Base = Base * a
  BY <1>1
<1>4. CASE a > q
  <2>1. Base * q + Base <= Base * a /\ Base * a \in Nat /\ Base * q \in Nat
    BY <1>1, <1>4, Times
  <2> QED BY <1>1, <1>2, <1>3, <1>4, <2>1
<1>5. CASE a = q
  <2>1. Base * a \in Nat
    BY <1>1
  <2> QED BY <1>1, <1>2, <1>3, <1>5, <2>1
<1>6. CASE a < q
  <2>1. Base * a + Base <= Base * q /\ Base * a \in Nat /\ Base * q \in Nat
    BY <1>1, <1>6, Times
  <2> QED BY <1>1, <1>2, <1>3, <1>6, <2>1
<1> QED BY <1>4, <1>5, <1>6

-----------------------------------------------------------------------------
(* Reading digits. *)

(* What the digits are worth so far, and what ConsumeDecimalNumber makes of   *)
(* them so far.                                                               *)
IsWorth(digits, v) ==
  v = [n \in 0..Len(digits) |-> IF n = 0 THEN 0 ELSE v[n - 1] * Base + digits[n]]

Overflows(x, d) == x > kMaxUint \div Base \/ (x = kMaxUint \div Base /\ d > kMaxUint % Base)
NextValue(x, d) == IF x = None \/ Overflows(x, d) THEN None ELSE x * Base + d
IsConsumed(digits, v) ==
  v = [n \in 0..Len(digits) |-> IF n = 0 THEN 0 ELSE NextValue(v[n - 1], digits[n])]

DigitStrings == Seq(0..Base - 1)

LEMMA WorthExists ==
  ASSUME NEW digits \in DigitStrings
  PROVE  \E v \in [0..Len(digits) -> Nat] : IsWorth(digits, v) /\ Worth(digits) = v[Len(digits)]
<1> DEFINE n == Len(digits)
           F == [i \in 1..n |-> [x \in Nat |-> x * Base + digits[i]]]
<1>1. n \in Nat /\ Base \in Nat /\ \A i \in 1..n : digits[i] \in Nat
  BY NamesAssumption DEF DigitStrings
<1>2. \A i \in 1..n, x \in Nat : F[i][x] = x * Base + digits[i] /\ F[i][x] \in Nat
  BY <1>1
<1> HIDE DEF F
<1>3. PICK g \in [0..n -> Nat] : Computed(F, 0, n, g)
  BY <1>1, <1>2, RecursionExists
<1>4. IsWorth(digits, g)
  <2>1. \A i \in 0..n : i # 0 => i \in 1..n /\ g[i - 1] \in Nat
    BY <1>1
  <2>2. \A i \in 0..n : (IF i = 0 THEN 0 ELSE F[i][g[i - 1]])
                          = IF i = 0 THEN 0 ELSE g[i - 1] * Base + digits[i]
    BY <1>2, <2>1
  <2> QED BY <1>3, <2>2 DEF Computed, IsWorth
<1>5. PICK v : v = CHOOSE w : IsWorth(digits, w)
  OBVIOUS
<1>6. IsWorth(digits, v) /\ Worth(digits) = v[n]
  BY <1>4, <1>5 DEF Worth, IsWorth
<1>7. v \in [0..n -> Nat]
  <2> DEFINE Odd == {i \in 0..n : v[i] \notin Nat}
  <2>1. SUFFICES ASSUME Odd # {} PROVE FALSE
    <3>1. v = [i \in 0..n |-> v[i]]
      BY <1>6 DEF IsWorth
    <3> QED BY <3>1
  <2>2. PICK m \in Odd : \A k \in Odd : m <= k
    <3>1. Odd \in SUBSET Nat
      BY <1>1
    <3> HIDE DEF Odd
    <3> QED BY <2>1, <3>1, LeastNatural
  <2>3. m \in 0..n /\ v[m] = IF m = 0 THEN 0 ELSE v[m - 1] * Base + digits[m]
    BY <1>6 DEF IsWorth
  <2>4. m # 0 /\ m - 1 \in 0..n /\ ~(m <= m - 1) /\ m \in 1..n
    BY <1>1, <2>3
  <2>5. v[m - 1] \in Nat
    BY <2>2, <2>4
  <2>6. PICK x \in Nat : x = v[m - 1]
    BY <2>5
  <2>7. x * Base \in Nat /\ digits[m] \in Nat
    BY <1>1, <2>4
  <2> QED BY <2>2, <2>3, <2>4, <2>6, <2>7
<1> QED BY <1>6, <1>7

LEMMA ConsumedExists ==
  ASSUME NEW digits \in DigitStrings
  PROVE  \E v : IsConsumed(digits, v)
               /\ ConsumeDecimalNumber(digits) = IF digits = <<>> THEN None ELSE v[Len(digits)]
<1> DEFINE n == Len(digits)
           S == Nat \cup {None}
           F == [i \in 1..n |-> [x \in S |-> NextValue(x, digits[i])]]
<1>1. n \in Nat /\ Base \in Nat /\ \A i \in 1..n : digits[i] \in Nat
  BY NamesAssumption DEF DigitStrings
<1>2. \A i \in 1..n, x \in S : F[i][x] = NextValue(x, digits[i]) /\ F[i][x] \in S
  BY <1>1 DEF NextValue
<1> HIDE DEF F
<1>3. PICK g \in [0..n -> S] : Computed(F, 0, n, g)
  BY <1>1, <1>2, RecursionExists
<1>4. IsConsumed(digits, g)
  <2>1. \A i \in 0..n : i # 0 => i \in 1..n /\ g[i - 1] \in S
    BY <1>1
  <2>2. \A i \in 0..n : (IF i = 0 THEN 0 ELSE F[i][g[i - 1]])
                          = IF i = 0 THEN 0 ELSE NextValue(g[i - 1], digits[i])
    BY <1>2, <2>1
  <2> QED BY <1>3, <2>2 DEF Computed, IsConsumed
<1>5. PICK v : v = CHOOSE w : IsConsumed(digits, w)
  OBVIOUS
<1>6. IsConsumed(digits, v)
  BY <1>4, <1>5
<1>7. ConsumeDecimalNumber(digits) = IF digits = <<>> THEN None ELSE v[n]
  <2> DEFINE Step(x, d) == CASE x = None -> None
                             [] x # None /\ \/ x > kMaxUint \div Base
                                            \/ /\ x = kMaxUint \div Base
                                               /\ d > kMaxUint % Base -> None
                             [] OTHER -> x * Base + d
  <2>1. \A x, d : Step(x, d) = NextValue(x, d)
    BY DEF NextValue, Overflows
  <2>2. ConsumeDecimalNumber(digits)
          = IF digits = <<>> THEN None
            ELSE (CHOOSE w : w = [i \in 0..n |-> IF i = 0 THEN 0 ELSE Step(w[i - 1], digits[i])])[n]
    BY DEF ConsumeDecimalNumber
  <2> HIDE DEF Step
  <2>3. (CHOOSE w : w = [i \in 0..n |-> IF i = 0 THEN 0 ELSE Step(w[i - 1], digits[i])])
          = CHOOSE w : IsConsumed(digits, w)
    BY <2>1, Zenon DEF IsConsumed
  <2> QED BY <1>5, <2>2, <2>3
<1> QED BY <1>6, <1>7

(* Digits are a number exactly if their value is at most the largest one, and *)
(* then they are that value (util/logging.cc:48).                             *)
LEMMA ConsumeExact ==
  ASSUME NEW digits \in DigitStrings
  PROVE  /\ Worth(digits) \in Nat
         /\ ConsumeDecimalNumber(digits) = IF Numbered(digits) THEN Worth(digits) ELSE None
<1> DEFINE n == Len(digits)
<1>1. n \in Nat /\ Base \in Nat /\ Base >= 2 /\ kMaxUint \in Nat
      /\ \A i \in 1..n : digits[i] \in 0..Base - 1
  BY NamesAssumption DEF DigitStrings
<1>2. PICK v \in [0..n -> Nat] : IsWorth(digits, v) /\ Worth(digits) = v[n]
  BY WorthExists
<1>3. PICK c : IsConsumed(digits, c)
                 /\ ConsumeDecimalNumber(digits) = IF digits = <<>> THEN None ELSE c[n]
  BY ConsumedExists
<1> DEFINE Odd == {i \in 0..n : c[i] # IF v[i] <= kMaxUint THEN v[i] ELSE None}
<1>4. Odd = {}
  <2>1. SUFFICES ASSUME Odd # {} PROVE FALSE
    OBVIOUS
  <2>2. PICK m \in Odd : \A k \in Odd : m <= k
    <3>1. Odd \in SUBSET Nat
      BY <1>1
    <3> HIDE DEF Odd
    <3> QED BY <2>1, <3>1, LeastNatural
  <2>3. /\ m \in 0..n
        /\ v[m] = IF m = 0 THEN 0 ELSE v[m - 1] * Base + digits[m]
        /\ c[m] = IF m = 0 THEN 0 ELSE NextValue(c[m - 1], digits[m])
    BY <1>2, <1>3 DEF IsWorth, IsConsumed
  <2>4. m # 0
    BY <1>1, <2>3
  <2>5. m - 1 \in 0..n /\ ~(m <= m - 1) /\ m \in 1..n
    BY <1>1, <2>3, <2>4
  <2>6. PICK x \in Nat, d \in 0..Base - 1, y \in Nat :
          x = v[m - 1] /\ d = digits[m] /\ y = v[m] /\ y = x * Base + d
    BY <1>1, <1>2, <2>3, <2>4, <2>5
  <2>7. c[m - 1] = IF x <= kMaxUint THEN x ELSE None
    BY <2>2, <2>5, <2>6
  <2>8. x <= y
    <3>1. x * Base = Base * x /\ Base * x \in Nat /\ x <= Base * x
      <4>1. x * Base >= x * 1
        BY ONLY <1>1, x \in Nat, Base \in Nat
      <4> QED BY <1>1, <4>1
    <3> QED BY <2>6, <3>1
  <2>9. CASE x > kMaxUint
    BY <1>1, <2>2, <2>3, <2>4, <2>6, <2>7, <2>8, <2>9 DEF NextValue
  <2>10. CASE x <= kMaxUint
    <3>1. x # None /\ c[m - 1] = x
      BY <1>1, <2>7, <2>10, NoneAssumption
    <3>2. c[m] = IF Overflows(x, d) THEN None ELSE y
      BY <2>3, <2>4, <2>6, <3>1 DEF NextValue
    <3>3. Overflows(x, d) <=> y > kMaxUint
      BY <2>6, OverflowTest DEF Overflows
    <3>4. c[m] # IF y <= kMaxUint THEN y ELSE None
      BY <2>2, <2>6
    <3> QED BY ONLY <1>1, y \in Nat, <3>2, <3>3, <3>4
  <2> QED BY ONLY <1>1, x \in Nat, <2>9, <2>10
<1>5. c[n] = IF v[n] <= kMaxUint THEN v[n] ELSE None
  BY <1>1, <1>4
<1> QED BY <1>1, <1>2, <1>3, <1>5 DEF Numbered

-----------------------------------------------------------------------------
(* Writing digits. *)

IsPower(f) == f = [k \in Nat |-> IF k = 0 THEN 1 ELSE Base * f[k - 1]]

LEMMA PowerExists == IsPower(Power)
<1> DEFINE F == [i \in Nat |-> [x \in Nat |-> Base * x]]
<1>1. Base \in Nat
  BY NamesAssumption
<1>2. \A i, x \in Nat : F[i][x] = Base * x /\ F[i][x] \in Nat
  BY <1>1
<1> HIDE DEF F
<1> DEFINE Up(n) == CHOOSE g \in [0..n -> Nat] : Computed(F, 1, n, g)
<1>3. ASSUME NEW n \in Nat
      PROVE  Up(n) \in [0..n -> Nat] /\ Computed(F, 1, n, Up(n))
  <2>1. 1 \in Nat /\ \A i \in 1..n, x \in Nat : F[i][x] \in Nat
    BY <1>2
  <2>2. \E g \in [0..n -> Nat] : Computed(F, 1, n, g)
    BY <2>1, RecursionExists
  <2> QED BY <2>2
<1> HIDE DEF Up
<1>4. ASSUME NEW n \in Nat
      PROVE  Up(n + 1)[n] = Up(n)[n]
  <2>1. n + 1 \in Nat /\ n <= n + 1
    OBVIOUS
  <2>2. \A i \in 0..n : Up(n)[i] = Up(n + 1)[i]
    BY <1>3, <2>1, RecursionUnique
  <2> QED BY <2>2
<1> DEFINE f == [k \in Nat |-> Up(k)[k]]
<1>5. ASSUME NEW k \in Nat
      PROVE  f[k] = IF k = 0 THEN 1 ELSE Base * f[k - 1]
  <2>1. Up(k)[k] = IF k = 0 THEN 1 ELSE F[k][Up(k)[k - 1]]
    BY <1>3 DEF Computed
  <2>2. CASE k # 0
    <3>1. k - 1 \in Nat /\ (k - 1) + 1 = k
      BY <2>2
    <3>2. Up(k)[k - 1] = Up(k - 1)[k - 1]
      BY <1>4, <3>1
    <3>3. Up(k)[k - 1] \in Nat
      BY <1>3, <3>1
    <3> QED BY <1>2, <2>1, <2>2, <3>1, <3>2, <3>3
  <2> QED BY <2>1, <2>2
<1>6. IsPower(f)
  <2>1. f = [k \in Nat |-> f[k]]
    OBVIOUS
  <2> HIDE DEF f
  <2> QED BY <1>5, <2>1 DEF IsPower
<1>7. Power = CHOOSE g : IsPower(g)
  BY Zenon DEF Power, IsPower
<1> HIDE DEF f
<1> QED BY <1>6, <1>7

LEMMA Powers ==
  /\ Power[0] = 1
  /\ \A k \in Nat : Power[k] \in Nat \ {0} /\ Power[k + 1] = Base * Power[k] /\ k < Power[k]
<1>1. Base \in Nat /\ Base >= 2
  BY NamesAssumption
<1>2. \A k \in Nat : Power[k] = IF k = 0 THEN 1 ELSE Base * Power[k - 1]
  BY PowerExists DEF IsPower
<1>3. \A k \in Nat : Power[k + 1] = Base * Power[k]
  <2>1. \A k \in Nat : k + 1 \in Nat /\ k + 1 # 0 /\ (k + 1) - 1 = k
    OBVIOUS
  <2> QED BY <1>2, <2>1
<1> DEFINE Odd == {k \in Nat : ~(Power[k] \in Nat /\ k < Power[k])}
<1>4. Odd = {}
  <2>1. SUFFICES ASSUME Odd # {} PROVE FALSE
    OBVIOUS
  <2>2. PICK m \in Odd : \A k \in Odd : m <= k
    <3>1. Odd \in SUBSET Nat
      OBVIOUS
    <3> HIDE DEF Odd
    <3> QED BY <2>1, <3>1, LeastNatural
  <2>3. m # 0
    BY <1>2
  <2>4. m - 1 \in Nat /\ ~(m <= m - 1)
    BY <2>3
  <2>5. PICK x \in Nat : x = Power[m - 1] /\ m - 1 < x
    BY <2>2, <2>4
  <2>6. Power[m] = Base * x
    BY <1>2, <2>3, <2>5
  <2>7. Base * x \in Nat /\ Base * x >= 2 * x
    BY ONLY <1>1, x \in Nat
  <2> QED BY <2>2, <2>4, <2>5, <2>6, <2>7
<1>5. \A k \in Nat : Power[k] \in Nat /\ k < Power[k]
  BY <1>4
<1> QED BY <1>2, <1>3, <1>5

LEMMA PowersAscend ==
  ASSUME NEW k \in Nat, NEW j \in Nat, k <= j
  PROVE  Power[k] <= Power[j]
<1> DEFINE Odd == {i \in Nat : k <= i /\ ~(Power[k] <= Power[i])}
<1>1. SUFFICES ASSUME Odd # {} PROVE FALSE
  OBVIOUS
<1>2. PICK m \in Odd : \A i \in Odd : m <= i
  <2>1. Odd \in SUBSET Nat
    OBVIOUS
  <2> HIDE DEF Odd
  <2> QED BY <1>1, <2>1, LeastNatural
<1>3. m # k
  BY Powers
<1>4. m - 1 \in Nat /\ k <= m - 1 /\ ~(m <= m - 1) /\ (m - 1) + 1 = m
  BY <1>3
<1>5. Power[k] <= Power[m - 1]
  BY <1>2, <1>4
<1>6. PICK x \in Nat, y \in Nat : x = Power[m - 1] /\ y = Power[k]
  BY <1>4, Powers
<1>7. Power[m] = Base * x
  BY <1>4, <1>6, Powers
<1>8. Base \in Nat /\ Base >= 2
  BY NamesAssumption
<1>9. Base * x \in Nat /\ x <= Base * x
  BY ONLY <1>8, x \in Nat
<1> QED BY <1>2, <1>5, <1>6, <1>7, <1>9

(* A number is what its digits are worth, with zeros in front or without.     *)
LEMMA DigitsWorth ==
  ASSUME NEW number \in 0..kMaxUint, NEW k \in Nat
  PROVE  /\ Digits(number, k) \in DigitStrings /\ Digits(number, k) # <<>>
         /\ Worth(Digits(number, k)) = number
<1>1. Base \in Nat \ {0} /\ kMaxUint \in Nat /\ number \in Nat
  BY NamesAssumption
<1> DEFINE Fits(n) == number < Power[n] /\ (n > 1 => number >= Power[n - 1])
           len == CHOOSE n \in 1..kMaxUint + 1 : Fits(n)
           all == IF len < k THEN k ELSE len
           D == [i \in 1..all |-> (number \div Power[all - i]) % Base]
<1>2. \E n \in 1..kMaxUint + 1 : Fits(n)
  <2> DEFINE Beyond == {n \in Nat \ {0} : number < Power[n]}
  <2>1. number + 1 \in Beyond
    <3>1. number + 1 \in Nat
      BY <1>1
    <3>2. number + 1 < Power[number + 1] /\ Power[number + 1] \in Nat
      BY <3>1, Powers
    <3> QED BY <1>1, <3>1, <3>2
  <2>2. PICK n \in Beyond : \A m \in Beyond : n <= m
    <3>1. Beyond \in SUBSET Nat
      OBVIOUS
    <3> HIDE DEF Beyond
    <3> QED BY <2>1, <3>1, LeastNatural
  <2>3. n \in 1..kMaxUint + 1
    BY <1>1, <2>1, <2>2
  <2>4. n > 1 => number >= Power[n - 1]
    <3>1. SUFFICES ASSUME n > 1 PROVE ~(number < Power[n - 1])
      <4>1. n > 1 => n - 1 \in Nat /\ Power[n - 1] \in Nat
        BY Powers
      <4> QED BY <1>1, <4>1
    <3>2. n - 1 \in Nat \ {0} /\ ~(n <= n - 1)
      BY <3>1
    <3> QED BY <2>2, <3>2
  <2> QED BY <2>2, <2>3, <2>4
<1>3. len \in 1..kMaxUint + 1 /\ Fits(len)
  BY <1>2
<1>4. Digits(number, k) = D
  BY DEF Digits
<1> HIDE DEF len
<1>5. all \in Nat \ {0} /\ len \in Nat /\ len <= all
  BY <1>1, <1>3
<1>6. number < Power[all]
  <2>1. Power[len] <= Power[all] /\ Power[len] \in Nat /\ Power[all] \in Nat
    BY <1>5, Powers, PowersAscend
  <2> QED BY <1>1, <1>3, <2>1
<1> HIDE DEF all, Fits
<1>7. ASSUME NEW i \in 1..all
      PROVE  /\ all - i \in Nat /\ number \div Power[all - i] \in Nat
             /\ (number \div Power[all - i]) % Base \in 0..Base - 1
  <2>1. all - i \in Nat
    BY <1>5
  <2>2. Power[all - i] \in Nat \ {0}
    BY <2>1, Powers
  <2>3. number \div Power[all - i] \in Nat
    BY <1>1, <2>2, Division
  <2> QED BY <1>1, <2>1, <2>3, Division
<1>8. D \in DigitStrings /\ Len(D) = all /\ D # <<>>
  <2>1. D \in [1..all -> 0..Base - 1]
    BY <1>7
  <2>2. D \in Seq(0..Base - 1)
    BY <1>5, <2>1, SeqDef
  <2>3. Len(D) = all
    BY <1>5, <2>2, LenProperties
  <2> QED BY <1>5, <2>2, <2>3 DEF DigitStrings
<1>9. PICK v \in [0..all -> Nat] : IsWorth(D, v) /\ Worth(D) = v[all]
  BY <1>8, WorthExists
<1> DEFINE Odd == {i \in 0..all : v[i] # number \div Power[all - i]}
<1>10. Odd = {}
  <2>1. SUFFICES ASSUME Odd # {} PROVE FALSE
    OBVIOUS
  <2>2. PICK i \in Odd : \A j \in Odd : i <= j
    <3>1. Odd \in SUBSET Nat
      BY <1>5
    <3> HIDE DEF Odd
    <3> QED BY <2>1, <3>1, LeastNatural
  <2>3. i \in 0..all /\ v[i] = IF i = 0 THEN 0 ELSE v[i - 1] * Base + D[i]
    BY <1>8, <1>9 DEF IsWorth
  <2>4. i # 0
    <3>1. SUFFICES ASSUME i = 0 PROVE FALSE
      OBVIOUS
    <3>2. PICK p \in Nat \ {0} : p = Power[all]
      BY <1>5, Powers
    <3>3. number = p * 0 + number /\ number \in 0..p - 1
      BY <1>1, <1>6, <3>2
    <3>4. 0 = number \div p
      <4>1. \A q \in Nat, r \in 0..p - 1 : number = p * q + r => q = number \div p /\ r = number % p
        BY <1>1, Division
      <4>2. 0 \in Nat /\ number = p * 0 + number => 0 = number \div p
        BY <3>3, <4>1
      <4> QED BY <3>3, <4>2
    <3>5. all - 0 = all
      BY <1>5
    <3> QED BY <2>2, <2>3, <3>1, <3>2, <3>4, <3>5
  <2>5. i \in 1..all /\ i - 1 \in 0..all /\ ~(i <= i - 1) /\ all - (i - 1) = (all - i) + 1 /\ all - i \in Nat
    BY <1>5, <2>3, <2>4
  <2>6. PICK p \in Nat \ {0} : p = Power[all - i] /\ Power[all - (i - 1)] = Base * p
    BY <2>5, Powers
  <2>7. PICK q \in Nat : q = number \div p
    BY <1>1, Division
  <2>8. v[i - 1] = q \div Base
    <3>1. v[i - 1] = number \div (Base * p)
      BY <2>2, <2>5, <2>6
    <3> QED BY <1>1, <2>7, <3>1, DivideTwice
  <2>9. D[i] = (q % Base)
    BY <2>5, <2>6, <2>7
  <2>10. PICK e \in Nat, s \in 0..Base - 1 : e = q \div Base /\ s = q % Base /\ q = Base * e + s
    <3>1. q \div Base \in Nat /\ q % Base \in 0..Base - 1 /\ q = Base * (q \div Base) + (q % Base)
      BY <1>1, Division
    <3> QED BY <3>1
  <2>11. v[i] = e * Base + s
    BY <2>3, <2>4, <2>8, <2>9, <2>10
  <2>12. e * Base = Base * e
    BY <1>1
  <2> QED BY <2>2, <2>6, <2>7, <2>10, <2>11, <2>12
<1>11. v[all] = number
  <2>1. v[all] = number \div Power[all - all]
    BY <1>5, <1>10
  <2>2. all - all = 0 /\ number = 1 * number + 0 /\ 0 \in 0..1 - 1
    BY <1>1, <1>5
  <2>3. number = number \div 1
    BY <1>1, <2>2, Division
  <2> QED BY <2>1, <2>2, <2>3, Powers
<1> QED BY <1>4, <1>8, <1>9, <1>11

-----------------------------------------------------------------------------
(* Names. *)

(* The name of a file leads back to its type and number.                      *)
LEMMA NameParses ==
  ASSUME NEW kind \in FileTypes, NEW n \in UsedNumbers
  PROVE  ParseFileName(FileName(kind, n)) = <<FileType(kind), IF kind \in Single THEN 0 ELSE n>>
<1>1. n \in 0..kMaxUint /\ Pad \in Nat /\ kMaxUint \in Nat
  BY NamesAssumption
<1>2. PICK digits \in DigitStrings :
        digits = Digits(n, Pad) /\ digits # <<>> /\ Worth(digits) = n
  BY <1>1, DigitsWorth
<1>3. Numbered(digits)
  BY <1>1, <1>2 DEF Numbered
<1>4. ConsumeDecimalNumber(digits) = n
  BY <1>2, <1>3, ConsumeExact
<1>5. n # None
  BY <1>1, NoneAssumption
<1>6. CASE kind \in Single
  <2> DEFINE name == <<kind, <<>>, "">>
  <2>1. name[1] = kind /\ name[2] = <<>> /\ name[3] = ""
    OBVIOUS
  <2>2. FileName(kind, n) = name
    BY <1>6 DEF FileName, Single
  <2> HIDE DEF name
  <2>3. kind \notin {"MANIFEST-", ""}
    BY <1>6 DEF Single
  <2>4. ParseFileName(name) = <<FileType(kind), 0>>
    BY <1>6, <2>1, <2>3 DEF ParseFileName
  <2> QED BY <1>6, <2>2, <2>4
<1>7. CASE kind = "MANIFEST-"
  <2> DEFINE name == <<kind, digits, "">>
  <2>1. name[1] = kind /\ name[2] = digits /\ name[3] = ""
    OBVIOUS
  <2>2. FileName(kind, n) = name
    BY <1>2, <1>7 DEF FileName
  <2> HIDE DEF name
  <2>3. kind \notin Single /\ FileType(kind) = kind
    BY <1>7 DEF Single, FileType
  <2>4. ParseFileName(name) = <<kind, n>>
    BY <1>4, <1>5, <1>7, <2>1, <2>3 DEF ParseFileName
  <2> QED BY <2>2, <2>3, <2>4
<1>8. CASE kind \in {"log", "ldb", "sst", "dbtmp"}
  <2> DEFINE name == <<"", digits, kind>>
  <2>1. name[1] = "" /\ name[2] = digits /\ name[3] = kind
    OBVIOUS
  <2>2. FileName(kind, n) = name
    BY <1>2, <1>8 DEF FileName
  <2> HIDE DEF name
  <2>3. kind \notin Single /\ "" \notin Single
    BY <1>8 DEF Single
  <2>4. ParseFileName(name) = <<FileType(kind), n>>
    BY <1>4, <1>5, <1>8, <2>1, <2>3 DEF ParseFileName
  <2> QED BY <2>2, <2>3, <2>4
<1> QED BY <1>6, <1>7, <1>8 DEF FileTypes

(* The names of others do not parse, and those of a database do.              *)
LEMMA OthersDoNotParse ==
  ASSUME NEW name \in Foreign
  PROVE  ParseFileName(name) = None
<1>1. name[2] \in DigitStrings /\ ~OwnedForm(name)
  BY NamesAssumption DEF DigitStrings
<1>2. ConsumeDecimalNumber(name[2]) # None => Numbered(name[2])
  BY <1>1, ConsumeExact
<1> QED BY <1>1, <1>2 DEF ParseFileName, OwnedForm

LEMMA OwnParse ==
  ASSUME NEW name \in Own
  PROVE  ParseFileName(name) # None
<1>1. PICK kind \in FileTypes, n \in UsedNumbers : name = FileName(kind, n)
  BY DEF Own
<1>2. PICK m \in 0..kMaxUint : ParseFileName(name) = <<FileType(kind), m>>
  <2>1. n \in 0..kMaxUint /\ 0 \in 0..kMaxUint
    BY NamesAssumption
  <2> QED BY <1>1, <2>1, NameParses
<1> QED BY <1>2, NoneAssumption

LEMMA LockIsOwn == LOCK \in Own
<1>1. PICK n \in UsedNumbers : TRUE
  BY NamesAssumption
<1>2. FileName("LOCK", n) = LOCK /\ "LOCK" \in FileTypes
  BY DEF FileName, LOCK, FileTypes, Single
<1> QED BY <1>1, <1>2 DEF Own

-----------------------------------------------------------------------------
(* DestroyDB. *)

Listed == Own \cup Foreign

(* What DestroyDB has looked at and what is still there is not the database's, *)
(* but for LOCK, unless a file could not be deleted; when it is past LOCK,    *)
(* that is not there either unless its deletion failed.                       *)
LeftOver(names) == names \subseteq Foreign \cup {LOCK} /\ (LOCK \in names => errors > 0)

NamesInv ==
  /\ deleted \subseteq Own /\ errors \in Nat
  /\ dir # None => dir \subseteq Listed
  /\ phase # "idle" => dir # None
  /\ phase \in {"lock", "files"} => filenames \subseteq Listed
  /\ phase = "lock" => filenames = dir
  /\ phase = "files" /\ result = "ok" => dir \ filenames \subseteq Foreign \cup {LOCK}
  /\ phase = "dir" /\ result = "ok" => LeftOver(dir)
  /\ phase = "idle" /\ result = "ok" => dir = None \/ LeftOver(dir)

LEMMA NoneIsNoSet == \A d \in SUBSET Listed : d # None
BY NoneAssumption DEF Listed

LEMMA NamesStart == NameInit => NamesInv
<1> SUFFICES ASSUME NameInit PROVE NamesInv
  OBVIOUS
<1>1. dir # None => dir \subseteq Listed
  BY LockIsOwn DEF NameInit, Listed
<1>2. phase = "idle" /\ result = "none" /\ deleted = {} /\ errors = 0
  BY DEF NameInit, NoCall
<1> QED BY <1>1, <1>2 DEF NamesInv

LEMMA ListNamesKeeps == NamesInv /\ ListNames => NamesInv'
<1> SUFFICES ASSUME NamesInv, ListNames PROVE NamesInv'
  OBVIOUS
<1>1. /\ dir' = dir /\ deleted' = deleted /\ deleted \subseteq Own /\ errors' \in Nat
      /\ dir # None => dir \subseteq Listed
  BY DEF NamesInv, ListNames, OneFails
<1>2. CASE dir # None /\ filenames' = dir /\ phase' = "lock"
  BY <1>1, <1>2 DEF NamesInv
<1>3. CASE result' = "none" /\ phase' = "idle"
  BY <1>1, <1>3 DEF NamesInv
<1> QED BY <1>2, <1>3 DEF ListNames

LEMMA LockFileKeeps == NamesInv /\ LockFile => NamesInv'
<1> SUFFICES ASSUME NamesInv, LockFile PROVE NamesInv'
  OBVIOUS
<1>1. /\ deleted' = deleted /\ deleted \subseteq Own /\ errors' \in Nat
      /\ dir # None /\ dir \subseteq Listed /\ filenames = dir
  BY DEF NamesInv, LockFile, OneFails
<1>2. /\ dir' \in {dir, dir \cup {LOCK}} /\ dir' \subseteq Listed /\ dir' # None
  <2>1. dir' \in {dir, dir \cup {LOCK}}
    BY DEF LockFile
  <2>2. dir' \subseteq Listed
    BY <1>1, <2>1, LockIsOwn DEF Listed
  <2> QED BY <2>1, <2>2, NoneIsNoSet
<1>3. CASE /\ dir' = dir \cup {LOCK} /\ phase' = "files" /\ filenames' = filenames
  BY <1>1, <1>2, <1>3 DEF NamesInv
<1>4. CASE phase' = "idle" /\ result' = "error"
  BY <1>1, <1>2, <1>4 DEF NamesInv
<1> QED BY <1>3, <1>4 DEF LockFile

LEMMA DeleteOneKeeps == NamesInv /\ DeleteOne => NamesInv'
<1> SUFFICES ASSUME NamesInv, DeleteOne PROVE NamesInv'
  OBVIOUS
<1>1. /\ phase = "files" /\ phase' = phase /\ dir # None
      /\ filenames \subseteq Listed /\ dir \subseteq Listed
      /\ deleted \subseteq Own /\ (result = "ok" => dir \ filenames \subseteq Foreign \cup {LOCK})
      /\ errors' \in Nat
  BY DEF NamesInv, DeleteOne, OneFails
<1>2. PICK name \in filenames :
        /\ filenames' = filenames \ {name}
        /\ \/ /\ ParseFileName(name) = None \/ name = LOCK
              /\ UNCHANGED <<dir, result, deleted>>
           \/ /\ ParseFileName(name) # None
              /\ dir' = dir \ {name} /\ deleted' = deleted \cup {name} /\ result' = result
           \/ result' = "error" /\ UNCHANGED <<dir, deleted>>
  BY DEF DeleteOne
<1>3. filenames' \subseteq Listed
  BY <1>1, <1>2
<1>4. CASE UNCHANGED <<dir, result, deleted>> /\ (ParseFileName(name) = None \/ name = LOCK)
  <2>1. name \in Foreign \cup {LOCK}
    BY <1>1, <1>4, OwnParse DEF Listed
  <2> QED BY <1>1, <1>2, <1>3, <1>4, <2>1 DEF NamesInv
<1>5. CASE /\ ParseFileName(name) # None
           /\ dir' = dir \ {name} /\ deleted' = deleted \cup {name} /\ result' = result
  <2>1. name \in Own
    BY <1>1, <1>5, OthersDoNotParse DEF Listed
  <2>2. dir' # None /\ dir' \subseteq Listed
    BY <1>1, <1>5, NoneIsNoSet
  <2> QED BY <1>1, <1>2, <1>3, <1>5, <2>1, <2>2 DEF NamesInv
<1>6. CASE result' = "error" /\ UNCHANGED <<dir, deleted>>
  BY <1>1, <1>3, <1>6 DEF NamesInv
<1> QED BY <1>2, <1>4, <1>5, <1>6

LEMMA DeleteLockKeeps == NamesInv /\ DeleteLock => NamesInv'
<1> SUFFICES ASSUME NamesInv, DeleteLock PROVE NamesInv'
  OBVIOUS
<1>1. /\ phase' = "dir" /\ result' = result /\ errors \in Nat /\ errors' \in Nat
      /\ dir # None /\ dir \subseteq Listed /\ deleted \subseteq Own
      /\ (result = "ok" => dir \subseteq Foreign \cup {LOCK})
  BY DEF NamesInv, DeleteLock, OneFails
<1>2. CASE dir' = dir \ {LOCK} /\ deleted' = deleted \cup {LOCK}
  <2>1. dir' \subseteq Listed /\ dir' # None /\ deleted' \subseteq Own
    BY <1>1, <1>2, LockIsOwn, NoneIsNoSet
  <2>2. result' = "ok" => LeftOver(dir)'
    BY <1>1, <1>2 DEF LeftOver
  <2> QED BY <1>1, <2>1, <2>2 DEF NamesInv
<1>3. CASE errors' = errors + 1 /\ dir' = dir /\ deleted' = deleted
  <2>1. result' = "ok" => LeftOver(dir)'
    BY <1>1, <1>3 DEF LeftOver
  <2> QED BY <1>1, <1>3, <2>1 DEF NamesInv
<1> QED BY <1>2, <1>3 DEF DeleteLock, OneFails

LEMMA DeleteDirKeeps == NamesInv /\ DeleteDir => NamesInv'
<1> SUFFICES ASSUME NamesInv, DeleteDir PROVE NamesInv'
  OBVIOUS
<1>1. /\ phase' = "idle" /\ result' = result /\ deleted' = deleted /\ deleted \subseteq Own
      /\ errors \in Nat /\ errors' \in Nat /\ errors <= errors'
      /\ dir # None /\ dir \subseteq Listed /\ (result = "ok" => LeftOver(dir))
      /\ dir' \in {None, dir}
  BY DEF NamesInv, DeleteDir, OneFails
<1>2. dir' = dir => (result' = "ok" => LeftOver(dir)')
  BY <1>1 DEF LeftOver
<1> QED BY <1>1, <1>2 DEF NamesInv

(* Whatever the numbers of a database's files, the largest of them included,  *)
(* whatever else lies in its directory and whichever calls fail: DestroyDB    *)
(* deletes files of the database and no others, and when it found names and   *)
(* returns OK none of them remains, but for LOCK after a failed call, whose   *)
(* deletion it does not look at (db/db_impl.cc:1537, 1562).                   *)
THEOREM OnlyOwnDestroyed == NameSpec => []DestroysOnlyOwn
<1>1. NameInit => NamesInv
  BY NamesStart
<1>2. NamesInv /\ [NameNext]_nameVars => NamesInv'
  <2>1. NamesInv /\ UNCHANGED nameVars => NamesInv'
    BY DEF NamesInv, LeftOver, nameVars
  <2> QED BY <2>1, ListNamesKeeps, LockFileKeeps, DeleteOneKeeps, DeleteLockKeeps, DeleteDirKeeps
          DEF NameNext
<1>3. NamesInv => DestroysOnlyOwn
  <2>1. NamesInv => deleted \subseteq Own /\ NamesLeadBack
    BY NameParses DEF NamesInv, NamesLeadBack
  <2>2. ASSUME NamesInv, phase = "idle", result = "ok"
        PROVE  \/ dir = None \/ dir \subseteq Foreign
               \/ errors > 0 /\ dir \subseteq Foreign \cup {LOCK}
    BY <2>2 DEF NamesInv, LeftOver
  <2> QED BY <2>1, <2>2 DEF DestroysOnlyOwn
<1> QED BY <1>1, <1>2, <1>3, PTL DEF NameSpec

=============================================================================
