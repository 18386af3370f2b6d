-------------------------- MODULE SetAssocCacheProofs -------------------------
(* The set-associative cache keeps its sets consistent and replaces the block  *)
(* that was used least recently, for every number of ways and sets, every      *)
(* range of tags and every length of the trace.                                *)
EXTENDS SetAssocCache, FiniteSetTheorems, SequenceTheorems, TLAPS

(* What keeps a set consistent.                                                *)
SetsConsistent ==
    /\ CacheTypeOK
    /\ EmptyEntriesHaveNoTag
    /\ FilledFromBelow
    /\ OneCopyOfABlock
    /\ LastUsesDistinct

(* Ways and sets are numbered.                                              *)
LEMMA Numbers ==
    /\ Ways \subseteq Nat
    /\ Indexes \subseteq Nat
    /\ 0 \in Ways
BY CacheAssumption DEF Ways, Indexes

(* Whatever the case, a reference puts its block into the selected entry.      *)
LEMMA AccessFills ==
    ASSUME CacheTypeOK, NEW op \in Ops, NEW i \in Indexes, NEW t \in 0 .. MaxTag,
           NEW w \in Ways,
           Hit(op, w, i, t) \/ CleanMiss(op, w, i, t) \/ DirtyMiss(op, w, i, t)
    PROVE  /\ \E d \in {0, 1} : Fill(w, i, t, d)
           /\ reference' = reference + 1
           /\ UNCHANGED simulation
<1>1. cache[w][i].dirty \in {0, 1}
  BY DEF CacheTypeOK, Entries
<1> QED
  BY <1>1 DEF Hit, CleanMiss, DirtyMiss, Counted

(* The entries after a fill.                                                   *)
LEMMA FillEntries ==
    ASSUME CacheTypeOK, NEW w \in Ways, NEW i \in Indexes, NEW t \in 0 .. MaxTag,
           NEW d \in {0, 1}, Fill(w, i, t, d)
    PROVE  /\ cache' \in [Ways -> [Indexes -> Entries]]
           /\ \A v \in Ways, j \in Indexes :
                /\ cache'[v][j].tag = IF v = w /\ j = i THEN t ELSE cache[v][j].tag
                /\ cache'[v][j].lu = IF v = w /\ j = i THEN reference ELSE cache[v][j].lu
                /\ cache'[v][j].valid = IF v = w /\ j = i THEN 1 ELSE cache[v][j].valid
                /\ cache'[v][j].dirty = IF v = w /\ j = i THEN d ELSE cache[v][j].dirty
<1> DEFINE e == [valid |-> 1, dirty |-> d, lu |-> reference, tag |-> t]
<1>1. e \in Entries
  BY DEF CacheTypeOK, Entries
<1>2. cache' = [cache EXCEPT ![w][i] = e]
  BY DEF Fill
<1>3. cache \in [Ways -> [Indexes -> Entries]]
  BY DEF CacheTypeOK
<1>5. e.tag = t /\ e.lu = reference /\ e.valid = 1 /\ e.dirty = d
  OBVIOUS
<1> HIDE DEF e
<1>4. /\ cache' \in [Ways -> [Indexes -> Entries]]
      /\ \A v \in Ways, j \in Indexes :
           cache'[v][j] = IF v = w /\ j = i THEN e ELSE cache[v][j]
  BY <1>1, <1>2, <1>3
<1> QED
  BY <1>4, <1>5

(* In a consistent set the selected entry is the one that holds the block, if  *)
(* there is one, and otherwise the ways below it are filled.                   *)
LEMMA SelectedEntry ==
    ASSUME SetsConsistent, NEW i \in Indexes, NEW t \in 0 .. MaxTag, t # NoTag,
           NEW w \in Ways, Selected(w, t, i)
    PROVE  /\ \A v \in Ways : cache[v][i].tag = t => v = w
           /\ \A v \in Ways : v < w => Holds(v, i)
<1> USE Numbers
<1>1. CASE Usable(t, i) # {}
  <2>1. w \in Usable(t, i) /\ \A v \in Usable(t, i) : w <= v
    BY <1>1 DEF Selected
  <2>2. ASSUME NEW v \in Ways, v < w PROVE Holds(v, i)
    <3>1. v \notin Usable(t, i)
      BY <2>1, <2>2
    <3> QED
      BY <3>1 DEF Usable, Holds
  <2>3. ASSUME NEW v \in Ways, cache[v][i].tag = t PROVE v = w
    <3>1. w <= v /\ Holds(v, i)
      BY <2>1, <2>3 DEF Usable, Holds
    <3>2. Holds(w, i)
      BY <3>1 DEF SetsConsistent, FilledFromBelow
    <3>3. cache[w][i].tag = t
      BY <2>1, <3>2 DEF Usable, Holds
    <3> QED
      BY <2>3, <3>1, <3>3 DEF SetsConsistent, OneCopyOfABlock
  <2> QED
    BY <2>2, <2>3
<1>2. CASE Usable(t, i) = {}
  BY <1>2 DEF Usable, Holds
<1> QED
  BY <1>1, <1>2

(* A reference keeps its set consistent and does not touch the others.         *)
LEMMA AccessConsistent ==
    ASSUME SetsConsistent, NEW op \in Ops, NEW i \in Indexes, NEW t \in 0 .. MaxTag,
           Access(op, i, t)
    PROVE  SetsConsistent'
<1> USE Numbers DEF NoTag
<1>1. CacheTypeOK /\ t # NoTag
  BY DEF SetsConsistent, Access, DecodeFails
<1>2. PICK w \in Ways : /\ Selected(w, t, i)
                        /\ \/ Hit(op, w, i, t)
                           \/ CleanMiss(op, w, i, t)
                           \/ DirtyMiss(op, w, i, t)
  BY DEF Access
<1>3. PICK d \in {0, 1} : Fill(w, i, t, d)
  BY <1>1, <1>2, AccessFills
<1>4. reference' = reference + 1 /\ simulation' = simulation /\ reference \in Nat
  BY <1>1, <1>2, AccessFills DEF CacheTypeOK
<1>5. cache' \in [Ways -> [Indexes -> Entries]]
  BY <1>1, <1>3, FillEntries
<1>6. /\ \A v \in Ways : cache[v][i].tag = t => v = w
      /\ \A v \in Ways : v < w => Holds(v, i)
  BY <1>1, <1>2, SelectedEntry
<1>7. \A v \in Ways, j \in Indexes :
        /\ cache'[v][j].tag = IF v = w /\ j = i THEN t ELSE cache[v][j].tag
        /\ cache'[v][j].lu = IF v = w /\ j = i THEN reference ELSE cache[v][j].lu
        /\ cache'[v][j].valid = IF v = w /\ j = i THEN 1 ELSE cache[v][j].valid
        /\ cache'[v][j].dirty = IF v = w /\ j = i THEN d ELSE cache[v][j].dirty
  BY <1>1, <1>3, FillEntries
<1>8. CacheTypeOK'
  <2>1. /\ accesses' \in [Ops -> Nat] /\ misses' \in [Ops -> Nat]
        /\ dirty_misses' \in [Ops -> Nat] /\ cycles' \in [Ops -> Nat]
    BY <1>1, <1>2 DEF CacheTypeOK, Hit, CleanMiss, DirtyMiss, Counted, Add
  <2> QED
    BY <1>1, <1>4, <1>5, <2>1 DEF CacheTypeOK
<1>9. EmptyEntriesHaveNoTag'
  BY <1>1, <1>7 DEF SetsConsistent, EmptyEntriesHaveNoTag, Holds
<1>10. FilledFromBelow'
  BY <1>1, <1>6, <1>7 DEF SetsConsistent, FilledFromBelow, Holds
<1>11. OneCopyOfABlock'
  BY <1>1, <1>6, <1>7 DEF SetsConsistent, OneCopyOfABlock, Holds
<1>12. LastUsesDistinct'
  <2>1. \A v \in Ways, j \in Indexes : cache[v][j].lu \in Nat
    BY <1>1 DEF CacheTypeOK, Entries
  <2> QED
    BY <1>1, <1>4, <1>7, <2>1 DEF SetsConsistent, LastUsesDistinct, Holds
<1> QED
  BY <1>8, <1>9, <1>10, <1>11, <1>12 DEF SetsConsistent

(* The sets stay consistent in every execution.                                *)
THEOREM ConsistencyCorrect == CacheSpec => []SetsConsistent
<1>1. CacheInit => SetsConsistent
  <2> SUFFICES ASSUME CacheInit PROVE SetsConsistent
    OBVIOUS
  <2>1. [valid |-> 0, dirty |-> 0, lu |-> 0, tag |-> NoTag] \in Entries
    BY CacheAssumption DEF Entries, NoTag
  <2>2. CacheTypeOK
    BY <2>1 DEF CacheInit, CacheTypeOK
  <2>3. \A w \in Ways, i \in Indexes :
          cache[w][i].tag = NoTag /\ cache[w][i].valid = 0 /\ cache[w][i].dirty = 0
    BY DEF CacheInit
  <2> QED
    BY <2>2, <2>3 DEF SetsConsistent, EmptyEntriesHaveNoTag, FilledFromBelow,
                      OneCopyOfABlock, LastUsesDistinct, Holds
<1>2. SetsConsistent /\ [CacheNext]_cacheVars => SetsConsistent'
  <2> SUFFICES ASSUME SetsConsistent, [CacheNext]_cacheVars PROVE SetsConsistent'
    OBVIOUS
  <2>1. ASSUME NEW op \in Ops, NEW i \in Indexes, NEW t \in 0 .. MaxTag, Access(op, i, t)
        PROVE  SetsConsistent'
    BY <2>1, AccessConsistent
  <2>2. ASSUME UNCHANGED <<cache, reference, stats>>,
               simulation' \in {"running", "printed", "crashed"}
        PROVE  SetsConsistent'
    BY <2>2 DEF SetsConsistent, CacheTypeOK, EmptyEntriesHaveNoTag, FilledFromBelow,
                OneCopyOfABlock, LastUsesDistinct, Holds, stats
  <2> QED
    BY <2>1, <2>2 DEF CacheNext, Crash, EndOfTrace, cacheVars, stats, SetsConsistent, CacheTypeOK
<1> QED
  BY <1>1, <1>2, PTL DEF CacheSpec

(* A block is in one way of its set at most, for every number of ways.         *)
THEOREM BlocksUnique == CacheSpec => []OneCopyOfABlock
BY ConsistencyCorrect, PTL DEF SetsConsistent

(* The sentinel tag of an empty entry is never mistaken for a block's.         *)
THEOREM SentinelSafe == CacheSpec => []EmptyEntriesHaveNoTag
BY ConsistencyCorrect, PTL DEF SetsConsistent

(* The least recently used way is always well defined.                         *)
THEOREM LastUsesOrdered == CacheSpec => []LastUsesDistinct
BY ConsistencyCorrect, PTL DEF SetsConsistent

(* The printed cycles account for every miss and every write-back.             *)
THEOREM CyclesCorrect == CacheSpec => []CyclesAccountForMisses
<1>1. CacheInit => CyclesAccountForMisses
  BY DEF CacheInit, CyclesAccountForMisses
<1>2. SetsConsistent /\ CyclesAccountForMisses /\ [CacheNext]_cacheVars => CyclesAccountForMisses'
  <2> SUFFICES ASSUME CacheTypeOK, CyclesAccountForMisses, [CacheNext]_cacheVars
               PROVE  CyclesAccountForMisses'
    BY DEF SetsConsistent
  <2>1. ASSUME NEW op \in Ops, NEW i \in Indexes, NEW t \in 0 .. MaxTag, NEW w \in Ways,
               Hit(op, w, i, t) \/ CleanMiss(op, w, i, t) \/ DirtyMiss(op, w, i, t)
        PROVE  CyclesAccountForMisses'
    <3> SUFFICES ASSUME NEW o \in Ops
                 PROVE  /\ cycles'[o] = accesses'[o] + 80 * misses'[o] + 80 * dirty_misses'[o]
                        /\ dirty_misses'[o] <= misses'[o]
                        /\ misses'[o] <= accesses'[o]
      BY DEF CyclesAccountForMisses
    <3>1. /\ accesses \in [Ops -> Nat] /\ misses \in [Ops -> Nat]
          /\ dirty_misses \in [Ops -> Nat] /\ cycles \in [Ops -> Nat]
      BY DEF CacheTypeOK
    <3>2. /\ cycles[o] = accesses[o] + 80 * misses[o] + 80 * dirty_misses[o]
          /\ dirty_misses[o] <= misses[o]
          /\ misses[o] <= accesses[o]
      BY DEF CyclesAccountForMisses
    <3>3. CASE Hit(op, w, i, t)
      BY <3>1, <3>2, <3>3 DEF Hit, Counted, Add
    <3>4. CASE CleanMiss(op, w, i, t)
      BY <3>1, <3>2, <3>4 DEF CleanMiss, Counted, Add
    <3>5. CASE DirtyMiss(op, w, i, t)
      BY <3>1, <3>2, <3>5 DEF DirtyMiss, Counted, Add
    <3> QED
      BY <2>1, <3>3, <3>4, <3>5
  <2>2. CASE UNCHANGED stats
    BY <2>2 DEF CyclesAccountForMisses, stats
  <2> QED
    BY <2>1, <2>2 DEF CacheNext, Access, Crash, EndOfTrace, cacheVars, stats
<1> QED
  BY <1>1, <1>2, ConsistencyCorrect, PTL DEF CacheSpec

-------------------------------------------------------------------------------

(* With one way there is nothing to select.                                    *)
LEMMA OneWay ==
    ASSUME ASSOC = 1, NEW w \in Ways
    PROVE  w = 0
BY DEF Ways

(* With an associativity of 1, sys2.java behaves step by step as sys1.java,    *)
(* the direct-mapped cache, and prints the same statistics.                    *)
THEOREM OneWayIsDirect == ASSUME ASSOC = 1 PROVE CacheSpec => ImplementsDirectCache
<1> DEFINE entry(i) == [valid |-> cache[0][i].valid, dirty |-> cache[0][i].dirty,
                        tag |-> cache[0][i].tag]
           direct   == [i \in Indexes |-> entry(i)]
<1>0. 0 \in Ways
  BY Numbers
<1>1. CacheInit => Direct!Init
  BY <1>0 DEF CacheInit, Direct!Init, Indexes, Direct!Indexes, Ops, Direct!Ops, NoTag, Direct!NoTag
<1>2. SetsConsistent /\ [CacheNext]_cacheVars => [Direct!Next]_Direct!vars
  <2> SUFFICES ASSUME SetsConsistent, [CacheNext]_cacheVars PROVE [Direct!Next]_Direct!vars
    OBVIOUS
  <2> USE DEF SetsConsistent
  <2>1. ASSUME NEW op \in Ops, NEW i \in Indexes, NEW t \in 0 .. MaxTag, Access(op, i, t)
        PROVE  Direct!Access(op, i, t)
    <3>1. PICK w \in Ways : Hit(op, w, i, t) \/ CleanMiss(op, w, i, t) \/ DirtyMiss(op, w, i, t)
      BY <2>1 DEF Access
    <3>2. Hit(op, 0, i, t) \/ CleanMiss(op, 0, i, t) \/ DirtyMiss(op, 0, i, t)
      BY <3>1, OneWay
    <3>3. direct[i].tag = cache[0][i].tag /\ direct[i].dirty = cache[0][i].dirty
      OBVIOUS
    <3>4. ASSUME NEW d \in {0, 1}, Fill(0, i, t, d)
          PROVE  direct' = [direct EXCEPT ![i] = [valid |-> 1, dirty |-> d, tag |-> t]]
      <4>1. \A j \in Indexes :
              /\ cache'[0][j].tag = IF j = i THEN t ELSE cache[0][j].tag
              /\ cache'[0][j].valid = IF j = i THEN 1 ELSE cache[0][j].valid
              /\ cache'[0][j].dirty = IF j = i THEN d ELSE cache[0][j].dirty
        BY <1>0, <3>4, FillEntries
      <4> QED
        BY <4>1
    <3>5. Direct!Hit(op, i, t) \/ Direct!CleanMiss(op, i, t) \/ Direct!DirtyMiss(op, i, t)
      <4>1. CASE Hit(op, 0, i, t)
        <5> DEFINE d == IF op = "S" THEN 1 ELSE cache[0][i].dirty
        <5>1. d \in {0, 1}
          BY <1>0 DEF CacheTypeOK, Entries
        <5>2. direct' = [direct EXCEPT ![i] = [valid |-> 1, dirty |-> d, tag |-> t]]
          BY <3>4, <4>1, <5>1 DEF Hit
        <5>3. direct' = [direct EXCEPT ![i].valid = 1, ![i].dirty = IF op = "S" THEN 1 ELSE @]
          BY <4>1, <5>2 DEF Hit
        <5> QED
          BY <4>1, <3>3, <5>3 DEF Hit, Direct!Hit, Counted, Direct!Counted, Add, Direct!Add
      <4>2. CASE CleanMiss(op, 0, i, t)
        <5>1. direct' = [direct EXCEPT ![i] =
                           [valid |-> 1, dirty |-> IF op = "S" THEN 1 ELSE 0, tag |-> t]]
          BY <3>4, <4>2 DEF CleanMiss
        <5> QED
          BY <4>2, <3>3, <5>1 DEF CleanMiss, Direct!CleanMiss, Direct!Fill, Counted,
             Direct!Counted, Add, Direct!Add, NoTag, Direct!NoTag
      <4>3. CASE DirtyMiss(op, 0, i, t)
        <5>1. direct' = [direct EXCEPT ![i] =
                           [valid |-> 1, dirty |-> IF op = "S" THEN 1 ELSE 0, tag |-> t]]
          BY <3>4, <4>3 DEF DirtyMiss
        <5> QED
          BY <4>3, <3>3, <5>1 DEF DirtyMiss, Direct!DirtyMiss, Direct!Fill, Counted,
             Direct!Counted, Add, Direct!Add, NoTag, Direct!NoTag
      <4> QED
        BY <3>2, <4>1, <4>2, <4>3
    <3> QED
      BY <2>1, <3>5 DEF Access, Direct!Access, DecodeFails, Direct!DecodeFails
  <2>2. ASSUME NEW t \in 0 .. MaxTag, Crash(t) PROVE Direct!Crash(t)
    BY <2>2 DEF Crash, Direct!Crash, DecodeFails, Direct!DecodeFails, stats, Direct!stats
  <2>3. CASE EndOfTrace
    <3>1. Direct!EndOfTrace
      BY <2>3 DEF EndOfTrace, Direct!EndOfTrace, stats, Direct!stats
    <3> QED
      BY <3>1 DEF Direct!Next
  <2>4. CASE UNCHANGED cacheVars
    BY <2>4 DEF cacheVars, Direct!vars
  <2> QED
    BY <2>1, <2>2, <2>3, <2>4 DEF CacheNext, Direct!Next, Indexes, Direct!Indexes, Ops, Direct!Ops
<1> QED
  BY <1>1, <1>2, ConsistencyCorrect, PTL DEF CacheSpec, Direct!Spec, ImplementsDirectCache

-------------------------------------------------------------------------------
(* Least-recently-used replacement.  The place of a block in its set is one    *)
(* more than the number of blocks with a later use.                            *)

Newer(H, lu, w) == {v \in H : lu[v] > lu[w]}
Place(H, lu, w) == Cardinality(Newer(H, lu, w)) + 1

(* The places of a set of ways number it in the order of the last use.         *)
Ranked(H, lu) ==
    /\ \A w \in H : Place(H, lu, w) \in 1 .. Cardinality(H)
    /\ \A v, w \in H : lu[v] > lu[w] => Place(H, lu, v) < Place(H, lu, w)
    /\ \A k \in 1 .. Cardinality(H) : \E w \in H : Place(H, lu, w) = k

Distinct(H, lu) == \A v, w \in H : lu[v] = lu[w] => v = w

(* The newer ways are some of the other ways.                                  *)
LEMMA NewerFinite ==
    ASSUME NEW H, IsFiniteSet(H), NEW lu \in [H -> Nat], NEW w \in H
    PROVE  /\ IsFiniteSet(Newer(H, lu, w))
           /\ Cardinality(Newer(H, lu, w)) \in Nat
           /\ Cardinality(H) \in Nat
           /\ Cardinality(Newer(H, lu, w)) <= Cardinality(H) - 1
<1>1. Newer(H, lu, w) \in SUBSET (H \ {w})
  BY DEF Newer
<1>2. IsFiniteSet(H \ {w}) /\ Cardinality(H \ {w}) = Cardinality(H) - 1
  BY FS_RemoveElement
<1>3. /\ IsFiniteSet(Newer(H, lu, w))
      /\ Cardinality(Newer(H, lu, w)) <= Cardinality(H \ {w})
  BY <1>1, <1>2, FS_Subset
<1>4. Cardinality(Newer(H, lu, w)) \in Nat /\ Cardinality(H) \in Nat
  BY <1>3, FS_CardinalityType
<1> QED
  BY <1>2, <1>3, <1>4

(* Different last uses give different places, and every place is taken.        *)
LEMMA Ranking ==
    ASSUME NEW H, IsFiniteSet(H), NEW lu \in [H -> Nat], Distinct(H, lu)
    PROVE  Ranked(H, lu)
<1> DEFINE n == Cardinality(H)
<1>0. n \in Nat
  BY FS_CardinalityType
<1> HIDE DEF n
<1>1. ASSUME NEW w \in H PROVE Place(H, lu, w) \in 1 .. n
  <2>1. /\ Cardinality(Newer(H, lu, w)) \in Nat
        /\ Cardinality(Newer(H, lu, w)) <= n - 1
    BY NewerFinite DEF n
  <2> DEFINE c == Cardinality(Newer(H, lu, w))
  <2> HIDE DEF c
  <2>2. c + 1 \in 1 .. n
    BY <1>0, <2>1 DEF c
  <2> QED
    BY <2>2 DEF c, Place
<1>2. ASSUME NEW v \in H, NEW w \in H, lu[v] > lu[w]
      PROVE  Place(H, lu, v) < Place(H, lu, w)
  <2> DEFINE c == Cardinality(Newer(H, lu, v))
             d == Cardinality(Newer(H, lu, w))
  <2>1. lu[v] \in Nat /\ lu[w] \in Nat
    OBVIOUS
  <2>2. Newer(H, lu, v) \subseteq Newer(H, lu, w)
    <3> SUFFICES ASSUME NEW u \in H, lu[u] > lu[v] PROVE lu[u] > lu[w]
      BY DEF Newer
    <3>1. lu[u] \in Nat
      OBVIOUS
    <3> QED
      BY <1>2, <2>1, <3>1
  <2>3. v \in Newer(H, lu, w) /\ v \notin Newer(H, lu, v)
    BY <1>2, <2>1 DEF Newer
  <2>4. IsFiniteSet(Newer(H, lu, w)) /\ c \in Nat /\ d \in Nat
    BY NewerFinite
  <2>5. c <= d /\ c # d
    BY <2>2, <2>3, <2>4, FS_Subset
  <2> HIDE DEF c, d
  <2>6. c + 1 < d + 1
    BY <2>4, <2>5
  <2> QED
    BY <2>6 DEF c, d, Place
<1>3. ASSUME NEW k \in 1 .. n PROVE \E w \in H : Place(H, lu, w) = k
  <2> DEFINE g == [w \in H |-> Place(H, lu, w)]
  <2>1. \A v, w \in H : g[v] = g[w] => v = w
    <3> SUFFICES ASSUME NEW v \in H, NEW w \in H, Place(H, lu, v) = Place(H, lu, w), v # w
                 PROVE  FALSE
      OBVIOUS
    <3>1. lu[v] > lu[w] \/ lu[w] > lu[v]
      BY DEF Distinct
    <3> DEFINE p == Place(H, lu, v)
               q == Place(H, lu, w)
    <3>2. p \in 1 .. n /\ q \in 1 .. n /\ p = q
      BY <1>1
    <3>3. p < q \/ q < p
      BY <1>2, <3>1
    <3> HIDE DEF p, q
    <3> QED
      BY <1>0, <3>2, <3>3
  <2>2. g \in [H -> 1 .. n]
    BY <1>1
  <2>3. g \in Injection(H, 1 .. n)
    BY <2>1, <2>2 DEF Injection, IsInjective
  <2>4. IsFiniteSet(1 .. n) /\ Cardinality(1 .. n) = n
    BY <1>0, FS_Interval
  <2>5. g \in Surjection(H, 1 .. n)
    BY <2>3, <2>4, FS_Injection DEF n
  <2> QED
    BY <2>5 DEF Surjection
<1> QED
  BY <1>1, <1>2, <1>3 DEF n, Ranked

(* w is used last: it comes first, and what was used after it moves back.      *)
PlacesMove(H, lu, lu2, w) ==
    /\ Place(H \cup {w}, lu2, w) = 1
    /\ \A v \in H \ {w} :
         Place(H \cup {w}, lu2, v) =
            IF w \in H /\ lu[w] > lu[v] THEN Place(H, lu, v) ELSE Place(H, lu, v) + 1

UsedLast(H, lu, lu2, w) ==
    /\ lu2 \in [H \cup {w} -> Nat]
    /\ \A v \in H : lu[v] < lu2[w]
    /\ \A v \in H \ {w} : lu2[v] = lu[v]

(* The way that is used moves to the first place, those before it one on.   *)
LEMMA PlacesAfterUse ==
    ASSUME NEW H, IsFiniteSet(H), NEW lu \in [H -> Nat], NEW w, NEW lu2, UsedLast(H, lu, lu2, w)
    PROVE  PlacesMove(H, lu, lu2, w)
<1> USE DEF UsedLast
<1>1. Place(H \cup {w}, lu2, w) = 1
  <2>1. Newer(H \cup {w}, lu2, w) = {}
    <3> SUFFICES ASSUME NEW v \in H \cup {w}, lu2[v] > lu2[w] PROVE FALSE
      BY DEF Newer
    <3>1. v # w /\ v \in H
      BY lu2[w] \in Nat
    <3>2. lu2[v] = lu[v] /\ lu[v] < lu2[w] /\ lu2[v] \in Nat /\ lu2[w] \in Nat
      BY <3>1
    <3> QED
      BY <3>2
  <2>2. Cardinality(Newer(H \cup {w}, lu2, w)) = 0
    BY <2>1, FS_EmptySet
  <2> QED
    BY <2>2 DEF Place
<1>2. ASSUME NEW v \in H \ {w}
      PROVE  Place(H \cup {w}, lu2, v) =
               IF w \in H /\ lu[w] > lu[v] THEN Place(H, lu, v) ELSE Place(H, lu, v) + 1
  <2> DEFINE old == Newer(H, lu, v)
  <2>1. Newer(H \cup {w}, lu2, v) = old \cup {w}
    <3>1. lu2[w] > lu2[v]
      OBVIOUS
    <3>2. \A x \in H \ {w} : lu2[x] > lu2[v] <=> lu[x] > lu[v]
      OBVIOUS
    <3> QED
      BY <3>1, <3>2 DEF Newer
  <2>2. w \in old <=> w \in H /\ lu[w] > lu[v]
    BY DEF Newer
  <2>3. IsFiniteSet(old) /\ Cardinality(old) \in Nat
    BY NewerFinite
  <2>4. Cardinality(old \cup {w}) = IF w \in old THEN Cardinality(old) ELSE Cardinality(old) + 1
    BY <2>3, FS_AddElement
  <2>5. Place(H, lu, v) = Cardinality(old) + 1
    BY DEF Place
  <2>6. Place(H \cup {w}, lu2, v) = Cardinality(old \cup {w}) + 1
    BY <2>1 DEF Place
  <2> HIDE DEF old
  <2> QED
    BY <2>2, <2>4, <2>5, <2>6
<1> QED
  BY <1>1, <1>2 DEF PlacesMove

Blocks == [tag : 0 .. MaxTag, dirty : BOOLEAN]

(* s lists the contents of the ways H in the order of their last use.          *)
Lists(s, H, lu, block) ==
    /\ s \in Seq(Blocks)
    /\ Len(s) = Cardinality(H)
    /\ \A w \in H : s[Place(H, lu, w)] = block[w]

(* Only one list orders the blocks of a set by their last use.              *)
LEMMA ListUnique ==
    ASSUME NEW H, NEW lu, Ranked(H, lu), NEW block, NEW s, NEW t,
           Lists(s, H, lu, block), Lists(t, H, lu, block)
    PROVE  s = t
<1>1. s \in Seq(Blocks) /\ t \in Seq(Blocks) /\ Len(s) = Len(t)
  BY DEF Lists
<1>2. ASSUME NEW k \in 1 .. Len(s) PROVE s[k] = t[k]
  <2>1. PICK w \in H : Place(H, lu, w) = k
    BY DEF Ranked, Lists
  <2> QED
    BY <2>1 DEF Lists
<1> QED
  BY <1>1, <1>2, SeqEqual

(* u is s with the element at place k replaced by x and moved to the front.    *)
Fronted(u, s, k, x, S) ==
    /\ u \in Seq(S)
    /\ Len(u) = Len(s)
    /\ u[1] = x
    /\ \A p \in 1 .. k - 1 : u[p + 1] = s[p]
    /\ \A p \in k + 1 .. Len(s) : u[p] = s[p]

(* Moving the k-th element of a list to its front.                          *)
LEMMA MoveToFront ==
    ASSUME NEW S, NEW s \in Seq(S), NEW k \in 1 .. Len(s), NEW x \in S
    PROVE  Fronted(<<x>> \o (SubSeq(s, 1, k - 1) \o SubSeq(s, k + 1, Len(s))), s, k, x, S)
<1> DEFINE a == SubSeq(s, 1, k - 1)
           b == SubSeq(s, k + 1, Len(s))
<1>1. Len(s) \in Nat /\ k \in Nat
  OBVIOUS
<1>2. /\ a \in Seq(S) /\ Len(a) = k - 1
      /\ \A p \in 1 .. k - 1 : a[p] = s[p]
  BY <1>1
<1>3. /\ b \in Seq(S) /\ Len(b) = Len(s) - k
      /\ \A p \in 1 .. Len(s) - k : b[p] = s[k + p]
  BY <1>1
<1> HIDE DEF a, b
<1>4. Len(a \o b) = Len(s) - 1
  <2>1. Len(a \o b) = Len(a) + Len(b)
    BY <1>2, <1>3, ConcatProperties
  <2> QED
    BY <1>1, <1>2, <1>3, <2>1
<1>5. \A p \in 1 .. Len(s) - 1 : (a \o b)[p] = IF p < k THEN s[p] ELSE s[p + 1]
  BY <1>1, <1>2, <1>3
<1> DEFINE c == a \o b
<1>6. Len(c) = Len(s) - 1 /\ c \in Seq(S)
  BY <1>2, <1>3, <1>4
<1>7. \A p \in 1 .. Len(s) - 1 : c[p] = IF p < k THEN s[p] ELSE s[p + 1]
  BY <1>5
<1> HIDE DEF c
<1>8. /\ Len(<<x>> \o c) = Len(s)
      /\ (<<x>> \o c)[1] = x
      /\ \A p \in 1 .. Len(s) - 1 : (<<x>> \o c)[p + 1] = c[p]
  BY <1>1, <1>6
<1>9. Fronted(<<x>> \o c, s, k, x, S)
  <2>1. \A p \in 1 .. k - 1 : (<<x>> \o c)[p + 1] = s[p]
    BY <1>1, <1>7, <1>8
  <2>2. ASSUME NEW p \in k + 1 .. Len(s) PROVE (<<x>> \o c)[p] = s[p]
    <3>1. p - 1 \in 1 .. Len(s) - 1 /\ (p - 1) + 1 = p /\ ~(p - 1 < k)
      BY <1>1
    <3> QED
      BY <1>7, <1>8, <3>1
  <2>3. <<x>> \o c \in Seq(S)
    BY <1>6, ConcatProperties
  <2> QED
    BY <1>8, <2>1, <2>2, <2>3 DEF Fronted
<1> QED
  BY <1>9 DEF a, b, c

(* A new element at the front of a list that loses its last.                *)
LEMMA DropLast ==
    ASSUME NEW S, NEW s \in Seq(S), s # <<>>, NEW x \in S
    PROVE  Fronted(<<x>> \o SubSeq(s, 1, Len(s) - 1), s, Len(s), x, S)
<1> DEFINE c == SubSeq(s, 1, Len(s) - 1)
<1>1. Len(s) \in Nat \ {0}
  BY EmptySeq
<1>2. /\ c \in Seq(S) /\ Len(c) = Len(s) - 1
      /\ \A p \in 1 .. Len(s) - 1 : c[p] = s[p]
  <2> DEFINE n == Len(s) - 1
  <2>1. n \in Nat /\ \A p \in 1 .. n : s[p] \in S
    BY <1>1
  <2> HIDE DEF n
  <2>2. /\ SubSeq(s, 1, n) \in Seq(S)
        /\ Len(SubSeq(s, 1, n)) = n
        /\ \A p \in 1 .. n : SubSeq(s, 1, n)[p] = s[p]
    BY <2>1
  <2> QED
    BY <2>2 DEF n
<1> HIDE DEF c
<1>3. /\ Len(<<x>> \o c) = Len(s)
      /\ (<<x>> \o c)[1] = x
      /\ \A p \in 1 .. Len(s) - 1 : (<<x>> \o c)[p + 1] = c[p]
  BY <1>1, <1>2
<1>4. <<x>> \o c \in Seq(S)
  BY <1>2, ConcatProperties
<1>5. Fronted(<<x>> \o c, s, Len(s), x, S)
  BY <1>1, <1>2, <1>3, <1>4 DEF Fronted
<1> QED
  BY <1>5 DEF c

(* Moving the block of w to the front lists the ways in their new order.       *)
LEMMA ListAfterUse ==
    ASSUME NEW H, IsFiniteSet(H), NEW lu \in [H -> Nat], Distinct(H, lu), NEW w \in H,
           NEW lu2, UsedLast(H, lu, lu2, w),
           NEW b, NEW s, Lists(s, H, lu, b),
           NEW b2, \A v \in H \ {w} : b2[v] = b[v],
           NEW u, Fronted(u, s, Place(H, lu, w), b2[w], Blocks)
    PROVE  Lists(u, H, lu2, b2)
<1> DEFINE n == Cardinality(H)
           place(v) == Place(H, lu, v)
           moved(v) == Place(H, lu2, v)
<1>1. Ranked(H, lu) /\ n \in Nat
  BY Ranking, FS_CardinalityType
<1>2. PlacesMove(H, lu, lu2, w) /\ H \cup {w} = H
  BY PlacesAfterUse
<1>3. u \in Seq(Blocks) /\ Len(u) = n /\ Len(s) = n
  BY DEF Fronted, Lists
<1>4. u[moved(w)] = b2[w]
  BY <1>2 DEF PlacesMove, Fronted
<1>5. ASSUME NEW v \in H \ {w} PROVE u[moved(v)] = b2[v]
  <2>1. s[place(v)] = b2[v]
    BY DEF Lists
  <2>2. place(v) \in 1 .. n /\ place(w) \in 1 .. n
    BY <1>1 DEF Ranked
  <2>3. moved(v) = IF lu[w] > lu[v] THEN place(v) ELSE place(v) + 1
    BY <1>2 DEF PlacesMove
  <2>4. CASE lu[w] > lu[v]
    <3>1. place(w) < place(v)
      BY <1>1, <2>4 DEF Ranked
    <3>2. place(v) \in place(w) + 1 .. Len(s)
      <4> HIDE DEF n, place
      <4> QED
        BY <1>1, <1>3, <2>2, <3>1
    <3>3. u[place(v)] = s[place(v)]
      BY <3>2 DEF Fronted
    <3> QED
      BY <2>1, <2>3, <2>4, <3>3
  <2>5. CASE ~(lu[w] > lu[v])
    <3>1. lu[v] > lu[w]
      BY <2>5 DEF Distinct
    <3>2. place(v) < place(w)
      BY <1>1, <3>1 DEF Ranked
    <3>3. place(v) \in 1 .. place(w) - 1
      <4> HIDE DEF n, place
      <4> QED
        BY <1>1, <2>2, <3>2
    <3>4. u[place(v) + 1] = s[place(v)]
      BY <3>3 DEF Fronted
    <3> QED
      BY <2>1, <2>3, <2>5, <3>4
  <2> QED
    BY <2>4, <2>5
<1> QED
  BY <1>3, <1>4, <1>5 DEF Lists

(* A block that is new to the set comes first.                                 *)
LEMMA ListAfterInsert ==
    ASSUME NEW H, IsFiniteSet(H), NEW lu \in [H -> Nat], Distinct(H, lu), NEW w, w \notin H,
           NEW lu2, UsedLast(H, lu, lu2, w),
           NEW b, NEW s, Lists(s, H, lu, b),
           NEW b2, \A v \in H : b2[v] = b[v], b2[w] \in Blocks
    PROVE  Lists(<<b2[w]>> \o s, H \cup {w}, lu2, b2)
<1> DEFINE n == Cardinality(H)
           u == <<b2[w]>> \o s
           place(v) == Place(H, lu, v)
           moved(v) == Place(H \cup {w}, lu2, v)
<1>1. Ranked(H, lu) /\ n \in Nat
  BY Ranking, FS_CardinalityType
<1>2. PlacesMove(H, lu, lu2, w)
  BY PlacesAfterUse
<1>3. Cardinality(H \cup {w}) = n + 1
  BY FS_AddElement
<1>4. s \in Seq(Blocks) /\ Len(s) = n
  BY DEF Lists
<1>5. <<b2[w]>> \in Seq(Blocks) /\ Len(<<b2[w]>>) = 1 /\ <<b2[w]>>[1] = b2[w]
  OBVIOUS
<1>6. u \in Seq(Blocks) /\ Len(u) = 1 + n
  BY <1>4, <1>5, ConcatProperties
<1>7. u[1] = b2[w] /\ \A p \in 1 .. n : u[p + 1] = s[p]
  <2> HIDE DEF n
  <2> QED
    BY <1>1, <1>4
<1>8. u[moved(w)] = b2[w]
  BY <1>2, <1>7 DEF PlacesMove
<1>9. ASSUME NEW v \in H PROVE u[moved(v)] = b2[v]
  <2>1. s[place(v)] = b2[v]
    BY DEF Lists
  <2>2. place(v) \in 1 .. n
    BY <1>1 DEF Ranked
  <2>3. moved(v) = place(v) + 1
    BY <1>2 DEF PlacesMove
  <2> QED
    BY <1>7, <2>1, <2>2, <2>3
<1>10. Len(u) = Cardinality(H \cup {w})
  <2> HIDE DEF n, u
  <2> QED
    BY <1>1, <1>3, <1>6
<1> QED
  BY <1>6, <1>8, <1>9, <1>10 DEF Lists

(* The way whose use is the oldest comes last.                                 *)
LEMMA OldestIsLast ==
    ASSUME NEW H, IsFiniteSet(H), NEW lu \in [H -> Nat], NEW w \in H,
           \A v \in H \ {w} : lu[v] > lu[w]
    PROVE  Place(H, lu, w) = Cardinality(H)
<1>1. Newer(H, lu, w) = H \ {w}
  BY lu[w] \in Nat DEF Newer
<1>2. Cardinality(H \ {w}) = Cardinality(H) - 1 /\ Cardinality(H) \in Nat
  BY FS_RemoveElement, FS_CardinalityType
<1>3. Cardinality(Newer(H, lu, w)) = Cardinality(H) - 1
  BY <1>1, <1>2
<1> DEFINE c == Cardinality(Newer(H, lu, w))
           n == Cardinality(H)
<1>4. c = n - 1 /\ n \in Nat
  BY <1>2, <1>3
<1> HIDE DEF c, n
<1>5. c + 1 = n
  BY <1>4
<1> QED
  BY <1>5 DEF c, n, Place

(* The ways of set i that hold a block, the times of their last use and their  *)
(* blocks as the abstract cache sees them.                                     *)
HeldWays(i) == {w \in Ways : Holds(w, i)}
LastUse(i)  == [w \in HeldWays(i) |-> cache[w][i].lu]
Contents(i) == [w \in HeldWays(i) |-> [tag   |-> cache[w][i].tag,
                                       dirty |-> cache[w][i].dirty = 1]]

HeldOrdered(i) ==
    /\ IsFiniteSet(HeldWays(i))
    /\ LastUse(i) \in [HeldWays(i) -> Nat]
    /\ Distinct(HeldWays(i), LastUse(i))
    /\ \A w \in HeldWays(i) : Contents(i)[w] \in Blocks

(* The ways of a set can be counted.                                        *)
LEMMA WaysFinite == IsFiniteSet(Ways) /\ Cardinality(Ways) = ASSOC
<1>1. 0 \in Int /\ ASSOC - 1 \in Int /\ ASSOC \in Nat \ {0}
  BY CacheAssumption
<1>2. /\ IsFiniteSet(0 .. ASSOC - 1)
      /\ Cardinality(0 .. ASSOC - 1) = IF 0 > ASSOC - 1 THEN 0 ELSE (ASSOC - 1) - 0 + 1
  BY <1>1, FS_Interval
<1>3. (IF 0 > ASSOC - 1 THEN 0 ELSE (ASSOC - 1) - 0 + 1) = ASSOC
  BY <1>1
<1> QED
  BY <1>2, <1>3 DEF Ways

(* In a consistent cache the used ways of a set have an order.              *)
LEMMA ConsistentOrdered == SetsConsistent => \A i \in Indexes : HeldOrdered(i)
<1> SUFFICES ASSUME SetsConsistent, NEW i \in Indexes PROVE HeldOrdered(i)
  OBVIOUS
<1>1. IsFiniteSet(HeldWays(i))
  BY WaysFinite, FS_Subset DEF HeldWays
<1>2. LastUse(i) \in [HeldWays(i) -> Nat]
  BY DEF LastUse, HeldWays, SetsConsistent, CacheTypeOK, Entries
<1>3. Distinct(HeldWays(i), LastUse(i))
  BY DEF Distinct, LastUse, HeldWays, SetsConsistent, LastUsesDistinct
<1>4. \A w \in HeldWays(i) : Contents(i)[w] \in Blocks
  BY DEF Contents, HeldWays, SetsConsistent, CacheTypeOK, Entries, Blocks
<1> QED
  BY <1>1, <1>2, <1>3, <1>4 DEF HeldOrdered

RecencyListed(i) == Lists(ByRecency(i), HeldWays(i), LastUse(i), Contents(i))

(* The sequence of the refinement mapping lists each set by its last uses: the *)
(* k-th block that it chooses exists and is the only one.                      *)
LEMMA ByRecencyLists == SetsConsistent => \A i \in Indexes : RecencyListed(i)
<1> SUFFICES ASSUME SetsConsistent, NEW i \in Indexes PROVE RecencyListed(i)
  OBVIOUS
<1> DEFINE H == HeldWays(i)
           lu == LastUse(i)
           n == Cardinality(H)
           newer(w) == {v \in H : cache[v][i].lu > cache[w][i].lu}
           nth(k) == CHOOSE w \in H : Cardinality(newer(w)) = k - 1
           s == [k \in 1 .. n |-> [tag |-> cache[nth(k)][i].tag,
                                   dirty |-> cache[nth(k)][i].dirty = 1]]
<1>1. HeldOrdered(i)
  BY ConsistentOrdered
<1>2. Ranked(H, lu) /\ n \in Nat
  BY <1>1, Ranking, FS_CardinalityType DEF HeldOrdered
<1>3. ByRecency(i) = s
  BY DEF ByRecency, HeldWays
<1>4. ASSUME NEW w \in H PROVE newer(w) = Newer(H, lu, w)
  BY DEF Newer, LastUse
<1>5. ASSUME NEW w \in H PROVE nth(Place(H, lu, w)) = w
  <2> DEFINE k == Place(H, lu, w)
  <2>1. ASSUME NEW v \in H, Cardinality(newer(v)) = k - 1 PROVE v = w
    <3> DEFINE c == Cardinality(Newer(H, lu, v))
               d == Cardinality(Newer(H, lu, w))
    <3>1. c \in Nat /\ d \in Nat
      BY <1>1, NewerFinite DEF HeldOrdered
    <3>2. c = (d + 1) - 1
      BY <1>4, <2>1 DEF Place
    <3>3. Place(H, lu, v) = c + 1 /\ Place(H, lu, w) = d + 1
      BY DEF Place
    <3> HIDE DEF c, d
    <3>4. c + 1 = d + 1
      BY <3>1, <3>2
    <3>5. Place(H, lu, v) = Place(H, lu, w)
      BY <3>3, <3>4
    <3>6. lu[v] \in Nat /\ lu[w] \in Nat
      BY <1>1 DEF HeldOrdered
    <3>7. Place(H, lu, v) \in 1 .. n /\ Place(H, lu, w) \in 1 .. n
      BY <1>2 DEF Ranked
    <3> DEFINE p == Place(H, lu, v)
               q == Place(H, lu, w)
    <3>8. ~(p < q) /\ ~(q < p)
      <4>1. p \in 1 .. n /\ p = q
        BY <3>5, <3>7
      <4> HIDE DEF p, q, n
      <4> QED
        BY <1>2, <4>1
    <3>9. ~(lu[v] > lu[w]) /\ ~(lu[w] > lu[v])
      BY <1>2, <3>8 DEF Ranked
    <3>10. lu[v] = lu[w]
      BY <3>6, <3>9
    <3> QED
      BY <1>1, <3>10 DEF HeldOrdered, Distinct
  <2>2. Cardinality(newer(w)) = k - 1
    <3> DEFINE d == Cardinality(Newer(H, lu, w))
    <3>1. d \in Nat
      BY <1>1, NewerFinite DEF HeldOrdered
    <3>2. k = d + 1 /\ Cardinality(newer(w)) = d
      BY <1>4 DEF Place
    <3> HIDE DEF d, k
    <3> QED
      BY <3>1, <3>2
  <2>3. nth(k) = w
    <3> HIDE DEF H, newer, k
    <3> QED
      BY <2>1, <2>2, Zenon
  <2> QED
    BY <2>3
<1>6. ASSUME NEW w \in H
      PROVE  Place(H, lu, w) \in 1 .. n /\ s[Place(H, lu, w)] = Contents(i)[w]
  <2>1. Place(H, lu, w) \in 1 .. n
    BY <1>2 DEF Ranked
  <2>2. Contents(i)[w] = [tag |-> cache[w][i].tag, dirty |-> cache[w][i].dirty = 1]
    BY DEF Contents
  <2>3. s[Place(H, lu, w)] = [tag |-> cache[nth(Place(H, lu, w))][i].tag,
                              dirty |-> cache[nth(Place(H, lu, w))][i].dirty = 1]
    <3> HIDE DEF nth, n, lu, H
    <3> QED
      BY <2>1
  <2> HIDE DEF s, nth, H, lu
  <2> QED
    BY <1>5, <2>1, <2>2, <2>3
<1>7. \A k \in 1 .. n : s[k] \in Blocks
  <2> SUFFICES ASSUME NEW k \in 1 .. n PROVE s[k] \in Blocks
    OBVIOUS
  <2>1. PICK w \in H : Place(H, lu, w) = k
    BY <1>2 DEF Ranked
  <2>2. s[k] = Contents(i)[w]
    BY <1>6, <2>1
  <2> QED
    BY <1>1, <2>2 DEF HeldOrdered
<1>8. s \in Seq(Blocks) /\ Len(s) = n
  <2>1. DOMAIN s = 1 .. n /\ s = [k \in 1 .. n |-> s[k]]
    OBVIOUS
  <2> HIDE DEF s, n
  <2>2. s \in [1 .. n -> Blocks]
    BY <1>7, <2>1
  <2>3. s \in Seq(Blocks)
    BY <1>2, <2>2, SeqDef
  <2> QED
    BY <1>2, <2>1, <2>3, LenProperties
<1> QED
  BY <1>3, <1>6, <1>8 DEF RecencyListed, Lists

AllListed == \A i \in Indexes : HeldOrdered(i) /\ RecencyListed(i)

(* So each set has its list of blocks,                                      *)
LEMMA ConsistentListed == SetsConsistent => AllListed
BY ConsistentOrdered, ByRecencyLists DEF AllListed

(* also after a step.                                                       *)
LEMMA ConsistentListedAfter == SetsConsistent' => AllListed'
BY ConsistentListed, PTL

(* Filling way w uses its block last and leaves every other block alone.       *)
FilledLast(i, w, t, d) ==
    /\ \A j \in Indexes \ {i} : ByRecency(j)' = ByRecency(j)
    /\ HeldWays(i)' = HeldWays(i) \cup {w}
    /\ UsedLast(HeldWays(i), LastUse(i), LastUse(i)', w)
    /\ \A v \in HeldWays(i) \ {w} : Contents(i)'[v] = Contents(i)[v]
    /\ Contents(i)'[w] = [tag |-> t, dirty |-> d = 1]

(* A way that is filled is the last one used.                               *)
LEMMA FillUsesLast ==
    ASSUME SetsConsistent, SetsConsistent', NEW i \in Indexes, NEW t \in 0 .. MaxTag, t # NoTag,
           NEW w \in Ways, NEW d \in {0, 1}, Fill(w, i, t, d)
    PROVE  FilledLast(i, w, t, d)
<1>1. \A v \in Ways, j \in Indexes :
        /\ cache'[v][j].tag = IF v = w /\ j = i THEN t ELSE cache[v][j].tag
        /\ cache'[v][j].lu = IF v = w /\ j = i THEN reference ELSE cache[v][j].lu
        /\ cache'[v][j].valid = IF v = w /\ j = i THEN 1 ELSE cache[v][j].valid
        /\ cache'[v][j].dirty = IF v = w /\ j = i THEN d ELSE cache[v][j].dirty
  BY FillEntries DEF SetsConsistent
<1>2. /\ \A j \in Indexes : HeldOrdered(j) /\ RecencyListed(j)
      /\ \A j \in Indexes : HeldOrdered(j)' /\ RecencyListed(j)'
  BY ConsistentListed, ConsistentListedAfter DEF AllListed
<1>3. ASSUME NEW j \in Indexes \ {i} PROVE ByRecency(j)' = ByRecency(j)
  <2>1. HeldWays(j)' = HeldWays(j)
    BY <1>1 DEF HeldWays, Holds
  <2>2. LastUse(j)' = LastUse(j)
    BY <1>1, <2>1 DEF LastUse, HeldWays
  <2>3. Contents(j)' = Contents(j)
    BY <1>1, <2>1 DEF Contents, HeldWays
  <2>4. Lists(ByRecency(j)', HeldWays(j), LastUse(j), Contents(j))
    BY <1>2, <2>1, <2>2, <2>3 DEF RecencyListed
  <2>5. Ranked(HeldWays(j), LastUse(j))
    BY <1>2, Ranking DEF HeldOrdered
  <2> QED
    BY <1>2, <2>4, <2>5, ListUnique DEF RecencyListed
<1>4. HeldWays(i)' = HeldWays(i) \cup {w}
  BY <1>1 DEF HeldWays, Holds
<1>5. UsedLast(HeldWays(i), LastUse(i), LastUse(i)', w)
  <2>1. LastUse(i)' \in [HeldWays(i) \cup {w} -> Nat]
    BY <1>2, <1>4 DEF HeldOrdered
  <2>2. LastUse(i)'[w] = reference
    BY <1>1, <1>4 DEF LastUse
  <2>3. \A v \in HeldWays(i) : LastUse(i)[v] < reference
    BY DEF LastUse, HeldWays, SetsConsistent, LastUsesDistinct
  <2>4. \A v \in HeldWays(i) \ {w} : LastUse(i)'[v] = LastUse(i)[v]
    BY <1>1, <1>4 DEF LastUse, HeldWays
  <2> QED
    BY <2>1, <2>2, <2>3, <2>4 DEF UsedLast
<1>6. \A v \in HeldWays(i) \ {w} : Contents(i)'[v] = Contents(i)[v]
  BY <1>1, <1>4 DEF Contents, HeldWays
<1>7. Contents(i)'[w] = [tag |-> t, dirty |-> d = 1]
  BY <1>1, <1>4 DEF Contents
<1> QED
  BY <1>3, <1>4, <1>5, <1>6, <1>7 DEF FilledLast

Recencies == [i \in Indexes |-> ByRecency(i)]

(* If u lists the set after the fill, it is the sequence of the abstract cache *)
(* then.                                                                       *)
LEMMA RecenciesAfterFill ==
    ASSUME SetsConsistent', NEW i \in Indexes, NEW t, NEW w, NEW d, FilledLast(i, w, t, d),
           NEW u, Lists(u, HeldWays(i) \cup {w}, LastUse(i)', Contents(i)')
    PROVE  Recencies' = [Recencies EXCEPT ![i] = u]
<1>1. HeldOrdered(i)' /\ RecencyListed(i)'
  BY ConsistentListedAfter DEF AllListed
<1>2. Ranked(HeldWays(i)', LastUse(i)')
  BY <1>1, Ranking DEF HeldOrdered
<1>3. Lists(u, HeldWays(i)', LastUse(i)', Contents(i)')
  BY DEF FilledLast
<1>4. ByRecency(i)' = u
  BY <1>1, <1>2, <1>3, ListUnique DEF RecencyListed
<1>5. \A j \in Indexes : ByRecency(j)' = IF j = i THEN u ELSE ByRecency(j)
  BY <1>4 DEF FilledLast
<1> QED
  BY <1>5 DEF Recencies

(* A hit of the simulator is a hit of the abstract cache.                      *)
LEMMA HitIsHit ==
    ASSUME SetsConsistent, SetsConsistent', NEW op \in Ops, NEW i \in Indexes,
           NEW t \in 0 .. MaxTag, t # NoTag, NEW w \in Ways, Hit(op, w, i, t)
    PROVE  Recency!Hit(op, i, t)
<1> DEFINE H == HeldWays(i)
           lu == LastUse(i)
           s == ByRecency(i)
           k == Place(H, lu, w)
           d == IF op = "S" THEN 1 ELSE cache[w][i].dirty
           block == [tag |-> t, dirty |-> s[k].dirty \/ op = "S"]
           u == <<block>> \o (SubSeq(s, 1, k - 1) \o SubSeq(s, k + 1, Len(s)))
<1>1. HeldOrdered(i) /\ RecencyListed(i)
  BY ConsistentListed DEF AllListed
<1>2. d \in {0, 1} /\ Fill(w, i, t, d)
  BY DEF Hit, SetsConsistent, CacheTypeOK, Entries
<1>3. FilledLast(i, w, t, d)
  BY <1>2, FillUsesLast
<1>4. w \in H /\ H \cup {w} = H
  BY DEF Hit, HeldWays, Holds
<1>5. k \in 1 .. Len(s) /\ s[k] = Contents(i)[w] /\ s \in Seq(Blocks)
  BY <1>1, <1>4, Ranking DEF HeldOrdered, RecencyListed, Lists, Ranked
<1>6. /\ Contents(i)[w].tag = t
      /\ Contents(i)[w].dirty = (cache[w][i].dirty = 1)
  BY <1>4 DEF Contents, Hit
<1>7. block = Contents(i)'[w]
  <2>1. (s[k].dirty \/ op = "S") = (d = 1)
    BY <1>5, <1>6
  <2> QED
    BY <1>3, <2>1 DEF FilledLast
<1>8. block \in Blocks
  BY <1>5, <1>6 DEF Blocks
<1>9. Fronted(u, s, k, Contents(i)'[w], Blocks)
  <2> HIDE DEF block, k, s
  <2>1. Fronted(u, s, k, block, Blocks)
    BY <1>5, <1>8, MoveToFront
  <2> QED
    BY <1>7, <2>1
<1>10. Lists(u, H, LastUse(i)', Contents(i)')
  <2>1. /\ IsFiniteSet(H) /\ lu \in [H -> Nat] /\ Distinct(H, lu)
        /\ UsedLast(H, lu, LastUse(i)', w)
        /\ Lists(s, H, lu, Contents(i))
        /\ \A v \in H \ {w} : Contents(i)'[v] = Contents(i)[v]
    BY <1>1, <1>3 DEF HeldOrdered, RecencyListed, FilledLast
  <2> HIDE DEF u, H, lu, s
  <2> QED
    BY <1>4, <1>9, <2>1, ListAfterUse
<1>11. Recencies' = [Recencies EXCEPT ![i] = u]
  <2> HIDE DEF u
  <2> QED
    BY <1>3, <1>4, <1>10, RecenciesAfterFill
<1>12. Recencies[i] = s
  BY DEF Recencies
<1>13. UNCHANGED <<misses, dirty_misses>>
  BY DEF Hit
<1>14. k \in DOMAIN s /\ s[k].tag = t
  BY <1>5, <1>6
<1> DEFINE Q(x) ==
             /\ Recencies[i][x].tag = t
             /\ UNCHANGED <<misses, dirty_misses>>
             /\ Recencies' = [Recencies EXCEPT ![i] =
                    <<[tag |-> t, dirty |-> Recencies[i][x].dirty \/ op = "S"]>>
                      \o (SubSeq(Recencies[i], 1, x - 1)
                            \o SubSeq(Recencies[i], x + 1, Len(Recencies[i])))]
<1>15. Q(k)
  BY <1>11, <1>12, <1>13, <1>14
<1>16. \E x \in DOMAIN Recencies[i] : Q(x)
  <2> HIDE DEF Q, k, s
  <2> QED
    BY <1>12, <1>14, <1>15
<1> QED
  BY <1>16 DEF Recency!Hit, Recency!Modified, Recencies

(* The set is full when its sequence has an entry for each way.                *)
LEMMA FullMeansAllHeld ==
    ASSUME SetsConsistent, NEW i \in Indexes
    PROVE  Len(ByRecency(i)) = ASSOC <=> HeldWays(i) = Ways
<1>1. RecencyListed(i)
  BY ConsistentListed DEF AllListed
<1>2. Len(ByRecency(i)) = Cardinality(HeldWays(i))
  BY <1>1 DEF RecencyListed, Lists
<1>3. HeldWays(i) \in SUBSET Ways
  BY DEF HeldWays
<1>4. Cardinality(Ways) = Cardinality(HeldWays(i)) => Ways = HeldWays(i)
  BY <1>3, WaysFinite, FS_Subset
<1> QED
  BY <1>2, <1>4, WaysFinite

(* What the sequence of a set becomes on a miss.                               *)
AfterMiss(s, block) ==
    <<block>> \o (IF Len(s) = ASSOC THEN SubSeq(s, 1, ASSOC - 1) ELSE s)

EvictsOldest(i, w, t, d) ==
    /\ Recencies' = [Recencies EXCEPT ![i] =
           AfterMiss(Recencies[i], [tag |-> t, dirty |-> d = 1])]
    /\ \A k \in DOMAIN Recencies[i] : Recencies[i][k].tag # t
    /\ (Len(Recencies[i]) = ASSOC /\ Recencies[i][ASSOC].dirty)
         <=> (cache[w][i].tag # NoTag /\ cache[w][i].dirty = 1)

(* The block evicted on a miss is the one used least recently, and nothing is  *)
(* evicted while a way is empty.                                               *)
LEMMA MissEvictsOldest ==
    ASSUME SetsConsistent, SetsConsistent', NEW i \in Indexes, NEW t \in 0 .. MaxTag, t # NoTag,
           NEW w \in Ways, Selected(w, t, i), cache[w][i].tag # t,
           NEW d \in {0, 1}, Fill(w, i, t, d)
    PROVE  EvictsOldest(i, w, t, d)
<1> DEFINE H == HeldWays(i)
           lu == LastUse(i)
           s == ByRecency(i)
           block == [tag |-> t, dirty |-> d = 1]
<1>1. HeldOrdered(i) /\ RecencyListed(i)
  BY ConsistentListed DEF AllListed
<1>2. FilledLast(i, w, t, d)
  BY FillUsesLast
<1>3. Recencies[i] = s
  BY DEF Recencies
<1>4. /\ IsFiniteSet(H) /\ lu \in [H -> Nat] /\ Distinct(H, lu)
      /\ UsedLast(H, lu, LastUse(i)', w)
      /\ Lists(s, H, lu, Contents(i))
      /\ \A v \in H \ {w} : Contents(i)'[v] = Contents(i)[v]
      /\ block = Contents(i)'[w]
  BY <1>1, <1>2 DEF HeldOrdered, RecencyListed, FilledLast
<1>5. block \in Blocks
  BY DEF Blocks
<1>6. Ranked(H, lu)
  BY <1>4, Ranking
<1>7. s \in Seq(Blocks) /\ Len(s) = Cardinality(H)
  BY <1>4 DEF Lists
<1>8. ASSUME NEW k \in DOMAIN s PROVE s[k].tag # t
  <2>1. PICK v \in H : Place(H, lu, v) = k
    BY <1>6, <1>7 DEF Ranked
  <2>2. \A x \in H : s[Place(H, lu, x)] = Contents(i)[x]
    <3> HIDE DEF H, lu, s
    <3> QED
      BY <1>4 DEF Lists
  <2>3. s[k] = Contents(i)[v]
    BY <2>1, <2>2
  <2>4. Contents(i)[v].tag = cache[v][i].tag /\ v \in Ways
    BY DEF Contents, HeldWays
  <2> QED
    BY <2>3, <2>4, SelectedEntry
<1>9. CASE w \notin H
  <2>1. Len(s) # ASSOC
    BY <1>9, FullMeansAllHeld
  <2>2. Lists(<<block>> \o s, H \cup {w}, LastUse(i)', Contents(i)')
    <3> HIDE DEF H, lu, s, block
    <3> QED
      BY <1>4, <1>5, <1>9, ListAfterInsert
  <2>3. Recencies' = [Recencies EXCEPT ![i] = <<block>> \o s]
    <3> HIDE DEF s, block
    <3> QED
      BY <1>2, <2>2, RecenciesAfterFill
  <2>4. cache[w][i].tag = NoTag
    BY <1>9 DEF HeldWays, Holds
  <2> QED
    BY <1>3, <1>8, <2>1, <2>3, <2>4 DEF AfterMiss, EvictsOldest
<1>10. CASE w \in H
  <2>1. cache[w][i].tag # NoTag
    BY <1>10 DEF HeldWays, Holds
  <2>2. Usable(t, i) = {}
    BY <2>1 DEF Selected, Usable
  <2>3. LeastRecentlyUsed(w, i)
    BY <2>2 DEF Selected
  <2>4. H = Ways
    BY <2>2 DEF HeldWays, Holds, Usable
  <2>5. \A v \in H \ {w} : lu[v] > lu[w]
    <3> SUFFICES ASSUME NEW v \in H \ {w} PROVE lu[v] > lu[w]
      OBVIOUS
    <3>1. lu[v] # lu[w] /\ lu[v] \in Nat /\ lu[w] \in Nat
      BY <1>4, <1>10 DEF Distinct
    <3>2. lu[w] <= lu[v]
      BY <1>10, <2>3, <3>1 DEF LeastRecentlyUsed, LastUse, HeldWays
    <3> QED
      BY <3>1, <3>2
  <2>6. Place(H, lu, w) = Cardinality(H)
    BY <1>4, <1>10, <2>5, OldestIsLast
  <2>7. Len(s) = ASSOC
    BY <2>4, FullMeansAllHeld
  <2>8. s # <<>>
    BY <2>7, CacheAssumption, EmptySeq
  <2>9. Fronted(<<block>> \o SubSeq(s, 1, Len(s) - 1), s, Len(s), block, Blocks)
    <3> HIDE DEF s, block
    <3> QED
      BY <1>5, <1>7, <2>8, DropLast
  <2> DEFINE u == <<block>> \o SubSeq(s, 1, ASSOC - 1)
  <2>10. Fronted(u, s, Place(H, lu, w), Contents(i)'[w], Blocks)
    BY <1>4, <1>7, <2>6, <2>7, <2>9
  <2>11. H \cup {w} = H
    BY <1>10
  <2>12. Lists(u, H \cup {w}, LastUse(i)', Contents(i)')
    <3> HIDE DEF u, H, lu, s
    <3> QED
      BY <1>4, <1>10, <2>10, <2>11, ListAfterUse
  <2>13. Recencies' = [Recencies EXCEPT ![i] = u]
    <3> HIDE DEF u
    <3> QED
      BY <1>2, <2>12, RecenciesAfterFill
  <2>14. s[ASSOC] = Contents(i)[w]
    BY <1>4, <1>7, <1>10, <2>6, <2>7 DEF Lists
  <2>15. s[ASSOC].dirty = (cache[w][i].dirty = 1)
    BY <1>10, <2>14 DEF Contents
  <2> QED
    BY <1>3, <1>8, <2>1, <2>7, <2>13, <2>15 DEF AfterMiss, EvictsOldest
<1> QED
  BY <1>9, <1>10

(* A miss of the simulator is a miss of the abstract cache.                    *)
LEMMA MissIsMiss ==
    ASSUME SetsConsistent, SetsConsistent', NEW op \in Ops, NEW i \in Indexes,
           NEW t \in 0 .. MaxTag, t # NoTag, NEW w \in Ways, Selected(w, t, i),
           CleanMiss(op, w, i, t) \/ DirtyMiss(op, w, i, t)
    PROVE  Recency!Miss(op, i, t)
<1> DEFINE d == IF op = "S" THEN 1 ELSE 0
           block == [tag |-> t, dirty |-> op = "S"]
           writeBack == Len(Recencies[i]) = ASSOC /\ Recencies[i][ASSOC].dirty
<1>1. d \in {0, 1} /\ Fill(w, i, t, d) /\ cache[w][i].tag # t
  BY DEF CleanMiss, DirtyMiss
<1>2. block = [tag |-> t, dirty |-> d = 1]
  <2>1. (op = "S") = (d = 1)
    OBVIOUS
  <2> QED
    BY <2>1
<1>3. /\ Recencies' = [Recencies EXCEPT ![i] =
              AfterMiss(Recencies[i], [tag |-> t, dirty |-> d = 1])]
      /\ \A k \in DOMAIN Recencies[i] : Recencies[i][k].tag # t
      /\ writeBack <=> cache[w][i].tag # NoTag /\ cache[w][i].dirty = 1
  <2>1. EvictsOldest(i, w, t, d)
    <3> HIDE DEF d
    <3> QED
      BY <1>1, MissEvictsOldest
  <2> QED
    BY <2>1 DEF EvictsOldest
<1>4. Recencies' = [Recencies EXCEPT ![i] = AfterMiss(Recencies[i], block)]
  <2> HIDE DEF d, block
  <2> QED
    BY <1>2, <1>3
<1>5. misses' = [misses EXCEPT ![op] = @ + 1]
  BY DEF CleanMiss, DirtyMiss, Add
<1>6. dirty_misses' = IF writeBack THEN [dirty_misses EXCEPT ![op] = @ + 1] ELSE dirty_misses
  <2>1. CASE CleanMiss(op, w, i, t)
    <3>1. ~writeBack /\ dirty_misses' = dirty_misses
      <4>1. ~(cache[w][i].tag # NoTag /\ cache[w][i].dirty = 1)
        BY <2>1 DEF CleanMiss
      <4> HIDE DEF writeBack
      <4> QED
        BY <1>3, <2>1, <4>1 DEF CleanMiss
    <3> HIDE DEF writeBack
    <3> QED
      BY <3>1
  <2>2. CASE DirtyMiss(op, w, i, t)
    <3>1. writeBack /\ dirty_misses' = [dirty_misses EXCEPT ![op] = @ + 1]
      <4>1. cache[w][i].tag # NoTag /\ cache[w][i].dirty = 1
        BY <2>2 DEF DirtyMiss
      <4> HIDE DEF writeBack
      <4> QED
        BY <1>3, <2>2, <4>1 DEF DirtyMiss, Add
    <3> HIDE DEF writeBack
    <3> QED
      BY <3>1
  <2> QED
    BY <2>1, <2>2
<1> QED
  BY <1>3, <1>4, <1>5, <1>6 DEF Recency!Miss, Recency!Modified, Recencies, AfterMiss

(* sys2.java is a write-back cache with least-recently-used replacement that   *)
(* counts its misses and its write-backs, for every number of ways and sets,   *)
(* all tags and every trace: its counters of last uses, its sentinel tag and   *)
(* its search for a way never show in what it keeps and prints.                *)
THEOREM LastUsesImplementLRU == CacheSpec => ImplementsLRU
<1>1. CacheInit => Recency!Init
  <2> SUFFICES ASSUME CacheInit PROVE Recency!Init
    OBVIOUS
  <2>1. ASSUME NEW i \in Indexes PROVE ByRecency(i) = <<>>
    <3>1. \A w \in Ways : ~Holds(w, i)
      BY DEF CacheInit, Holds
    <3>2. HeldWays(i) = {}
      BY <3>1 DEF HeldWays
    <3>3. Cardinality(HeldWays(i)) = 0
      BY <3>2, FS_EmptySet
    <3>4. {w \in Ways : Holds(w, i)} = HeldWays(i) /\ 1 .. 0 = {}
      BY DEF HeldWays
    <3>5. 1 .. Cardinality({w \in Ways : Holds(w, i)}) = {}
      BY <3>3, <3>4
    <3>6. DOMAIN ByRecency(i) = {}
      BY <3>5 DEF ByRecency
    <3>7. ByRecency(i) = [k \in {} |-> ByRecency(i)[k]]
      BY <3>5 DEF ByRecency
    <3> QED
      BY <3>7
  <2> QED
    BY <2>1 DEF CacheInit, Recency!Init, Ops, Recency!Ops
<1>2. SetsConsistent /\ SetsConsistent' /\ [CacheNext]_cacheVars => [Recency!Next]_Recency!vars
  <2> SUFFICES ASSUME SetsConsistent, SetsConsistent', [CacheNext]_cacheVars
               PROVE  [Recency!Next]_Recency!vars
    OBVIOUS
  <2>1. ASSUME NEW op \in Ops, NEW i \in Indexes, NEW t \in 0 .. MaxTag, Access(op, i, t)
        PROVE  Recency!Next
    <3>1. t # NoTag /\ t \in 1 .. MaxTag
      BY <2>1, CacheAssumption DEF Access, DecodeFails, NoTag
    <3>2. PICK w \in Ways : /\ Selected(w, t, i)
                            /\ \/ Hit(op, w, i, t)
                               \/ CleanMiss(op, w, i, t)
                               \/ DirtyMiss(op, w, i, t)
      BY <2>1 DEF Access
    <3>3. Recency!Hit(op, i, t) \/ Recency!Miss(op, i, t)
      BY <3>1, <3>2, HitIsHit, MissIsMiss
    <3>4. accesses' = [accesses EXCEPT ![op] = @ + 1]
      BY <3>2 DEF Hit, CleanMiss, DirtyMiss, Counted, Add
    <3> QED
      BY <3>1, <3>3, <3>4 DEF Recency!Next, Ops, Recency!Ops
  <2>2. ASSUME UNCHANGED <<cache, stats>> PROVE UNCHANGED Recency!vars
    <3>1. \A i \in Indexes : ByRecency(i)' = ByRecency(i)
      BY <2>2 DEF ByRecency, Holds
    <3> QED
      BY <2>2, <3>1 DEF Recency!vars, stats
  <2> QED
    BY <2>1, <2>2 DEF CacheNext, Crash, EndOfTrace, cacheVars, stats
<1> QED
  BY <1>1, <1>2, ConsistencyCorrect, PTL DEF CacheSpec, Recency!Spec, ImplementsLRU

===============================================================================
