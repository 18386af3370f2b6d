--------------------------- MODULE TankGameProofs ---------------------------
(* The score of the tank game fits its lives, and its end is noticed, for  *)
(* any number of run threads, hits and lives, and every interleaving with  *)
(* the painting thread.                                                    *)
EXTENDS TankGame, FiniteSetTheorems, TLAPS

(* A player has one opponent, whose opponent he is.                        *)
LEMMA Opponents ==
    ASSUME NEW p \in Players
    PROVE  Opponent(p) \in Players /\ Opponent(p) # p /\ Opponent(Opponent(p)) = p
<1>1. PICK a, b : a # b /\ Players = {a, b}
  BY ConstantsAssumption
<1>2. \A x \in Players : \E q \in Players : q # x
  BY <1>1
<1>3. \A x \in Players : Opponent(x) \in Players /\ Opponent(x) # x
  BY <1>2 DEF Opponent
<1> QED
  BY <1>1, <1>3

(* What the scores are worth before and after a paint.                     *)
Dead(p) == IF health[p] <= 0 THEN 1 ELSE 0

ScoreInv ==
    /\ health \in [Players -> Int]
    /\ lives \in [Players -> Int]
    /\ point \in [Players -> Int]
    /\ end \in [Players -> BOOLEAN]
    /\ \A p \in Players : point[Opponent(p)] = (Lives - lives[p]) + Dead(p)
    /\ EndNoticed

(* Health and lives are positive.                                           *)
LEMMA ConstantTypes == Health \in Nat \ {0} /\ Lives \in Nat \ {0}
BY ConstantsAssumption

(* ScoreInv holds when the game starts.                                     *)
LEMMA ScoreInit == Init => ScoreInv
<1> SUFFICES ASSUME Init PROVE ScoreInv
  OBVIOUS
<1>1. /\ health = [p \in Players |-> Health] /\ lives = [p \in Players |-> Lives]
      /\ point = [p \in Players |-> 0] /\ end = [p \in Players |-> FALSE]
  BY DEF Init
<1>2. \A p \in Players : point[Opponent(p)] = (Lives - lives[p]) + Dead(p)
  BY <1>1, Opponents, ConstantTypes DEF Dead
<1>3. EndNoticed
  BY <1>1, ConstantTypes DEF EndNoticed
<1> QED
  BY <1>1, <1>2, <1>3, ConstantTypes DEF ScoreInv

(* Steps that leave the players alone.                                     *)
LEMMA ScoreIdle ==
    ASSUME ScoreInv, UNCHANGED players
    PROVE  ScoreInv'
BY DEF ScoreInv, players, EndNoticed, Dead

(* A hit gives the point exactly when it takes the health to zero.         *)
LEMMA ScoreBullet ==
    ASSUME ScoreInv, NEW hit \in SUBSET Players, NEW wall \in BOOLEAN, paintBullet(hit, wall)
    PROVE  ScoreInv'
<1>1. /\ health' = [p \in Players |-> IF p \in hit THEN health[p] - 1 ELSE health[p]]
      /\ point' = [p \in Players |-> IF Opponent(p) \in die(hit) THEN point[p] + 1 ELSE point[p]]
      /\ lives' = lives /\ end' = end
  BY DEF paintBullet, hitTank, earnPoint
<1>2. health' \in [Players -> Int] /\ point' \in [Players -> Int]
  BY <1>1 DEF ScoreInv
<1>3. ASSUME NEW p \in Players
      PROVE  point'[Opponent(p)] = (Lives - lives'[p]) + Dead(p)'
  <2>1. point'[Opponent(p)] = IF p \in die(hit) THEN point[Opponent(p)] + 1 ELSE point[Opponent(p)]
    BY <1>1, Opponents
  <2>2. health'[p] = IF p \in hit THEN health[p] - 1 ELSE health[p]
    BY <1>1
  <2>3. p \in die(hit) <=> p \in hit /\ health[p] - 1 = 0
    BY DEF die
  <2>4. point[Opponent(p)] = (Lives - lives[p]) + Dead(p)
    BY DEF ScoreInv
  <2>5. health[p] \in Int /\ lives[p] \in Int /\ Lives \in Int
    BY ConstantTypes DEF ScoreInv
  <2>6. CASE p \in die(hit)
    <3>1. Dead(p) = 0 /\ Dead(p)' = 1
      BY <2>2, <2>3, <2>5, <2>6 DEF Dead
    <3> QED
      BY <1>1, <2>1, <2>4, <2>5, <2>6, <3>1
  <2>7. CASE p \notin die(hit)
    <3>1. Dead(p)' = Dead(p)
      BY <2>2, <2>3, <2>5, <2>7 DEF Dead
    <3> QED
      BY <1>1, <2>1, <2>4, <2>7, <3>1
  <2> QED
    BY <2>6, <2>7
<1>4. EndNoticed'
  BY <1>1 DEF ScoreInv, EndNoticed
<1> QED
  BY <1>1, <1>2, <1>3, <1>4 DEF ScoreInv

(* The paint takes one life from each dead tank, and so meets zero.        *)
LEMMA ScorePaint ==
    ASSUME ScoreInv, paintPlayers
    PROVE  ScoreInv'
<1>1. /\ lives' = [p \in Players |-> IF health[p] <= 0 THEN lives[p] - 1 ELSE lives[p]]
      /\ health' = [p \in Players |-> IF health[p] <= 0 THEN Health ELSE health[p]]
      /\ end' = [p \in Players |-> end[p] \/ lives'[p] = 0]
      /\ point' = point
  BY DEF paintPlayers, paintHealth, paintLives
<1>2. /\ health' \in [Players -> Int] /\ lives' \in [Players -> Int]
      /\ end' \in [Players -> BOOLEAN]
  BY <1>1, ConstantTypes DEF ScoreInv
<1>3. ASSUME NEW p \in Players
      PROVE  /\ point'[Opponent(p)] = (Lives - lives'[p]) + Dead(p)'
             /\ lives'[p] <= 0 => end'[p]
  <2>1. /\ health[p] \in Int /\ lives[p] \in Int /\ Lives \in Int
        /\ point[Opponent(p)] = (Lives - lives[p]) + Dead(p)
        /\ (lives[p] <= 0 => end[p])
    BY ConstantTypes DEF ScoreInv, EndNoticed
  <2>2. /\ lives'[p] = IF health[p] <= 0 THEN lives[p] - 1 ELSE lives[p]
        /\ health'[p] = IF health[p] <= 0 THEN Health ELSE health[p]
        /\ end'[p] = (end[p] \/ lives'[p] = 0)
    BY <1>1
  <2>3. Dead(p)' = 0
    BY <2>1, <2>2, ConstantTypes DEF Dead
  <2>4. lives'[p] = lives[p] - Dead(p)
    BY <2>1, <2>2 DEF Dead
  <2>5. Dead(p) \in {0, 1}
    BY DEF Dead
  <2>6. point'[Opponent(p)] = (Lives - lives'[p]) + Dead(p)'
    BY <1>1, <2>1, <2>3, <2>4, <2>5
  <2>7. lives'[p] <= 0 => lives[p] <= 0 \/ lives'[p] = 0
    BY <2>1, <2>4, <2>5
  <2> QED
    BY <2>1, <2>2, <2>6, <2>7
<1>4. EndNoticed'
  BY <1>3 DEF EndNoticed
<1> QED
  BY <1>1, <1>2, <1>3, <1>4 DEF ScoreInv

(* Every step keeps ScoreInv.                                               *)
LEMMA ScoreStep == ScoreInv /\ [Next]_vars => ScoreInv'
<1> SUFFICES ASSUME ScoreInv, [Next]_vars PROVE ScoreInv'
  OBVIOUS
<1>1. CASE \E hit \in SUBSET Players, wall \in BOOLEAN : paintBullet(hit, wall)
  BY <1>1, ScoreBullet
<1>2. CASE paintPlayers
  BY <1>2, ScorePaint
<1>3. CASE UNCHANGED players
  BY <1>3, ScoreIdle
<1>4. CASE \/ \E q \in Procs : addRead(q) \/ addSize(q) \/ addStore(q)
           \/ \E t \in Threads : run(t) \/ noFire(t)
           \/ paintStart \/ paintNull
           \/ \E last \in BOOLEAN : paintExplosion(last)
           \/ removeCopy \/ removeRead \/ removeStore
  <2>1. UNCHANGED players
    BY <1>4 DEF addRead, addSize, addStore, run, noFire, paintStart, paintNull, paintExplosion,
         removeCopy, removeRead, removeStore
  <2> QED
    BY <2>1, ScoreIdle
<1> QED
  BY <1>1, <1>2, <1>3, <1>4 DEF Next, vars

(* A player's points are the lives the other has lost or is about to lose. *)
THEOREM ScoreCorrect == Spec => []ScoreMatchesLives
<1>1. ScoreInv => ScoreMatchesLives
  BY DEF ScoreInv, ScoreMatchesLives, Dead
<1> QED
  BY <1>1, ScoreInit, ScoreStep, PTL DEF Spec

(* A player without lives has ended the game.                              *)
THEOREM EndCorrect == Spec => []EndNoticed
<1>1. ScoreInv => EndNoticed
  BY DEF ScoreInv
<1> QED
  BY <1>1, ScoreInit, ScoreStep, PTL DEF Spec

-----------------------------------------------------------------------------
(* The list of animations while no two threads have changed it at once.    *)

Steps == {"top", "fire", "loop", "size", "store", "copied", "shrink"}
Kinds == {Null, "bullet", "explosion", "stopped"}

ListTypeOK ==
    /\ pc \in [Procs -> Steps]
    /\ todo \in [Procs -> Int]
    /\ register \in [Procs -> Nat]
    /\ slots \in [Positions -> Kinds]
    /\ size \in Nat /\ counter \in Nat

OneInList == \A q, r \in Procs : InList(q) /\ InList(r) => q = r

(* What a thread has read of the list is still so.                         *)
ReadsCurrent ==
    /\ \A q \in Procs : pc[q] = "size" => register[q] = size
    /\ \A q \in Procs : pc[q] = "store" => size = register[q] + 1
    /\ pc[EDT] = "shrink" => register[EDT] = size
    /\ pc[EDT] \in {"copied", "shrink"} => counter < size
    /\ \A t \in Threads : pc[t] \notin {"copied", "shrink"}

(* The elements that are on their way.                                     *)
Coming ==
    (IF pc[EDT] = "store" THEN todo[EDT] - 1 ELSE todo[EDT])
      + (IF \E t \in Threads : pc[t] = "size" THEN 1 ELSE 0)

HasRoom ==
    /\ size + Coming <= MaxAnimations
    /\ IF pc[EDT] \in {"fire", "size", "store"} THEN todo[EDT] >= 1 ELSE todo[EDT] = 0

NoDamage ==
    \A k \in Positions :
        k < size /\ slots[k] = Null => \E q \in Procs : pc[q] = "store" /\ register[q] = k

Orderly == ListTypeOK /\ OneInList /\ ReadsCurrent /\ HasRoom /\ NoDamage

ListInv == overlap \in BOOLEAN /\ (overlap \/ Orderly)

(* A step on the list that overlaps no other begins when no thread has one *)
(* in progress.                                                            *)
LEMMA StartsAlone ==
    ASSUME ~overlap', NEW q \in Procs, StartListStep(q)
    PROVE  \A r \in Procs : InList(r) => r = q
BY DEF StartListStep

(* The run threads and the painting thread.                                 *)
LEMMA ThreadsAndEDT ==
    /\ EDT \in Procs /\ EDT \notin Threads
    /\ \A q \in Procs : q # EDT => q \in Threads
    /\ \A t \in Threads : t \in Procs /\ t # EDT
    /\ MaxAnimations \in Nat
BY ConstantsAssumption DEF Procs

(* Where a thread is inside add or remove.                                  *)
LEMMA InListStates ==
    ASSUME NEW q \in Procs
    PROVE  /\ pc[q] = "size" \/ pc[q] = "store" => InList(q)
           /\ pc[q] = "copied" \/ pc[q] = "shrink" => InList(q)
BY DEF InList

(* Where no thread is on its way with its element, none counts.            *)
LEMMA RoomSays ==
    ASSUME NEW n \in Int, Room(n), ListTypeOK, OneInList
    PROVE  size + (IF \E t \in Threads : pc[t] = "size" THEN 1 ELSE 0) + todo[EDT] + n
             <= MaxAnimations
<1>1. size + Cardinality(Adding) + todo[EDT] + n <= MaxAnimations
  BY DEF Room
<1>2. CASE \E t \in Threads : pc[t] = "size"
  <2>1. PICK t \in Threads : pc[t] = "size"
    BY <1>2
  <2>2. Adding = {t}
    BY <2>1, ThreadsAndEDT, InListStates DEF Adding, OneInList
  <2>3. Cardinality(Adding) = 1
    BY <2>2, FS_Singleton
  <2> QED
    BY <1>1, <1>2, <2>3
<1>3. CASE ~\E t \in Threads : pc[t] = "size"
  <2>1. Adding = {}
    BY <1>3 DEF Adding
  <2>2. Cardinality(Adding) = 0
    BY <2>1, FS_EmptySet
  <2> QED
    BY <1>1, <1>3, <2>2
<1> QED
  BY <1>2, <1>3

(* Nothing is added yet: the size is read where there is room.             *)
LEMMA OrderlyAddRead ==
    ASSUME Orderly, ~overlap', NEW q \in Procs, addRead(q)
    PROVE  Orderly'
<1> USE ThreadsAndEDT DEF Orderly
<1>1. /\ pc[q] = "fire" /\ pc' = [pc EXCEPT ![q] = "size"]
      /\ register' = [register EXCEPT ![q] = size]
      /\ UNCHANGED <<todo, slots, size, counter>>
  BY DEF addRead, list
<1>2. \A r \in Procs : ~InList(r)
  BY <1>1, StartsAlone DEF addRead, InList
<1>3. \A r \in Procs : r # q => pc'[r] = pc[r] /\ register'[r] = register[r]
  BY <1>1 DEF ListTypeOK
<1>4. pc'[q] = "size" /\ register'[q] = size
  BY <1>1 DEF ListTypeOK
<1>5. ListTypeOK'
  BY <1>1 DEF ListTypeOK, Steps
<1>6. OneInList'
  BY <1>2, <1>3 DEF OneInList, InList
<1>7. ReadsCurrent'
  BY <1>1, <1>2, <1>3, <1>4 DEF ReadsCurrent, InList
<1>8. HasRoom'
  <2>1. CASE q = EDT
    <3>1. \A t \in Threads : pc'[t] # "size" /\ pc[t] # "size"
      BY <1>2, <1>3, <2>1 DEF InList
    <3> QED
      BY <1>1, <1>4, <2>1, <3>1 DEF HasRoom, Coming
  <2>2. CASE q # EDT
    <3>1. \A t \in Threads : pc[t] # "size"
      BY <1>2 DEF InList
    <3>2. Room(1)
      BY <2>2 DEF addRead
    <3>3. size + todo[EDT] + 1 <= MaxAnimations
      BY <3>1, <3>2, RoomSays DEF ListTypeOK
    <3>4. pc'[EDT] = pc[EDT] /\ pc[EDT] # "store"
      BY <1>2, <1>3, <2>2 DEF InList
    <3>5. \E t \in Threads : pc'[t] = "size"
      BY <1>4, <2>2
    <3> QED
      BY <1>1, <3>3, <3>4, <3>5 DEF HasRoom, Coming, ListTypeOK
  <2> QED
    BY <2>1, <2>2
<1>9. NoDamage'
  BY <1>1, <1>2 DEF NoDamage, InList
<1> QED
  BY <1>5, <1>6, <1>7, <1>8, <1>9

(* The size counts an element that is not there yet.                       *)
LEMMA OrderlyAddSize ==
    ASSUME Orderly, ~overlap', NEW q \in Procs, addSize(q)
    PROVE  Orderly'
<1> USE ThreadsAndEDT DEF Orderly
<1>1. /\ pc[q] = "size" /\ pc' = [pc EXCEPT ![q] = "store"]
      /\ size' = register[q] + 1
      /\ UNCHANGED <<todo, register, slots, counter>>
  BY DEF addSize
<1>2. \A r \in Procs : InList(r) => r = q
  BY <1>1 DEF OneInList, InList
<1>3. \A r \in Procs : r # q => pc'[r] = pc[r]
  BY <1>1 DEF ListTypeOK
<1>4. pc'[q] = "store" /\ register[q] = size /\ size' = size + 1
  BY <1>1 DEF ListTypeOK, ReadsCurrent
<1>5. ListTypeOK'
  BY <1>1, <1>4 DEF ListTypeOK, Steps
<1>6. OneInList'
  BY <1>2, <1>3 DEF OneInList, InList
<1>7. ReadsCurrent'
  BY <1>1, <1>2, <1>3, <1>4 DEF ReadsCurrent, InList
<1>8. HasRoom'
  <2>1. CASE q = EDT
    <3>1. \A t \in Threads : pc'[t] # "size" /\ pc[t] # "size"
      BY <1>2, <1>3, <2>1 DEF InList
    <3> QED
      BY <1>1, <1>4, <2>1, <3>1 DEF HasRoom, Coming, ListTypeOK
  <2>2. CASE q # EDT
    <3>1. \A t \in Threads : pc'[t] # "size"
      BY <1>2, <1>3, <1>4 DEF InList
    <3>2. \E t \in Threads : pc[t] = "size"
      BY <1>1, <2>2
    <3>3. pc'[EDT] = pc[EDT]
      BY <1>3, <2>2
    <3> QED
      BY <1>1, <1>4, <3>1, <3>2, <3>3 DEF HasRoom, Coming, ListTypeOK
  <2> QED
    BY <2>1, <2>2
<1>9. NoDamage'
  <2> SUFFICES ASSUME NEW k \in Positions, k < size', slots[k] = Null
               PROVE  \E r \in Procs : pc'[r] = "store" /\ register[r] = k
    BY <1>1 DEF NoDamage
  <2>1. CASE k < size
    BY <1>1, <1>2, <2>1 DEF NoDamage, InList
  <2>2. CASE k = size
    BY <1>4, <2>2
  <2>3. k \in Int
    BY DEF Positions
  <2> QED
    BY <1>4, <2>1, <2>2, <2>3 DEF ListTypeOK
<1> QED
  BY <1>5, <1>6, <1>7, <1>8, <1>9

(* The element is stored where the size left it a place.                   *)
LEMMA OrderlyAddStore ==
    ASSUME Orderly, ~overlap', NEW q \in Procs, addStore(q)
    PROVE  Orderly'
<1> USE ThreadsAndEDT DEF Orderly
<1> DEFINE element == IF q = EDT THEN "explosion" ELSE "bullet"
<1>1. /\ pc[q] = "store" /\ pc' = [pc EXCEPT ![q] = AfterAdd(q)]
      /\ slots' = [slots EXCEPT ![register[q]] = element]
      /\ todo' = [todo EXCEPT ![q] = @ - 1]
      /\ register' = [register EXCEPT ![q] = 0]
      /\ UNCHANGED <<size, counter>>
  BY DEF addStore
<1>2. \A r \in Procs : InList(r) => r = q
  BY <1>1 DEF OneInList, InList
<1>3. \A r \in Procs : r # q => pc'[r] = pc[r] /\ register'[r] = register[r] /\ todo'[r] = todo[r]
  BY <1>1 DEF ListTypeOK
<1>4. /\ pc'[q] = AfterAdd(q) /\ AfterAdd(q) \in {"fire", "loop", "top"}
      /\ todo'[q] = todo[q] - 1
  BY <1>1 DEF ListTypeOK, AfterAdd
<1>5. ListTypeOK'
  <2>1. element \in Kinds
    BY DEF Kinds
  <2>2. slots' \in [Positions -> Kinds]
    <3> HIDE DEF element
    <3> QED
      BY <1>1, <2>1 DEF ListTypeOK
  <2>3. pc' \in [Procs -> Steps]
    BY <1>1, <1>4 DEF ListTypeOK, Steps
  <2>4. todo' \in [Procs -> Int] /\ register' \in [Procs -> Nat]
    BY <1>1 DEF ListTypeOK
  <2> QED
    BY <1>1, <2>2, <2>3, <2>4 DEF ListTypeOK
<1>a. \A r \in Procs : ~InList(r)'
  BY <1>2, <1>3, <1>4 DEF InList
<1>6. OneInList'
  BY <1>a DEF OneInList
<1>7. ReadsCurrent'
  BY <1>a DEF ReadsCurrent, InList
<1>8. HasRoom'
  <2>1. (\A t \in Threads : pc'[t] # "size" /\ pc[t] # "size") /\ pc'[EDT] # "store"
    BY <1>1, <1>2, <1>a DEF InList
  <2>2. CASE q = EDT
    <3>1. todo[EDT] \in Int /\ todo[EDT] >= 1 /\ todo'[EDT] = todo[EDT] - 1
      BY <1>1, <1>4, <2>2 DEF HasRoom, ListTypeOK
    <3>2. pc'[EDT] = IF todo[EDT] > 1 THEN "fire" ELSE "loop"
      BY <1>4, <2>2 DEF AfterAdd
    <3> QED
      BY <1>1, <2>1, <2>2, <3>1, <3>2 DEF HasRoom, Coming, ListTypeOK
  <2>3. CASE q # EDT
    <3>1. pc'[EDT] = pc[EDT] /\ todo'[EDT] = todo[EDT] /\ pc[EDT] # "store"
      BY <1>1, <1>2, <1>3, <2>3 DEF InList
    <3> QED
      BY <1>1, <2>1, <3>1 DEF HasRoom, Coming
  <2> QED
    BY <2>2, <2>3
<1>9. NoDamage'
  <2> SUFFICES ASSUME NEW k \in Positions, k < size, slots'[k] = Null PROVE FALSE
    BY <1>1 DEF NoDamage
  <2>1. element # Null
    BY DEF Null
  <2>2. k # register[q] /\ slots[k] = Null
    BY <1>1, <2>1 DEF ListTypeOK
  <2>3. PICK r \in Procs : pc[r] = "store" /\ register[r] = k
    BY <2>2 DEF NoDamage
  <2> QED
    BY <1>2, <2>2, <2>3 DEF InList
<1> QED
  BY <1>5, <1>6, <1>7, <1>8, <1>9

(* A round of a run thread, and a tank that does not fire.                 *)
LEMMA OrderlyRun ==
    ASSUME Orderly, NEW t \in Threads, run(t) \/ noFire(t)
    PROVE  Orderly'
<1> USE ThreadsAndEDT DEF Orderly
<1>1. /\ pc[t] \in {"top", "fire"}
      /\ pc'[t] \in {"top", "fire"} /\ pc' = [pc EXCEPT ![t] = pc'[t]]
      /\ todo' \in [Procs -> Int] /\ todo'[EDT] = todo[EDT]
      /\ UNCHANGED <<register, slots, size, counter>>
  BY DEF run, noFire, list, ListTypeOK, AfterAdd
<1>2. \A r \in Procs : r # t => pc'[r] = pc[r]
  BY <1>1 DEF ListTypeOK
<1>3. \A r \in Procs : InList(r)' <=> InList(r)
  BY <1>1, <1>2 DEF InList
<1>4. ListTypeOK'
  BY <1>1 DEF ListTypeOK, Steps
<1>5. OneInList'
  BY <1>3 DEF OneInList
<1>6. ReadsCurrent'
  BY <1>1, <1>2 DEF ReadsCurrent
<1>7. HasRoom'
  <2>1. (\E u \in Threads : pc'[u] = "size") <=> (\E u \in Threads : pc[u] = "size")
    BY <1>1, <1>2
  <2>2. pc'[EDT] = pc[EDT]
    BY <1>2
  <2> QED
    BY <1>1, <2>1, <2>2 DEF HasRoom, Coming
<1>8. NoDamage'
  BY <1>1, <1>2 DEF NoDamage
<1> QED
  BY <1>4, <1>5, <1>6, <1>7, <1>8

(* The painting thread outside the list: it goes to another step.          *)
LEMMA OrderlyPaintMoves ==
    ASSUME Orderly, paintStart \/ paintNull \/ paintPlayers
    PROVE  Orderly'
<1> USE ThreadsAndEDT DEF Orderly
<1>1. /\ pc[EDT] \in {"top", "loop"}
      /\ pc'[EDT] \in {"top", "loop"} /\ pc' = [pc EXCEPT ![EDT] = pc'[EDT]]
      /\ counter' \in Nat
      /\ UNCHANGED <<todo, register, slots, size>>
  BY DEF paintStart, paintNull, paintPlayers, list, ListTypeOK
<1>2. \A r \in Procs : r # EDT => pc'[r] = pc[r]
  BY <1>1 DEF ListTypeOK
<1>3. \A r \in Procs : InList(r)' <=> InList(r)
  BY <1>1, <1>2 DEF InList
<1>4. ListTypeOK'
  BY <1>1 DEF ListTypeOK, Steps
<1>5. OneInList'
  BY <1>3 DEF OneInList
<1>6. ReadsCurrent'
  BY <1>1, <1>2 DEF ReadsCurrent
<1>7. HasRoom'
  <2>1. (\E u \in Threads : pc'[u] = "size") <=> (\E u \in Threads : pc[u] = "size")
    BY <1>2
  <2> QED
    BY <1>1, <2>1 DEF HasRoom, Coming
<1>8. NoDamage'
  BY <1>1, <1>2 DEF NoDamage
<1> QED
  BY <1>4, <1>5, <1>6, <1>7, <1>8

(* The tanks a bullet kills are finitely many.                             *)
LEMMA DeadCounted ==
    ASSUME NEW hit \in SUBSET Players
    PROVE  Cardinality(die(hit)) \in Nat /\ (Cardinality(die(hit)) = 0 <=> die(hit) = {})
<1>1. IsFiniteSet(Players)
  <2>1. PICK a \in Players, b \in Players : Players = {a, b}
    BY ConstantsAssumption
  <2>2. IsFiniteSet({a}) /\ IsFiniteSet({b})
    BY FS_Singleton
  <2>3. IsFiniteSet({a} \cup {b})
    BY <2>2, FS_Union
  <2> QED
    BY <2>1, <2>3
<1>2. IsFiniteSet(die(hit))
  BY <1>1, FS_Subset DEF die
<1> QED
  BY <1>2, FS_CardinalityType, FS_EmptySet

(* A bullet: every tank it kills has room for its explosion.               *)
LEMMA OrderlyBullet ==
    ASSUME Orderly, NEW hit \in SUBSET Players, NEW wall \in BOOLEAN, paintBullet(hit, wall)
    PROVE  Orderly'
<1> USE ThreadsAndEDT DEF Orderly
<1> DEFINE dead == Cardinality(die(hit))
<1>1. /\ pc[EDT] = "loop" /\ counter < size /\ Room(dead)
      /\ slots' = [slots EXCEPT ![counter] = "stopped"] \/ slots' = slots
      /\ todo' = [todo EXCEPT ![EDT] = dead]
      /\ pc' = IF die(hit) = {} THEN pc ELSE [pc EXCEPT ![EDT] = "fire"]
      /\ counter' = counter + 1
      /\ UNCHANGED <<register, size>>
  BY DEF paintBullet
<1>2. dead \in Nat /\ (dead = 0 <=> die(hit) = {})
  BY DeadCounted
<1> HIDE DEF dead
<1>3. /\ \A r \in Procs : r # EDT => pc'[r] = pc[r]
      /\ pc'[EDT] = (IF dead = 0 THEN "loop" ELSE "fire")
      /\ todo'[EDT] = dead
  BY <1>1, <1>2 DEF ListTypeOK
<1>4. \A r \in Procs : InList(r)' <=> InList(r)
  BY <1>1, <1>3 DEF InList
<1>5. ListTypeOK'
  <2>1. slots' \in [Positions -> Kinds]
    BY <1>1 DEF ListTypeOK, Kinds
  <2>2. pc' \in [Procs -> Steps]
    BY <1>1 DEF ListTypeOK, Steps
  <2>3. todo' \in [Procs -> Int] /\ counter' \in Nat
    BY <1>1, <1>2 DEF ListTypeOK
  <2> QED
    BY <1>1, <2>1, <2>2, <2>3 DEF ListTypeOK
<1>6. OneInList'
  BY <1>4 DEF OneInList
<1>7. ReadsCurrent'
  BY <1>1, <1>3 DEF ReadsCurrent
<1>8. HasRoom'
  <2>1. size + (IF \E t \in Threads : pc[t] = "size" THEN 1 ELSE 0) + todo[EDT] + dead
          <= MaxAnimations
    BY <1>1, <1>2, RoomSays
  <2>2. (\E t \in Threads : pc'[t] = "size") <=> (\E t \in Threads : pc[t] = "size")
    BY <1>3
  <2>3. todo[EDT] = 0
    BY <1>1 DEF HasRoom
  <2> QED
    BY <1>1, <1>2, <1>3, <2>1, <2>2, <2>3 DEF HasRoom, Coming, ListTypeOK
<1>9. NoDamage'
  <2>1. \A k \in Positions : slots'[k] = Null => slots[k] = Null
    BY <1>1 DEF ListTypeOK, Null
  <2> QED
    BY <1>1, <1>3, <2>1 DEF NoDamage
<1> QED
  BY <1>5, <1>6, <1>7, <1>8, <1>9

(* Painting an explosion, which may end, keeps the list orderly.            *)
LEMMA OrderlyExplosion ==
    ASSUME Orderly, NEW last \in BOOLEAN, paintExplosion(last)
    PROVE  Orderly'
<1> USE ThreadsAndEDT DEF Orderly
<1>1. /\ pc[EDT] = "loop"
      /\ slots' = [slots EXCEPT ![counter] = "stopped"] \/ slots' = slots
      /\ counter' = counter + 1
      /\ UNCHANGED <<pc, todo, register, size>>
  BY DEF paintExplosion
<1>2. ListTypeOK'
  BY <1>1 DEF ListTypeOK, Kinds
<1>3. OneInList'
  BY <1>1 DEF OneInList, InList
<1>4. ReadsCurrent'
  BY <1>1 DEF ReadsCurrent
<1>5. HasRoom'
  BY <1>1 DEF HasRoom, Coming
<1>6. NoDamage'
  <2>1. \A k \in Positions : slots'[k] = Null => slots[k] = Null
    BY <1>1 DEF ListTypeOK, Null
  <2> QED
    BY <1>1, <2>1 DEF NoDamage
<1> QED
  BY <1>2, <1>3, <1>4, <1>5, <1>6

(* Nobody is adding an element, so that none of those moved up is null.    *)
LEMMA OrderlyRemoveCopy ==
    ASSUME Orderly, ~overlap', removeCopy
    PROVE  Orderly'
<1> USE ThreadsAndEDT DEF Orderly
<1>1. /\ pc[EDT] = "loop" /\ counter < size
      /\ slots' = [k \in Positions |-> IF k \in counter .. size - 2 THEN slots[k + 1] ELSE slots[k]]
      /\ pc' = [pc EXCEPT ![EDT] = "copied"]
      /\ UNCHANGED <<todo, register, size, counter>>
  BY DEF removeCopy
<1>2. \A r \in Procs : ~InList(r)
  BY <1>1, StartsAlone DEF removeCopy, InList
<1>3. /\ \A r \in Procs : r # EDT => pc'[r] = pc[r]
      /\ pc'[EDT] = "copied"
  BY <1>1 DEF ListTypeOK
<1>4. size <= MaxAnimations
  <2>1. \A t \in Threads : pc[t] # "size"
    BY <1>2 DEF InList
  <2> QED
    BY <1>1, <2>1 DEF HasRoom, Coming, ListTypeOK
<1>5. \A k \in counter .. size - 2 : k + 1 \in Positions /\ k + 1 < size
  BY <1>4 DEF Positions, ListTypeOK
<1>6. ListTypeOK'
  <2>1. slots' \in [Positions -> Kinds]
    BY <1>1, <1>5 DEF ListTypeOK
  <2> QED
    BY <1>1, <2>1 DEF ListTypeOK, Steps
<1>7. OneInList'
  BY <1>2, <1>3 DEF OneInList, InList
<1>8. ReadsCurrent'
  BY <1>1, <1>2, <1>3 DEF ReadsCurrent, InList
<1>9. HasRoom'
  <2>1. (\E t \in Threads : pc'[t] = "size") <=> (\E t \in Threads : pc[t] = "size")
    BY <1>3
  <2> QED
    BY <1>1, <1>3, <2>1 DEF HasRoom, Coming
<1>10. NoDamage'
  <2>1. \A k \in Positions : k < size => slots[k] # Null
    BY <1>2 DEF NoDamage, InList
  <2>2. \A k \in Positions : k < size => slots'[k] # Null
    BY <1>1, <1>5, <2>1
  <2> QED
    BY <1>1, <2>2 DEF NoDamage
<1> QED
  BY <1>6, <1>7, <1>8, <1>9, <1>10

(* Reading the size in remove keeps the list orderly.                       *)
LEMMA OrderlyRemoveRead ==
    ASSUME Orderly, removeRead
    PROVE  Orderly'
<1> USE ThreadsAndEDT DEF Orderly
<1>1. /\ pc[EDT] = "copied" /\ pc' = [pc EXCEPT ![EDT] = "shrink"]
      /\ register' = [register EXCEPT ![EDT] = size]
      /\ UNCHANGED <<todo, slots, size, counter>>
  BY DEF removeRead, list
<1>2. /\ \A r \in Procs : r # EDT => pc'[r] = pc[r] /\ register'[r] = register[r]
      /\ pc'[EDT] = "shrink" /\ register'[EDT] = size
  BY <1>1 DEF ListTypeOK
<1>3. \A r \in Procs : InList(r)' <=> InList(r)
  BY <1>1, <1>2 DEF InList
<1>4. ListTypeOK'
  BY <1>1 DEF ListTypeOK, Steps
<1>5. OneInList'
  BY <1>3 DEF OneInList
<1>6. ReadsCurrent'
  BY <1>1, <1>2 DEF ReadsCurrent
<1>7. HasRoom'
  <2>1. (\E t \in Threads : pc'[t] = "size") <=> (\E t \in Threads : pc[t] = "size")
    BY <1>2
  <2> QED
    BY <1>1, <1>2, <2>1 DEF HasRoom, Coming
<1>8. NoDamage'
  BY <1>1, <1>2 DEF NoDamage
<1> QED
  BY <1>4, <1>5, <1>6, <1>7, <1>8

(* The place that is cleared is behind the new size.                       *)
LEMMA OrderlyRemoveStore ==
    ASSUME Orderly, removeStore
    PROVE  Orderly'
<1> USE ThreadsAndEDT DEF Orderly
<1>1. /\ pc[EDT] = "shrink" /\ pc' = [pc EXCEPT ![EDT] = "loop"]
      /\ size' = register[EDT] - 1
      /\ slots' = [slots EXCEPT ![register[EDT] - 1] = Null]
      /\ register' = [register EXCEPT ![EDT] = 0]
      /\ counter' = counter + 1
      /\ UNCHANGED todo
  BY DEF removeStore
<1>2. register[EDT] = size /\ counter < size
  BY <1>1 DEF ReadsCurrent
<1>3. /\ \A r \in Procs : r # EDT => pc'[r] = pc[r] /\ register'[r] = register[r]
      /\ pc'[EDT] = "loop"
  BY <1>1 DEF ListTypeOK
<1>4. size' = size - 1 /\ size' \in Nat
  BY <1>1, <1>2 DEF ListTypeOK
<1>5. \A r \in Procs : ~InList(r)'
  BY <1>1, <1>3 DEF OneInList, InList
<1>6. ListTypeOK'
  <2>1. slots' \in [Positions -> Kinds]
    BY <1>1 DEF ListTypeOK, Kinds
  <2> QED
    BY <1>1, <1>4, <2>1 DEF ListTypeOK, Steps
<1>7. OneInList'
  BY <1>5 DEF OneInList
<1>8. ReadsCurrent'
  BY <1>3, <1>5 DEF ReadsCurrent, InList
<1>9. HasRoom'
  <2>1. (\E t \in Threads : pc'[t] = "size") <=> (\E t \in Threads : pc[t] = "size")
    BY <1>3
  <2> QED
    BY <1>1, <1>3, <1>4, <2>1 DEF HasRoom, Coming, ListTypeOK
<1>10. NoDamage'
  <2> SUFFICES ASSUME NEW k \in Positions, k < size', slots'[k] = Null PROVE FALSE
    BY DEF NoDamage
  <2>1. k \in Int /\ k < size /\ k # size - 1
    BY <1>4 DEF Positions, ListTypeOK
  <2>2. slots[k] = Null
    BY <1>1, <1>2, <2>1 DEF ListTypeOK
  <2>3. PICK r \in Procs : pc[r] = "store" /\ register[r] = k
    BY <2>1, <2>2 DEF NoDamage
  <2> QED
    BY <1>1, <2>3 DEF OneInList, InList
<1> QED
  BY <1>6, <1>7, <1>8, <1>9, <1>10

(* ListInv holds when the game starts.                                      *)
LEMMA OrderlyInit == Init => ListInv
<1> SUFFICES ASSUME Init PROVE ListInv
  OBVIOUS
<1> USE ThreadsAndEDT DEF Init
<1>1. ListTypeOK
  BY DEF ListTypeOK, Steps, Kinds
<1>2. OneInList /\ ReadsCurrent
  BY DEF OneInList, InList, ReadsCurrent
<1>3. HasRoom
  BY DEF HasRoom, Coming
<1>4. NoDamage
  BY DEF NoDamage, Positions
<1> QED
  BY <1>1, <1>2, <1>3, <1>4 DEF ListInv, Orderly

(* Every step keeps ListInv.                                                *)
LEMMA OrderlyStep == ListInv /\ [Next]_vars => ListInv'
<1> SUFFICES ASSUME ListInv, [Next]_vars PROVE ListInv'
  OBVIOUS
<1>1. overlap' \in BOOLEAN /\ (overlap => overlap')
  BY DEF ListInv, Next, vars, addRead, addSize, addStore, run, noFire, paintStart, paintNull,
     paintPlayers, paintBullet, paintExplosion, removeCopy, removeRead, removeStore, StartListStep
<1> SUFFICES ASSUME ~overlap' PROVE Orderly'
  BY <1>1 DEF ListInv
<1>2. Orderly
  BY <1>1 DEF ListInv
<1>3. CASE \E q \in Procs : addRead(q) \/ addSize(q) \/ addStore(q)
  BY <1>2, <1>3, OrderlyAddRead, OrderlyAddSize, OrderlyAddStore
<1>4. CASE \E t \in Threads : run(t) \/ noFire(t)
  BY <1>2, <1>4, OrderlyRun
<1>5. CASE paintStart \/ paintNull \/ paintPlayers
  BY <1>2, <1>5, OrderlyPaintMoves
<1>6. CASE \E hit \in SUBSET Players, wall \in BOOLEAN : paintBullet(hit, wall)
  BY <1>2, <1>6, OrderlyBullet
<1>7. CASE \E last \in BOOLEAN : paintExplosion(last)
  BY <1>2, <1>7, OrderlyExplosion
<1>8. CASE removeCopy \/ removeRead \/ removeStore
  BY <1>2, <1>8, OrderlyRemoveCopy, OrderlyRemoveRead, OrderlyRemoveStore
<1>9. CASE UNCHANGED vars
  BY <1>2, <1>9 DEF vars, list, Orderly, ListTypeOK, OneInList, InList, ReadsCurrent, HasRoom,
     Coming, NoDamage
<1> QED
  BY <1>3, <1>4, <1>5, <1>6, <1>7, <1>8, <1>9 DEF Next

(* Unless two threads have changed the list at once, an element is null    *)
(* only while the thread that adds it has yet to store it, for any number  *)
(* of run threads, players' bullets and elements                           *)
(* (AnimationPanel.java:74-82, 135-137).                                   *)
THEOREM DamageCorrect == Spec => []DamageOnlyByOverlap
<1>1. ListInv => DamageOnlyByOverlap
  BY DEF ListInv, Orderly, NoDamage, DamageOnlyByOverlap
<1> QED
  BY <1>1, OrderlyInit, OrderlyStep, PTL DEF Spec
=============================================================================
