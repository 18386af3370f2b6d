------------------------------ MODULE TankGame ------------------------------
(***************************************************************************)
(* The tank game: two run threads fire bullets for both tanks, and the     *)
(* event dispatch thread paints.  A paint walks through the animations,    *)
(* moves the bullets, books their hits, drops what has stopped, and then   *)
(* takes the lives of the players.  The list of animations is an ArrayList *)
(* that all three threads change without a lock; its operations are split  *)
(* where they read and write the size and the elements.                    *)
(*                                                                         *)
(* Where tanks and walls are is left out: a painted bullet hits a wall,    *)
(* one tank, both or none.  A health of 40 is one hit here.                *)
(***************************************************************************)
EXTENDS Integers, FiniteSets, TLC

CONSTANTS
    Threads,        \* the threads in run(): one of KeyboardPanel, one of GameFrame
    Players,
    Health, Lives,  \* hits a life takes, and lives
    MaxAnimations,  \* bound: elements of the list
    MaxUnseen       \* bound: hits of a dead tank before a paint takes the life

EDT == "EDT"    \* the painting thread

ASSUME ConstantsAssumption ==
    /\ \E p, q \in Players : p # q /\ Players = {p, q}
    /\ EDT \notin Threads
    /\ Health \in Nat \ {0}
    /\ Lives \in Nat \ {0}
    /\ MaxAnimations \in Nat \ {0}
    /\ MaxUnseen \in Nat

VARIABLES
    pc,                         \* of each run thread and of the painting thread
    todo,                       \* run: tanks still to fire; paint: explosions still to add
    register,                   \* the size a thread has read
    slots, size,                \* the elements of the ArrayList, and its size
    counter,                    \* of the loop in paintComponent
    health, lives, point, end,  \* the Players
    overlap                     \* history: two threads have changed the list at once

list == <<slots, size>>
players == <<health, lives, point, end>>
vars == <<pc, todo, register, list, counter, players, overlap>>

Procs == Threads \cup {EDT}
Null == "null"
Positions == 0 .. MaxAnimations - 1
Opponent(p) == CHOOSE q \in Players : q # p

TypeOK ==
    /\ pc \in [Procs -> {"top", "fire", "loop", "size", "store", "copied", "shrink"}]
    /\ todo \in [Procs -> 0..2]
    /\ register \in [Procs -> 0..MaxAnimations]
    /\ slots \in [Positions -> {Null, "bullet", "explosion", "stopped"}]
    /\ size \in 0..MaxAnimations
    /\ counter \in 0..MaxAnimations
    /\ health \in [Players -> -MaxUnseen..Health]
    /\ lives \in [Players -> Int]
    /\ point \in [Players -> Nat]
    /\ end \in [Players -> BOOLEAN]
    /\ overlap \in BOOLEAN

Init ==
    /\ pc = [q \in Procs |-> "top"]
    /\ todo = [q \in Procs |-> 0]
    /\ register = [q \in Procs |-> 0]
    /\ slots = [k \in Positions |-> Null]
    /\ size = 0 /\ counter = 0
    /\ health = [p \in Players |-> Health]
    /\ lives = [p \in Players |-> Lives]
    /\ point = [p \in Players |-> 0]
    /\ end = [p \in Players |-> FALSE]
    /\ overlap = FALSE

Ended == \E p \in Players : end[p]

-----------------------------------------------------------------------------
(* ArrayList.add, of every thread. *)

InList(q) == pc[q] \in {"size", "store", "copied", "shrink"}
StartListStep(q) == overlap' = (overlap \/ \E r \in Procs \ {q} : InList(r))

\* Bound: there is room for n more elements besides those on their way.
Adding == {t \in Threads : pc[t] = "size"}
Room(n) == \A s \in {size} \cup {register[t] + 1 : t \in Adding} :
              s + Cardinality(Adding) + todo[EDT] + n <= MaxAnimations

\* Where a thread goes on when it has added an element.
AfterAdd(q) == IF todo[q] > 1 THEN "fire" ELSE IF q = EDT THEN "loop" ELSE "top"

addRead(q) ==
    /\ pc[q] = "fire"
    /\ q = EDT \/ Room(1)
    /\ register' = [register EXCEPT ![q] = size]
    /\ pc' = [pc EXCEPT ![q] = "size"]
    /\ StartListStep(q)
    /\ UNCHANGED <<todo, list, counter, players>>

addSize(q) ==
    /\ pc[q] = "size"
    /\ size' = register[q] + 1
    /\ pc' = [pc EXCEPT ![q] = "store"]
    /\ UNCHANGED <<todo, register, slots, counter, players, overlap>>

addStore(q) ==
    /\ pc[q] = "store"
    /\ slots' = [slots EXCEPT ![register[q]] = IF q = EDT THEN "explosion" ELSE "bullet"]
    /\ pc' = [pc EXCEPT ![q] = AfterAdd(q)]
    /\ todo' = [todo EXCEPT ![q] = @ - 1]
    /\ register' = [register EXCEPT ![q] = 0]
    /\ UNCHANGED <<size, counter, players, overlap>>

-----------------------------------------------------------------------------
(* A run thread: one round tests the end once and may fire for both tanks. *)

run(t) ==
    /\ pc[t] = "top"
    /\ ~Ended
    /\ pc' = [pc EXCEPT ![t] = "fire"]
    /\ todo' = [todo EXCEPT ![t] = 2]
    /\ UNCHANGED <<register, list, counter, players, overlap>>

\* The key of this tank is not pressed.
noFire(t) ==
    /\ pc[t] = "fire"
    /\ pc' = [pc EXCEPT ![t] = AfterAdd(t)]
    /\ todo' = [todo EXCEPT ![t] = @ - 1]
    /\ UNCHANGED <<register, list, counter, players, overlap>>

-----------------------------------------------------------------------------
(* The painting thread. *)

paintStart ==
    /\ pc[EDT] = "top"
    /\ pc' = [pc EXCEPT ![EDT] = "loop"]
    /\ counter' = 0
    /\ UNCHANGED <<todo, register, list, players, overlap>>

\* An element that is null ends the paint with an exception.
paintNull ==
    /\ pc[EDT] = "loop" /\ counter < size
    /\ slots[counter] = Null
    /\ pc' = [pc EXCEPT ![EDT] = "top"]
    /\ UNCHANGED <<todo, register, list, counter, players, overlap>>

\* hitTank, die and earnPoint for the tanks that are hit.
hitTank(hit) == health' = [p \in Players |-> IF p \in hit THEN health[p] - 1 ELSE health[p]]
\* Bug: a tank without health dies again.
die_Again(hit) == {p \in hit : health[p] - 1 <= 0}
die(hit) == {p \in hit : health[p] - 1 = 0}
earnPoint(dead) == point' = [p \in Players |-> IF Opponent(p) \in dead THEN point[p] + 1 ELSE point[p]]

\* A bullet moves and hits these tanks and perhaps a wall; each tank that
\* dies gets an explosion.
paintBullet(hit, wall) ==
    /\ pc[EDT] = "loop" /\ counter < size
    /\ slots[counter] = "bullet"
    /\ \A p \in hit : health[p] > -MaxUnseen
    /\ Room(Cardinality(die(hit)))
    /\ IF hit # {} \/ wall THEN slots' = [slots EXCEPT ![counter] = "stopped"] ELSE UNCHANGED slots
    /\ hitTank(hit)
    /\ earnPoint(die(hit))
    /\ todo' = [todo EXCEPT ![EDT] = Cardinality(die(hit))]
    /\ pc' = IF die(hit) = {} THEN pc ELSE [pc EXCEPT ![EDT] = "fire"]
    /\ counter' = counter + 1
    /\ UNCHANGED <<register, size, lives, end, overlap>>

\* An explosion shows its next frame, or has shown the last.
paintExplosion(last) ==
    /\ pc[EDT] = "loop" /\ counter < size
    /\ slots[counter] = "explosion"
    /\ IF last THEN slots' = [slots EXCEPT ![counter] = "stopped"] ELSE UNCHANGED slots
    /\ counter' = counter + 1
    /\ UNCHANGED <<pc, todo, register, size, players, overlap>>

\* ArrayList.remove of a stopped animation: the elements behind it move up,
\* the size is read, and written with null in the place it leaves.  The
\* loop goes on behind the element that took the place.
removeCopy ==
    /\ pc[EDT] = "loop" /\ counter < size
    /\ slots[counter] = "stopped"
    /\ slots' = [k \in Positions |-> IF k \in counter .. size - 2 THEN slots[k + 1] ELSE slots[k]]
    /\ pc' = [pc EXCEPT ![EDT] = "copied"]
    /\ StartListStep(EDT)
    /\ UNCHANGED <<todo, register, size, counter, players>>

removeRead ==
    /\ pc[EDT] = "copied"
    /\ register' = [register EXCEPT ![EDT] = size]
    /\ pc' = [pc EXCEPT ![EDT] = "shrink"]
    /\ UNCHANGED <<todo, list, counter, players, overlap>>

\* Bug: the place is cleared and the size stays.
removeStore_KeepsSize ==
    /\ pc[EDT] = "shrink"
    /\ slots' = [slots EXCEPT ![register[EDT] - 1] = Null]
    /\ register' = [register EXCEPT ![EDT] = 0]
    /\ pc' = [pc EXCEPT ![EDT] = "loop"]
    /\ counter' = counter + 1
    /\ UNCHANGED <<size, todo, players, overlap>>

removeStore ==
    /\ pc[EDT] = "shrink"
    /\ size' = register[EDT] - 1
    /\ slots' = [slots EXCEPT ![register[EDT] - 1] = Null]
    /\ register' = [register EXCEPT ![EDT] = 0]
    /\ pc' = [pc EXCEPT ![EDT] = "loop"]
    /\ counter' = counter + 1
    /\ UNCHANGED <<todo, players, overlap>>

\* paintHealth takes a life and refills the health, paintLives sees the end.
paintHealth ==
    /\ lives' = [p \in Players |-> IF health[p] <= 0 THEN lives[p] - 1 ELSE lives[p]]
    /\ health' = [p \in Players |-> IF health[p] <= 0 THEN Health ELSE health[p]]
paintLives == end' = [p \in Players |-> end[p] \/ lives'[p] = 0]

paintPlayers ==
    /\ pc[EDT] = "loop" /\ counter >= size
    /\ paintHealth /\ paintLives
    /\ pc' = [pc EXCEPT ![EDT] = "top"]
    /\ counter' = 0
    /\ UNCHANGED <<todo, register, list, point, overlap>>

Next ==
    \/ \E q \in Procs : addRead(q) \/ addSize(q) \/ addStore(q)
    \/ \E t \in Threads : run(t) \/ noFire(t)
    \/ paintStart \/ paintNull \/ paintPlayers
    \/ \E hit \in SUBSET Players, wall \in BOOLEAN : paintBullet(hit, wall)
    \/ \E last \in BOOLEAN : paintExplosion(last)
    \/ removeCopy \/ removeRead \/ removeStore

Spec == Init /\ [][Next]_vars

\* No thread and no player is told apart from the others.
Symmetric == Permutations(Threads) \cup Permutations(Players)

-----------------------------------------------------------------------------
(* Properties *)

\* A player's points are the lives the other has lost, the one included that
\* the next paint takes: no death is booked twice, however many bullets hit
\* a tank in one paint, and none is missed.
ScoreMatchesLives ==
    \A p \in Players :
        point[Opponent(p)] = (Lives - lives[p]) + (IF health[p] <= 0 THEN 1 ELSE 0)

\* The test for exactly 0 lives is never stepped over.
EndNoticed == \A p \in Players : lives[p] <= 0 => end[p]

\* An element is null only while the thread that adds it has not stored it:
\* otherwise every later paint fails there, and no life is taken any more.
\* It takes two threads that change the list at once to leave one for good.
DamageOnlyByOverlap ==
    overlap \/ \A k \in Positions :
        k < size /\ slots[k] = Null => \E q \in Procs : pc[q] = "store" /\ register[q] = k
=============================================================================
