----------------------------- MODULE StaticPredictor ---------------------------
(* Computer Organization/Project 1/sys1.java: static branch prediction.  A     *)
(* forward branch is predicted not taken and a backward one taken.  One step   *)
(* per branch of the trace; lines marked "-" change nothing.                   *)
EXTENDS Naturals

CONSTANT MaxBranches       \* bound of the model: the branches of a trace

Outcomes == {"T", "N"}
Directions == {"forward", "backward", "self"}   \* of the target from the branch

VARIABLES branches, forward_branches, forward_taken_branches,
          backward_branches, backward_taken_branches, mispredictions,
          state            \* "running"; "printed" the statistics

directions == <<forward_branches, forward_taken_branches,
                backward_branches, backward_taken_branches>>
vars == <<branches, directions, mispredictions, state>>

Init ==
    /\ branches = 0
    /\ forward_branches = 0 /\ forward_taken_branches = 0
    /\ backward_branches = 0 /\ backward_taken_branches = 0
    /\ mispredictions = 0
    /\ state = "running"

One(condition) == IF condition THEN 1 ELSE 0

CountDirection(outcome, direction) ==
    /\ forward_branches' = forward_branches + One(direction = "forward")
    /\ forward_taken_branches' =
          forward_taken_branches + One(direction = "forward" /\ outcome = "T")
    /\ backward_branches' = backward_branches + One(direction = "backward")
    /\ backward_taken_branches' =
          backward_taken_branches + One(direction = "backward" /\ outcome = "T")

(* A branch to its own address is predicted neither way.                       *)
Mispredicted(outcome, direction) ==
    \/ direction = "forward" /\ outcome = "T"
    \/ direction = "backward" /\ outcome = "N"

Branch(outcome, direction) ==
    /\ state = "running"
    /\ branches < MaxBranches
    /\ branches' = branches + 1
    /\ CountDirection(outcome, direction)
    /\ mispredictions' = mispredictions + One(Mispredicted(outcome, direction))
    /\ UNCHANGED state

EndOfTrace ==
    /\ state = "running"
    /\ state' = "printed"
    /\ UNCHANGED <<branches, directions, mispredictions>>

Next ==
    \/ \E outcome \in Outcomes, direction \in Directions : Branch(outcome, direction)
    \/ EndOfTrace

Spec == Init /\ [][Next]_vars

===============================================================================
