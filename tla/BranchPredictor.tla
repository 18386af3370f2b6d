----------------------------- MODULE BranchPredictor ---------------------------
(* Computer Organization/Project 1/sys2.java: dynamic branch prediction with a *)
(* buffer of two-bit counters (PB) and a branch target buffer (BTB).  One step *)
(* per line of the trace.                                                      *)
EXTENDS Integers

CONSTANTS PB_range,       \* 2 ^ PB_offset_length, the entries an index reaches
          BTB_range,      \* 2 ^ BTB_offset_length
          Addresses,      \* instruction addresses
          TagBits,        \* the bits Integer.parseInt accepts, 31 in the source
          MaxBranches     \* bound of the model: the branches of a trace

ASSUME BufferAssumption ==
    /\ {PB_range, BTB_range} \subseteq Nat \ {0}
    /\ {PB_range, BTB_range} \subseteq {2 ^ k : k \in 0 .. 30}
    /\ Addresses \subseteq Nat
    /\ TagBits \in Nat
    /\ MaxBranches \in Nat

Outcomes == {"T", "N"}
Directions == {"forward", "backward", "self"}   \* of the target from the branch
NoEntry == -1                                   \* the entry is null

PBIndexes  == 0 .. PB_range - 1
BTBIndexes == 0 .. BTB_range - 1

VARIABLES
    PB_buffer,     \* the two-bit counter of each entry
    BTB_buffer,    \* the tag of each entry; valid is 1 in every entry stored
    branches, forward_branches, forward_taken_branches,
    backward_branches, backward_taken_branches, mispredictions,
    hit, miss,     \* the BTB accesses of the branches predicted taken
    state          \* "running"; "printed" the statistics; or the exception:
                   \* "short" at 126-127, "parse" at 140-144, "null" at 152

buffers == <<PB_buffer, BTB_buffer>>
directions == <<forward_branches, forward_taken_branches,
                backward_branches, backward_taken_branches>>
branchVars == <<buffers, branches, directions, mispredictions, hit, miss, state>>

BranchInit ==
    /\ PB_buffer = [i \in PBIndexes |-> 1]
    /\ BTB_buffer = [i \in BTBIndexes |-> NoEntry]
    /\ branches = 0
    /\ forward_branches = 0 /\ forward_taken_branches = 0
    /\ backward_branches = 0 /\ backward_taken_branches = 0
    /\ mispredictions = 0
    /\ hit = 0 /\ miss = 0
    /\ state = "running"

One(condition) == IF condition THEN 1 ELSE 0

(* toBinaryString(n) has a bit at least and no leading zeros; it has fewer     *)
(* bits than the offset of a buffer of range r.                                *)
TooShort(n, r) == 2 * n < r /\ r > 2

(* Every line is decoded, also one that is no branch.                          *)
Decodes(pc) == ~TooShort(pc, PB_range) /\ ~TooShort(pc, BTB_range)

PBIndex(pc)  == pc % PB_range
BTBIndex(pc) == pc % BTB_range
Tag(pc)      == pc \div BTB_range

(* parseInt accepts neither "", which a buffer of one entry or an address with *)
(* no bits beyond the offset gives, nor a tag of more bits than an int has.    *)
Parses(pc) ==
    /\ PB_range > 1 /\ BTB_range > 1
    /\ Tag(pc) > 0
    /\ Tag(pc) < 2 ^ TagBits

takenPrediction(val)    == val \in {2, 3}
notTakenPrediction(val) == val \in {0, 1}

predictorState(val) == IF val < 0 THEN 0 ELSE IF val > 3 THEN 3 ELSE val

PredictedTaken(pc) == takenPrediction(PB_buffer[PBIndex(pc)])

\* Mutant of Mispredicted: both outcomes are compared with "predicted taken".
Mispredicted_SameTest(pc, outcome) ==
    ~takenPrediction(PB_buffer[PBIndex(pc)])

Mispredicted(pc, outcome) ==
    \/ outcome = "T" /\ ~takenPrediction(PB_buffer[PBIndex(pc)])
    \/ outcome = "N" /\ ~notTakenPrediction(PB_buffer[PBIndex(pc)])

\* Mutant of CountDirection: every taken branch counts as a taken forward branch.
CountDirection_TakenForward(outcome, direction) ==
    /\ forward_branches' = forward_branches + One(direction = "forward")
    /\ forward_taken_branches' = forward_taken_branches + One(outcome = "T")
    /\ backward_branches' = backward_branches + One(direction = "backward")
    /\ backward_taken_branches' =
          backward_taken_branches + One(direction = "backward" /\ outcome = "T")

CountDirection(outcome, direction) ==
    /\ forward_branches' = forward_branches + One(direction = "forward")
    /\ forward_taken_branches' =
          forward_taken_branches + One(direction = "forward" /\ outcome = "T")
    /\ backward_branches' = backward_branches + One(direction = "backward")
    /\ backward_taken_branches' =
          backward_taken_branches + One(direction = "backward" /\ outcome = "T")

\* Mutant of Train: only a branch predicted taken gets its BTB entry.
Train_PredictedOnly(pc, outcome) ==
    /\ PB_buffer' = [PB_buffer EXCEPT ![PBIndex(pc)] =
                        predictorState(IF outcome = "T" THEN @ + 1 ELSE @ - 1)]
    /\ BTB_buffer' = [BTB_buffer EXCEPT ![BTBIndex(pc)] =
                        IF outcome = "T" /\ PredictedTaken(pc) THEN Tag(pc) ELSE @]

(* The counter follows the outcome and a taken branch gets its BTB entry       *)
(* (177-190).                                                                  *)
Train(pc, outcome) ==
    /\ PB_buffer' = [PB_buffer EXCEPT ![PBIndex(pc)] =
                        predictorState(IF outcome = "T" THEN @ + 1 ELSE @ - 1)]
    /\ BTB_buffer' = [BTB_buffer EXCEPT ![BTBIndex(pc)] = IF outcome = "T" THEN Tag(pc) ELSE @]

NullEntry(pc) == PredictedTaken(pc) /\ BTB_buffer[BTBIndex(pc)] = NoEntry

Branch(pc, outcome, direction) ==
    /\ state = "running"
    /\ branches < MaxBranches
    /\ Decodes(pc) /\ Parses(pc) /\ ~NullEntry(pc)
    /\ branches' = branches + 1
    /\ LET found == BTB_buffer[BTBIndex(pc)] = Tag(pc)
       IN  /\ hit' = hit + One(PredictedTaken(pc) /\ found)
           /\ miss' = miss + One(PredictedTaken(pc) /\ ~found)
    /\ mispredictions' = mispredictions + One(Mispredicted(pc, outcome))
    /\ Train(pc, outcome)
    /\ CountDirection(outcome, direction)
    /\ UNCHANGED state

(* An exception of a line that cannot be decoded, a branch or not.             *)
LineFails(pc) ==
    /\ state = "running"
    /\ ~Decodes(pc)
    /\ state' = "short"
    /\ UNCHANGED <<buffers, branches, directions, mispredictions, hit, miss>>

(* An exception of a branch, after it has been counted (137).                  *)
BranchFails(pc) ==
    /\ state = "running"
    /\ branches < MaxBranches
    /\ Decodes(pc)
    /\ branches' = branches + 1
    /\ \/ ~Parses(pc) /\ state' = "parse"
       \/ Parses(pc) /\ NullEntry(pc) /\ state' = "null"
    /\ UNCHANGED <<buffers, directions, mispredictions, hit, miss>>

PrintBranches ==
    /\ state = "running"
    /\ state' = "printed"
    /\ UNCHANGED <<buffers, branches, directions, mispredictions, hit, miss>>

BranchNext ==
    \/ \E pc \in Addresses, outcome \in Outcomes, direction \in Directions :
           Branch(pc, outcome, direction)
    \/ \E pc \in Addresses : LineFails(pc) \/ BranchFails(pc)
    \/ PrintBranches

BranchSpec == BranchInit /\ [][BranchNext]_branchVars

-------------------------------------------------------------------------------
(* Properties *)

(* Every variable has its type: the counters of the PB stay between 0 and 3.   *)
BranchTypeOK ==
    /\ PB_buffer \in [PBIndexes -> 0 .. 3]
    /\ BTB_buffer \in [BTBIndexes -> Nat \cup {NoEntry}]
    /\ branches \in Nat
    /\ {forward_branches, forward_taken_branches} \subseteq Nat
    /\ {backward_branches, backward_taken_branches} \subseteq Nat
    /\ {mispredictions, hit, miss} \subseteq Nat
    /\ state \in {"running", "printed", "short", "parse", "null"}

(* The entry of the BTB that a predicted-taken branch looks up is never null,  *)
(* although line 152 does not test for it.                                     *)
NoNullAccess == state # "null"

(* The tag and the place of a BTB entry name the one address that was stored,  *)
(* so that two branches that share the entry are never taken for each other.   *)
EntriesNameBranches ==
    \A b \in BTBIndexes : BTB_buffer[b] # NoEntry => BTB_buffer[b] * BTB_range + b \in Addresses

(* The printed numbers fit together: a branch is mispredicted exactly when     *)
(* only one of "predicted taken" (a BTB access) and "taken" holds.  The taken  *)
(* branches that go neither forward nor backward are not printed and are only  *)
(* bounded.                                                                    *)
MispredictionsBalance ==
    LET accesses == hit + miss
        takenMin == forward_taken_branches + backward_taken_branches
        takenMax == takenMin + branches - forward_branches - backward_branches
    IN  /\ mispredictions <= accesses + takenMax
        /\ accesses <= mispredictions + takenMax
        /\ takenMin <= mispredictions + accesses
        /\ mispredictions + accesses + takenMin <= 2 * branches

(* On the same trace this program and sys1.java count the same branches.  The  *)
(* branch at which this program fails is counted, but not by direction.        *)
Static == INSTANCE StaticPredictor WITH
    branches       <- branches - One(state \in {"parse", "null"}),
    mispredictions <- forward_taken_branches + backward_branches - backward_taken_branches,
    state          <- IF state = "printed" THEN "printed" ELSE "running"

CountsAsStatic == Static!Spec

===============================================================================
