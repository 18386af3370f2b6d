--------------------------- MODULE OrderedCursor ----------------------------
(***************************************************************************)
(* What an iterator over a database promises (include/leveldb/iterator.h): *)
(* a position in the entries a snapshot shows, in the order of their user  *)
(* keys, moved by the five operations.                                     *)
(***************************************************************************)
EXTENDS Integers

CONSTANTS Users, NULL

VARIABLES shown, \* the visible entries: user key and sequence number
          at     \* the entry the iterator is at, or NULL

Least(S) == IF S = {} THEN NULL ELSE CHOOSE e \in S : \A x \in S : e.user <= x.user
Greatest(S) == IF S = {} THEN NULL ELSE CHOOSE e \in S : \A x \in S : e.user >= x.user

Init == at = NULL

SeekToFirst == at' = Least(shown)
SeekToLast == at' = Greatest(shown)
Seek(u) == at' = Least({e \in shown : e.user >= u})
Next == at # NULL /\ at' = Least({e \in shown : e.user > at.user})
Prev == at # NULL /\ at' = Greatest({e \in shown : e.user < at.user})

Step == SeekToFirst \/ SeekToLast \/ (\E u \in Users : Seek(u)) \/ Next \/ Prev

Spec == Init /\ [][Step /\ UNCHANGED shown]_<<shown, at>>

=============================================================================
