------------------------------ MODULE DBFormat ------------------------------
(***************************************************************************)
(* Internal keys of leveldb (db/dbformat.h, db/dbformat.cc): a user key,   *)
(* the sequence number of the write that made it, and whether it holds a   *)
(* value or a deletion.  User keys are numbers in their order.  The value  *)
(* stored under an internal key is determined by its sequence number, so   *)
(* an entry of a table is its internal key.                                *)
(***************************************************************************)
EXTENDS Integers, FiniteSets, Accumulation

CONSTANTS kMaxSequenceNumber, \* larger than every sequence number in use
          NULL                \* the null pointer, or an empty optional

kTypeDeletion == 0
kTypeValue == 1
kValueTypeForSeek == kTypeValue

InternalKey(u, s, t) == [user |-> u, seq |-> s, type |-> t]

(* The 64-bit trailer of an internal key: 8 bits of type, 56 of sequence. *)
PackSequenceAndType(s, t) == s * 256 + t
Trailer(k) == PackSequenceAndType(k.seq, k.type)

(* What ParseInternalKey reads back from a trailer; the caller gets FALSE  *)
(* when the type byte is above kTypeValue.                                 *)
ParseTrailer(n) ==
  [seq |-> n \div 256, type |-> n % 256, ok |-> n % 256 <= kTypeValue]

(* Compare(a, b) < 0: user keys ascend, then sequence numbers descend.     *)
Before(a, b) ==
  \/ a.user < b.user
  \/ a.user = b.user /\ Trailer(a) > Trailer(b)

(* The key a lookup of u at snapshot s seeks to.                           *)
LookupKey(u, s) == InternalKey(u, s, kValueTypeForSeek)
SeekStart(u) == InternalKey(u, kMaxSequenceNumber, kValueTypeForSeek)
SeekEnd(u) == InternalKey(u, 0, 0)

(* The elements of a set in a strict total order. *)
Sorted(S, Less(_, _)) ==
  [i \in 1..Cardinality(S) |->
     CHOOSE x \in S : Cardinality({y \in S : Less(y, x)}) = i - 1]

Least(S, Less(_, _)) == CHOOSE x \in S : \A y \in S \ {x} : Less(x, y)

(* The first entry at or after a key: what Seek finds in sorted entries.   *)
SeekEntry(entries, k) ==
  LET later == {e \in entries : ~Before(e, k)}
  IN  IF later = {} THEN NULL ELSE Least(later, Before)

=============================================================================
