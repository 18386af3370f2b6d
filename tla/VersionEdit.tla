---------------------------- MODULE VersionEdit -----------------------------
(***************************************************************************)
(* The records of a MANIFEST: a VersionEdit as it is filled, written and   *)
(* read back (db/version_edit.h, db/version_edit.cc).  Keys and the        *)
(* comparator's name are byte sequences.                                   *)
(***************************************************************************)
EXTENDS Coding, FiniteSets

CONSTANTS Names, Keys,   \* byte sequences
          Numbers,       \* file numbers and sequence numbers set
          kNumLevels,
          MaxFields      \* fields set in an edit

VARIABLE edit

kComparator == 1
kLogNumber == 2
kNextFileNumber == 3
kLastSequence == 4
kCompactPointer == 5
kDeletedFile == 6
kNewFile == 7
kPrevLogNumber == 9

(* A number that is not set is the empty sequence.  Clear leaves the       *)
(* compaction pointers as they are.                                        *)
Clear(e) == [comparator |-> <<>>, log |-> <<>>, prevLog |-> <<>>, nextFile |-> <<>>,
             last |-> <<>>, pointers |-> e.pointers, deleted |-> {}, added |-> <<>>]
New == Clear([pointers |-> <<>>])

Init == edit = New

Room == Cardinality(edit.deleted) + Len(edit.pointers) + Len(edit.added)
          + Cardinality({f \in {"comparator", "log", "prevLog", "nextFile", "last"} :
                           edit[f] # <<>>}) < MaxFields

Set(field, value) ==
  /\ Room
  /\ edit' = [edit EXCEPT ![field] = <<value>>]

SetCompactPointer(level, key) ==
  /\ Room
  /\ edit' = [edit EXCEPT !.pointers = Append(@, <<level, key>>)]

AddFile(level, number, size, smallest, largest) ==
  /\ Room
  /\ edit' = [edit EXCEPT !.added = Append(@, <<level, number, size, smallest, largest>>)]

DeleteFile(level, number) ==
  /\ Room
  /\ edit' = [edit EXCEPT !.deleted = @ \cup {<<level, number>>}]

Concat(ss) == Accumulate(LAMBDA all, s : all \o s, <<>>, ss)
Each(list, Encoded(_)) == Concat([i \in DOMAIN list |-> Encoded(list[i])])
Ordered(S) == (* a std::set of pairs, in order *)
  LET before(a, b) == a[1] < b[1] \/ (a[1] = b[1] /\ a[2] < b[2])
  IN  [i \in 1..Cardinality(S) |->
         CHOOSE a \in S : Cardinality({b \in S : before(b, a)}) = i - 1]

EncodeTo(e) ==
  LET number(tag, field) == Each(field, LAMBDA v : EncodeVarint(tag) \o EncodeVarint(v))
  IN  Concat(<<
        Each(e.comparator,
             LAMBDA name : EncodeVarint(kComparator) \o PutLengthPrefixedSlice(name)),
        number(kLogNumber, e.log), number(kPrevLogNumber, e.prevLog),
        number(kNextFileNumber, e.nextFile), number(kLastSequence, e.last),
        Each(e.pointers, LAMBDA p : Concat(<<EncodeVarint(kCompactPointer),
               EncodeVarint(p[1]), PutLengthPrefixedSlice(p[2])>>)),
        Each(Ordered(e.deleted), LAMBDA d : Concat(<<EncodeVarint(kDeletedFile),
               EncodeVarint(d[1]), EncodeVarint(d[2])>>)),
        Each(e.added, LAMBDA f : Concat(<<EncodeVarint(kNewFile),
               EncodeVarint(f[1]), EncodeVarint(f[2]), EncodeVarint(f[3]),
               PutLengthPrefixedSlice(f[4]), PutLengthPrefixedSlice(f[5])>>))>>)

(* The fields that follow a tag, NULL for one that is unknown. *)
Layout(tag) ==
  CASE tag = kComparator -> <<"slice">>
    [] tag \in {kLogNumber, kPrevLogNumber, kNextFileNumber, kLastSequence} -> <<"varint64">>
    [] tag = kCompactPointer -> <<"varint32", "slice">>
    [] tag = kDeletedFile -> <<"varint32", "varint64">>
    [] tag = kNewFile -> <<"varint32", "varint64", "varint64", "slice", "slice">>
    [] OTHER -> <<>>

HasLevel(tag) == tag \in {kCompactPointer, kDeletedFile, kNewFile}

With(e, tag, v) ==
  CASE tag = kComparator     -> [e EXCEPT !.comparator = v]
    [] tag = kLogNumber      -> [e EXCEPT !.log = v]
    [] tag = kPrevLogNumber  -> [e EXCEPT !.prevLog = v]
    [] tag = kNextFileNumber -> [e EXCEPT !.nextFile = v]
    [] tag = kLastSequence   -> [e EXCEPT !.last = v]
    [] tag = kCompactPointer -> [e EXCEPT !.pointers = Append(@, v)]
    [] tag = kDeletedFile    -> [e EXCEPT !.deleted = @ \cup {v}]
    [] tag = kNewFile        -> [e EXCEPT !.added = Append(@, v)]

RECURSIVE DecodeRest(_, _)
DecodeRest(e, input) ==
  Once(GetVarint32(input), LAMBDA tag :
    IF ~tag.ok THEN [ok |-> input = <<>>, edit |-> e]
    ELSE IF Layout(tag.value) = <<>> THEN [ok |-> FALSE, edit |-> e]
    ELSE Once(Fields(tag.rest, Layout(tag.value)), LAMBDA f :
           IF f.ok /\ (HasLevel(tag.value) => f.value[1] < kNumLevels)
           THEN DecodeRest(With(e, tag.value, f.value), f.rest)
           ELSE [ok |-> FALSE, edit |-> e]))

DecodeFrom(e, src) == DecodeRest(Clear(e), src)

Next ==
  \/ \E name \in Names : Set("comparator", name)
  \/ \E f \in {"log", "prevLog", "nextFile", "last"}, n \in Numbers : Set(f, n)
  \/ \E level \in 0..kNumLevels - 1, key \in Keys : SetCompactPointer(level, key)
  \/ \E level \in 0..kNumLevels - 1, n \in Numbers, k, m \in Keys : AddFile(level, n, n, k, m)
  \/ \E level \in 0..kNumLevels - 1, n \in Numbers : DeleteFile(level, n)
  \/ edit' = Clear(edit)

Spec == Init /\ [][Next]_edit

(* An edit is read back as it was written.  A record that lost its end is  *)
(* refused, or lost whole fields from its end: no field is read wrong      *)
(* (db/version_edit.cc:41, 104).                                           *)
EditsRoundTrip ==
  \A bytes \in {EncodeTo(edit)} :
    /\ DecodeFrom(New, bytes) = [ok |-> TRUE, edit |-> edit]
    /\ \A n \in 0..Len(bytes) - 1 :
         \A cut \in {DecodeFrom(New, SubSeq(bytes, 1, n))} :
           cut.ok => EncodeTo(cut.edit) = SubSeq(bytes, 1, n)

=============================================================================
