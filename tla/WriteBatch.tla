----------------------------- MODULE WriteBatch -----------------------------
(***************************************************************************)
(* Write batches (db/write_batch.cc), as clients fill them, DBImpl::Write  *)
(* appends them to one another and recovery replays them from a log.       *)
(***************************************************************************)
EXTENDS Coding

CONSTANTS Keys, Values,        \* byte sequences
          SeqBytes, CountBytes,\* 8 and 4: the header
          MaxOps               \* operations in a batch

VARIABLES rep, \* rep_ of two batches
          ops  \* the operations each was given since Clear

vars == <<rep, ops>>

kTypeDeletion == 0
kTypeValue == 1
kHeader == SeqBytes + CountBytes

Cleared == [i \in 1..kHeader |-> 0]
Count(r) == DecodeFixed(SubSeq(r, SeqBytes + 1, kHeader), CountBytes)
SetCount(r, n) == [i \in DOMAIN r |->
  IF i \in SeqBytes + 1..kHeader THEN EncodeFixed(n, CountBytes)[i - SeqBytes] ELSE r[i]]
Sequence(r) == DecodeFixed(r, SeqBytes)
SetSequence(r, s) ==
  [i \in DOMAIN r |-> IF i \in 1..SeqBytes THEN EncodeFixed(s, SeqBytes)[i] ELSE r[i]]

Init == rep = [b \in {1, 2} |-> Cleared] /\ ops = [b \in {1, 2} |-> <<>>]

Room(b) == Len(ops[b]) < MaxOps

Put(b, k, v) ==
  /\ Room(b)
  /\ rep' = [rep EXCEPT ![b] = SetCount(@, Count(@) + 1) \o <<kTypeValue>>
                               \o PutLengthPrefixedSlice(k) \o PutLengthPrefixedSlice(v)]
  /\ ops' = [ops EXCEPT ![b] = Append(@, <<kTypeValue, k, v>>)]

Delete(b, k) ==
  /\ Room(b)
  /\ rep' = [rep EXCEPT ![b] = SetCount(@, Count(@) + 1) \o <<kTypeDeletion>>
                               \o PutLengthPrefixedSlice(k)]
  /\ ops' = [ops EXCEPT ![b] = Append(@, <<kTypeDeletion, k, <<>>>>)]

Clear(b) == rep' = [rep EXCEPT ![b] = Cleared] /\ ops' = [ops EXCEPT ![b] = <<>>]

\* Mutant of AppendBatch: the count stays that of the destination.
AppendBatch_CountKept(dst, src) ==
  /\ dst # src /\ Len(ops[dst]) + Len(ops[src]) <= MaxOps
  /\ rep' = [rep EXCEPT ![dst] = @ \o RemovePrefix(rep[src], kHeader)]
  /\ ops' = [ops EXCEPT ![dst] = @ \o ops[src]]

(* WriteBatchInternal::Append(dst, src). *)
AppendBatch(dst, src) ==
  /\ dst # src /\ Len(ops[dst]) + Len(ops[src]) <= MaxOps
  /\ rep' = [rep EXCEPT ![dst] = SetCount(@, Count(@) + Count(rep[src]))
                                 \o RemovePrefix(rep[src], kHeader)]
  /\ ops' = [ops EXCEPT ![dst] = @ \o ops[src]]

Next ==
  \E b \in {1, 2} :
    \/ \E k \in Keys, v \in Values : Put(b, k, v)
    \/ \E k \in Keys : Delete(b, k)
    \/ Clear(b)
    \/ AppendBatch(b, 3 - b)

Spec == Init /\ [][Next]_vars

(* Iterate: the calls made of the handler, and whether it returns ok. *)
RECURSIVE IterateFrom(_, _)
IterateFrom(input, calls) ==
  IF input = <<>> THEN [ok |-> TRUE, calls |-> calls]
  ELSE LET fields == CASE input[1] = kTypeValue -> Fields(Tail(input), <<"slice", "slice">>)
                       [] input[1] = kTypeDeletion -> Fields(Tail(input), <<"slice">>)
                       [] OTHER -> Failed
       IN  Once(fields, LAMBDA f :
             IF ~f.ok THEN [ok |-> FALSE, calls |-> calls]
             ELSE IterateFrom(f.rest, Append(calls,
                    <<input[1], f.value[1], IF Len(f.value) = 2 THEN f.value[2] ELSE <<>>>>)))
Iterate(r) ==
  IF Len(r) < kHeader THEN [ok |-> FALSE, calls |-> <<>>]
  ELSE Once(IterateFrom(RemovePrefix(r, kHeader), <<>>),
            LAMBDA i : [i EXCEPT !.ok = @ /\ Len(i.calls) = Count(r)])

(* InsertInto: the entries a memtable gets, with their sequence numbers. *)
InsertInto(r) ==
  Once(Iterate(r).calls, LAMBDA calls :
    [i \in DOMAIN calls |-> [seq |-> Sequence(r) + i - 1, type |-> calls[i][1],
                             key |-> calls[i][2], value |-> calls[i][3]]])

(* A batch replays the operations it was given, in order and numbered from *)
(* its sequence number, and one that lost its end is refused               *)
(* (db/write_batch.cc:44, 118).                                            *)
BatchesReplay ==
  \A b \in {1, 2} : \A r \in {SetSequence(rep[b], 5)} :
    /\ Iterate(r) = [ok |-> TRUE, calls |-> ops[b]]
    /\ InsertInto(r) = [i \in DOMAIN ops[b] |->
         [seq |-> 4 + i, type |-> ops[b][i][1], key |-> ops[b][i][2], value |-> ops[b][i][3]]]
    /\ \A n \in 0..Len(r) - 1 : ~Iterate(SubSeq(r, 1, n)).ok

=============================================================================
