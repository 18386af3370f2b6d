------------------------------- MODULE Coding -------------------------------
(***************************************************************************)
(* The encodings of util/coding.cc.  A byte carries Bits bits of a varint  *)
(* and a continuation bit; the code's Bits is 7, its widths are 32 and 64. *)
(***************************************************************************)
EXTENDS Integers, Sequences, Accumulation

CONSTANTS Bits,               \* of a varint in each byte
          Width32, Width64    \* of the two integer types, in bits

B == 2 ^ Bits
ByteValues == 0..2 * B - 1

Failed == [ok |-> FALSE, value |-> 0, rest |-> <<>>]
RemovePrefix(s, n) == SubSeq(s, n + 1, Len(s))

(* EncodeFixed32/64: little-endian, n bytes. *)
EncodeFixed(v, n) == [i \in 1..n |-> (v \div (2 * B) ^ (i - 1)) % (2 * B)]
DecodeFixed(s, n) == Accumulate(LAMBDA v, i : v * 2 * B + s[i], 0, [i \in 1..n |-> n + 1 - i])

RECURSIVE EncodeVarint(_)
EncodeVarint(v) == IF v < B THEN <<v>> ELSE <<(v % B) + B>> \o EncodeVarint(v \div B)

RECURSIVE VarintLength(_)
VarintLength(v) == IF v < B THEN 1 ELSE 1 + VarintLength(v \div B)

(* GetVarint32/64: bytes up to the first without the continuation bit, as  *)
(* long as their shift fits the width; bits beyond the width are lost.     *)
GetVarint(s, width) ==
  LET ends == {i \in DOMAIN s : s[i] < B /\ Bits * (i - 1) < width}
  IN  IF ends = {} THEN Failed
      ELSE LET n == CHOOSE i \in ends : \A j \in ends : i <= j
               value == Accumulate(LAMBDA v, i : v * B + (s[i] % B), 0, [i \in 1..n |-> n + 1 - i])
           IN  [ok |-> TRUE, value |-> value % 2 ^ width, rest |-> RemovePrefix(s, n)]
GetVarint32(s) == GetVarint(s, Width32)
GetVarint64(s) == GetVarint(s, Width64)

PutLengthPrefixedSlice(s) == EncodeVarint(Len(s)) \o s
GetLengthPrefixedSlice(s) ==
  Once(GetVarint32(s), LAMBDA n :
    IF ~n.ok \/ Len(n.rest) < n.value THEN Failed
    ELSE [ok |-> TRUE, value |-> SubSeq(n.rest, 1, n.value),
          rest |-> RemovePrefix(n.rest, n.value)])

(* Several fields in a row: the sequence of their values, if all are read. *)
Fields(s, Gets) ==
  Accumulate(LAMBDA r, Get :
               IF ~r.ok THEN r
               ELSE Once(CASE Get = "varint32" -> GetVarint32(r.rest)
                           [] Get = "varint64" -> GetVarint64(r.rest)
                           [] Get = "slice"    -> GetLengthPrefixedSlice(r.rest),
                         LAMBDA x : [ok |-> x.ok, value |-> Append(r.value, x.value),
                                     rest |-> x.rest]),
             [ok |-> TRUE, value |-> <<>>, rest |-> s], Gets)

=============================================================================
