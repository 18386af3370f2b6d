--------------------------------- MODULE Pb ----------------------------------
(***************************************************************************)
(* The encoder and decoder of nanopb (pb.h, pb_common.c, pb_encode.c,      *)
(* pb_decode.c), as they are built here: without PB_ENABLE_MALLOC.  A      *)
(* message type is a sequence of fields; a message in memory is a sequence *)
(* of cells, one per field, or one for all the members of a union.  A byte *)
(* carries Bits bits of a varint, and one that says whether more follow.   *)
(***************************************************************************)
EXTENDS Integers, SequencesExt, FiniteSets, Accumulation

CONSTANTS NULL,
          Bits,            \* 7
          Width,           \* the bits of an integer of 1, 2, 4 or 8 bytes
          kBytesHeader,    \* where the bytes of a pb_bytes_array_t begin: 4
          WordBits,        \* of an element of fields_seen: 32
          MaxRequired,     \* PB_MAX_REQUIRED_FIELDS: 64
          kRawValue        \* the longest varint for a callback: 10

More == 2 ^ Bits

(* The value of a signed integer of that size, cast from v. *)
Signed(v, size) ==
  LET m == v % (2 ^ Width[size])
  IN  IF m >= 2 ^ (Width[size] - 1) THEN m - 2 ^ Width[size] ELSE m

Unsigned(v, size) == v % (2 ^ Width[size])

(* What byte i of a fixed32 or fixed64 counts; 0 beyond the width.         *)
FixedPlace(i) == IF (Bits + 1) * (i - 1) >= Width[8] THEN 0 ELSE 2 ^ ((Bits + 1) * (i - 1))

Packable == {"varint", "uvarint", "svarint", "fixed32", "fixed64"}
WT_VARINT == 0
WT_64BIT == 1
WT_STRING == 2
WT_32BIT == 5

-----------------------------------------------------------------------------
(* A field: its tag, its types, data_size, array_size, whether it has a    *)
(* size or has_ member (size_offset), whether it lies in the same union as *)
(* the field before, and the fields or the default value it points to.     *)
Field(tag, ltype, htype, atype, size) ==
  [tag |-> tag, ltype |-> ltype, htype |-> htype, atype |-> atype, size |-> size,
   array |-> 0, has |-> htype = "repeated", joins |-> FALSE, ptr |-> NULL]

(* pb_field_iter_next: the pointers do not advance inside a union. *)
Slot(fields, i) ==
  1 + Cardinality({j \in 2..i : ~ /\ fields[j - 1].htype = "oneof"
                                  /\ fields[j].htype = "oneof"
                                  /\ fields[j].joins})

RequiredIndex(fields, i) == Cardinality({j \in 1..i - 1 : fields[j].htype = "required"})

(* pb_field_iter_find, and find_extension_field: 0 when there is none.     *)
FirstWith(fields, P(_)) ==
  LET at == {i \in DOMAIN fields : P(fields[i])}
  IN  IF at = {} THEN 0 ELSE CHOOSE i \in at : \A j \in at : i <= j

IterFind(fields, tag) ==
  FirstWith(fields, LAMBDA f : f.tag = tag /\ f.ltype # "extension")
FindExtension(fields) == FirstWith(fields, LAMBDA f : f.ltype = "extension")

(* A cell: has_, which_ or the count, and the data. *)
Cell(size, data) == [size |-> size, data |-> data]

(* The data of a callback field: whether there is a function, what it has  *)
(* been given, and what it writes when it is called for the first, second  *)
(* and every later time.                                                   *)
Callback(given, writes) == [set |-> TRUE, given |-> given, writes |-> writes]
NoCallback == [set |-> FALSE, given |-> <<>>, writes |-> <<>>]

-----------------------------------------------------------------------------
(* Encoding.  An output stream has the bytes written, their number and the *)
(* most there may be; one without a callback only counts.  calls are the   *)
(* tags of the callbacks called so far.                                    *)

Stream(writes, max, calls) ==
  [ok |-> TRUE, writes |-> writes, out |-> <<>>, written |-> 0, max |-> max, calls |-> calls]
Sizing(calls) == Stream(FALSE, 0, calls)
FromBuffer(max) == Stream(TRUE, max, <<>>)

Failed(s) == [s EXCEPT !.ok = FALSE]
Then(s, F(_)) == IF s.ok THEN Once(s, F) ELSE s

(* pb_write of n bytes, which a counting stream does not look at. *)
WriteN(s, bytes, n) ==
  IF s.writes /\ s.written + n > s.max THEN Failed(s)
  ELSE [s EXCEPT !.written = @ + n, !.out = IF s.writes THEN @ \o bytes ELSE @]
Write(s, bytes) == WriteN(s, bytes, Len(bytes))

(* pb_encode_varint: the last group has no mark that more follow. *)
VarintBytes(v) ==
  LET groups == CHOOSE n \in 1..Width[8] : v < 2 ^ (Bits * n) /\ (n > 1 => v >= 2 ^ (Bits * (n - 1)))
  IN  [i \in 1..groups |-> ((v \div 2 ^ (Bits * (i - 1))) % More)
                             + (IF i = groups THEN 0 ELSE More)]
EncodeVarint(s, v) == Write(s, VarintBytes(v))

EncodeSVarint(s, v) ==
  EncodeVarint(s, Unsigned(IF v < 0 THEN -2 * v - 1 ELSE 2 * v, 8))

EncodeFixed(s, v, n) ==
  Write(s, [i \in 1..n |-> IF FixedPlace(i) = 0 THEN 0 ELSE (v \div FixedPlace(i)) % (2 * More)])

EncodeTag(s, wiretype, tag) == EncodeVarint(s, 8 * tag + wiretype)

WireType(f) ==
  CASE f.ltype \in {"varint", "uvarint", "svarint"} -> WT_VARINT
    [] f.ltype = "fixed32" -> WT_32BIT
    [] f.ltype = "fixed64" -> WT_64BIT
    [] OTHER -> WT_STRING

EncodeTagForField(s, f) ==
  IF f.ltype = "extension" THEN Failed(s) ELSE EncodeTag(s, WireType(f), f.tag)

EncodeString(s, bytes) == Then(EncodeVarint(s, Len(bytes)), LAMBDA t : Write(t, bytes))

RECURSIVE Encode(_, _, _)

(* pb_encode_submessage: once to count, once to write; a callback must     *)
(* write as much as it counted.                                            *)
Rewritten(s, sub, size) ==
  LET after == [s EXCEPT !.written = @ + sub.written, !.out = @ \o sub.out, !.calls = sub.calls]
  IN  IF ~sub.ok \/ sub.written # size THEN Failed(after) ELSE after

EncodeSubmessage(s, fields, msg) ==
  Once(Encode(Sizing(s.calls), fields, msg), LAMBDA counted :
    IF ~counted.ok THEN Failed(s)
    ELSE Then(EncodeVarint([s EXCEPT !.calls = counted.calls], counted.written), LAMBDA t :
           CASE ~t.writes -> WriteN(t, <<>>, counted.written)
             [] t.writes /\ t.written + counted.written > t.max -> Failed(t)
             [] OTHER -> Once(Encode(Stream(TRUE, counted.written, t.calls), fields, msg),
                              LAMBDA sub : Rewritten(t, sub, counted.written))))

(* The field encoders, by type. *)
CString(bytes, n) ==
  LET ends == {i \in DOMAIN bytes : bytes[i] = 0 \/ i > n}
  IN  IF ends = {} THEN bytes
      ELSE SubSeq(bytes, 1, (CHOOSE i \in ends : \A j \in ends : i <= j) - 1)

EncodeValue(s, f, v) ==
  CASE f.ltype \in {"varint", "uvarint"} -> EncodeVarint(s, Unsigned(v, 8))
    [] f.ltype = "svarint" -> EncodeSVarint(s, v)
    [] f.ltype = "fixed32" -> EncodeFixed(s, v, 4)
    [] f.ltype = "fixed64" -> EncodeFixed(s, v, 8)
    [] f.ltype = "bytes" ->
         IF v # NULL /\ f.atype = "static" /\ Len(v) + kBytesHeader > f.size THEN Failed(s)
         ELSE EncodeString(s, IF v = NULL THEN <<>> ELSE v)
    [] f.ltype = "string" ->
         EncodeString(s, IF v = NULL THEN <<>>
                         ELSE CString(v, IF f.atype = "pointer" THEN Len(v) ELSE f.size))
    [] f.ltype = "submessage" -> EncodeSubmessage(s, f.ptr, v)
    [] f.ltype = "fixed_length_bytes" -> EncodeString(s, v)

(* encode_array: numbers are packed, other items have a tag each. *)
PackedSize(f, items, calls) ==
  CASE f.ltype = "fixed32" -> 4 * Len(items)
    [] f.ltype = "fixed64" -> 8 * Len(items)
    [] OTHER -> Accumulate(LAMBDA s, v : EncodeValue(s, f, v), Sizing(calls), items).written

EncodeItems(s, f, items) ==
  Accumulate(LAMBDA t, v : Then(t, LAMBDA u : EncodeValue(u, f, v)), s, items)

EncodeArray(s, f, items) ==
  CASE items = <<>> -> s
    [] items # <<>> /\ f.atype # "pointer" /\ Len(items) > f.array -> Failed(s)
    [] OTHER ->
         IF f.ltype \in Packable
         THEN Once(PackedSize(f, items, s.calls), LAMBDA size :
                Then(Then(EncodeTag(s, WT_STRING, f.tag), LAMBDA t : EncodeVarint(t, size)), LAMBDA t :
                  IF t.writes THEN EncodeItems(t, f, items) ELSE WriteN(t, <<>>, size)))
         ELSE Accumulate(LAMBDA t, v :
                           Then(Then(t, LAMBDA u : EncodeTagForField(u, f)),
                                LAMBDA u : EncodeValue(u, f, v)),
                         s, items)

-----------------------------------------------------------------------------
(* pb_check_proto3_default_value: of a submessage all fields are looked    *)
(* at, and of each of those its data: the first item, if it is an array.   *)
RECURSIVE IsDefault(_, _)

FirstItem(f, cell) ==
  IF f.htype = "repeated"
  THEN IF cell.data = <<>> THEN (IF f.ltype \in Packable THEN 0 ELSE <<>>) ELSE cell.data[1]
  ELSE cell.data

IsDefault(f, v) ==
  CASE f.atype = "static" /\ f.ltype \in {"bytes", "string"} -> v = <<>>
    [] f.atype = "static" /\ f.ltype = "fixed_length_bytes" -> f.size = 0
    [] f.atype = "static" /\ f.ltype = "submessage" ->
         v = <<>> \/ \A i \in DOMAIN f.ptr :
                       IsDefault(f.ptr[i], FirstItem(f.ptr[i], v[Slot(f.ptr, i)]))
    [] f.atype = "callback" -> ~v.set
    [] f.atype = "pointer" -> v = NULL
    [] f.ltype = "extension" -> v = <<>>
    [] OTHER -> v = 0

(* encode_basic_field *)
Has(f, cell) ==
  CASE f.atype = "pointer" -> cell.data # NULL
    [] f.atype # "pointer" /\ f.has -> cell.size
    [] OTHER -> f.htype # "optional" \/ ~IsDefault(f, cell.data)

Tagged(s, f, v) == Then(EncodeTagForField(s, f), LAMBDA t : EncodeValue(t, f, v))

EncodeBasicField(s, f, cell) ==
  CASE f.htype = "required" ->
         IF f.atype = "pointer" /\ cell.data = NULL THEN Failed(s) ELSE Tagged(s, f, cell.data)
    [] f.htype = "optional" -> IF Has(f, cell) THEN Tagged(s, f, cell.data) ELSE s
    [] f.htype = "repeated" -> EncodeArray(s, f, cell.data)
    [] f.htype = "oneof" -> IF cell.size = f.tag THEN Tagged(s, f, cell.data) ELSE s

(* The user's function writes the field, its tag included. *)
EncodeCallbackField(s, f, cell) ==
  LET n == 1 + Cardinality({i \in DOMAIN s.calls : s.calls[i] = f.tag})
      all == cell.data.writes
  IN  IF ~cell.data.set THEN s
      ELSE Write([s EXCEPT !.calls = Append(@, f.tag)], all[IF n > Len(all) THEN Len(all) ELSE n])

EncodeField(s, f, cell) ==
  IF f.atype = "callback" THEN EncodeCallbackField(s, f, cell) ELSE EncodeBasicField(s, f, cell)

(* The extensions of a message, each with its field and its own cell. *)
EncodeExtensionField(s, extensions) ==
  Accumulate(LAMBDA t, x : Then(t, LAMBDA u : EncodeField(u, x.field, x.cell)), s, extensions)

Encode(s, fields, msg) ==
  Accumulate(LAMBDA t, i :
               Then(t, LAMBDA u :
                 LET cell == msg[Slot(fields, i)]
                 IN  IF fields[i].ltype = "extension" THEN EncodeExtensionField(u, cell.data)
                     ELSE EncodeField(u, fields[i], cell)),
             s, [i \in DOMAIN fields |-> i])

(* pb_get_encoded_size; pb_encode_delimited *)
EncodedSize(fields, msg) == Encode(Sizing(<<>>), fields, msg)
EncodeDelimited(s, fields, msg) == EncodeSubmessage(s, fields, msg)

-----------------------------------------------------------------------------
(* Decoding.  An input stream has the bytes, how many have been read and   *)
(* how many are left to it.  A step of the decoder returns the stream,     *)
(* whether it succeeded, and what it read.                                 *)

InStream(bytes) == [bytes |-> bytes, at |-> 0, left |-> Len(bytes)]

Got(s, v) == [ok |-> TRUE, s |-> s, v |-> v]
Bad(s) == [ok |-> FALSE, s |-> s, v |-> NULL]
After(r, F(_)) == IF r.ok THEN Once(r, F) ELSE r

(* pb_read *)
Read(s, n) ==
  IF s.left < n THEN Bad(s)
  ELSE Got([s EXCEPT !.at = @ + n, !.left = @ - n], SubSeq(s.bytes, s.at + 1, s.at + n))

(* pb_decode_varint and pb_decode_varint32: bits beyond the width are lost. *)
RECURSIVE VarintFrom(_, _, _, _)
VarintFrom(s, size, bitpos, acc) ==
  IF bitpos >= Width[size] THEN Bad(s)
  ELSE After(Read(s, 1), LAMBDA r :
         Once(Unsigned(acc + (r.v[1] % More) * 2 ^ bitpos, size), LAMBDA sum :
           IF r.v[1] < More THEN Got(r.s, sum) ELSE VarintFrom(r.s, size, bitpos + Bits, sum)))

DecodeVarint(s) == VarintFrom(s, 8, 0, 0)
DecodeVarint32(s) == VarintFrom(s, 4, 0, 0)

RECURSIVE SkipVarint(_)
SkipVarint(s) == After(Read(s, 1), LAMBDA r : IF r.v[1] < More THEN r ELSE SkipVarint(r.s))

(* pb_decode_tag: a stream that ends inside a tag has ended, too, and so   *)
(* has a message at a zero.                                                *)
DecodeTag(s) ==
  Once(DecodeVarint32(s), LAMBDA r :
    [ok |-> r.ok /\ r.v # 0, s |-> r.s,
     eof |-> IF r.ok THEN r.v = 0 ELSE r.s.left = 0,
     tag |-> IF r.ok THEN r.v \div 8 ELSE 0, wiretype |-> IF r.ok THEN r.v % 8 ELSE 0])

SkipField(s, wiretype) ==
  CASE wiretype = WT_VARINT -> SkipVarint(s)
    [] wiretype = WT_64BIT -> Read(s, 8)
    [] wiretype = WT_STRING -> After(DecodeVarint32(s), LAMBDA r : Read(r.s, r.v))
    [] wiretype = WT_32BIT -> Read(s, 4)
    [] OTHER -> Bad(s)

(* read_raw_value: the bytes of one value. *)
ReadRawValue(s, wiretype) ==
  CASE wiretype = WT_VARINT ->
         After(SkipVarint(s), LAMBDA r :
           IF r.s.at - s.at > kRawValue THEN Bad(r.s)
           ELSE Got(r.s, SubSeq(s.bytes, s.at + 1, r.s.at)))
    [] wiretype = WT_64BIT -> Read(s, 8)
    [] wiretype = WT_32BIT -> Read(s, 4)
    [] OTHER -> Bad(s)

(* pb_make_string_substream: what is v is the substream.                   *)
MakeSubstream(s) ==
  After(DecodeVarint32(s), LAMBDA r :
    IF r.s.left < r.v THEN Bad(r.s)
    ELSE Got([r.s EXCEPT !.left = @ - r.v], [r.s EXCEPT !.left = r.v]))

(* pb_close_string_substream: the rest of it is skipped. *)
CloseSubstream(s, sub) == [s EXCEPT !.at = sub.at + sub.left]

-----------------------------------------------------------------------------
(* Default values. *)
RECURSIVE Defaults(_, _)

DefaultOf(f, old) ==
  CASE f.ltype = "submessage" -> Defaults(f.ptr, old)
    [] f.ltype # "submessage" /\ f.ptr # NULL -> f.ptr
    [] f.ltype \in {"bytes", "string"} -> <<>>
    [] f.ltype = "fixed_length_bytes" -> [i \in 1..f.size |-> 0]
    [] OTHER -> 0

(* pb_field_set_to_default: arrays become empty, unions hold nothing, the  *)
(* callbacks stay.                                                         *)
SetToDefault(f, cell) ==
  CASE f.ltype = "extension" ->
         Cell(FALSE, [i \in DOMAIN cell.data |->
                        [cell.data[i] EXCEPT !.cell = Cell(FALSE, DefaultOf(cell.data[i].field, NULL))]])
    [] f.ltype # "extension" /\ f.atype = "callback" -> cell
    [] f.ltype # "extension" /\ f.atype = "pointer" -> Cell(0, NULL)
    [] OTHER -> CASE f.htype = "repeated" -> Cell(0, <<>>)
                  [] f.htype = "oneof" -> Cell(0, cell.data)
                  [] OTHER -> Cell(FALSE, DefaultOf(f, cell.data))

(* pb_message_set_to_defaults over a message that may hold anything. *)
Blank(fields) ==
  [c \in {Slot(fields, i) : i \in DOMAIN fields} |->
     LET f == fields[CHOOSE i \in DOMAIN fields : Slot(fields, i) = c]
     IN  Cell(FALSE, CASE f.atype = "callback" -> NoCallback
                       [] f.atype # "callback" /\ f.ltype = "extension" -> <<>>
                       [] OTHER -> NULL)]

Defaults(fields, old) ==
  LET from == IF old = NULL THEN Blank(fields) ELSE old
  IN  [c \in DOMAIN from |->
         SetToDefault(fields[CHOOSE i \in DOMAIN fields : Slot(fields, i) = c], from[c])]

-----------------------------------------------------------------------------
(* The field decoders, by type. *)
RECURSIVE DecodeNoInit(_, _, _, _)

(* An integer must fit its member.  Of a varint for one of at most four    *)
(* bytes the low half counts.                                              *)
Fits(r, wide, f, cast(_, _)) ==
  IF cast(wide, f.size) = wide THEN Got(r.s, wide) ELSE Bad(r.s)

\* Mutant of UnZigZag: odd numbers are negated only.
UnZigZag_Negates(v) == IF v % 2 = 1 THEN -(v \div 2) ELSE v \div 2

UnZigZag(v) == IF v % 2 = 1 THEN -(v \div 2) - 1 ELSE v \div 2

FixedValue(bytes) ==
  Accumulate(LAMBDA v, i : v + bytes[i] * FixedPlace(i), 0, [i \in DOMAIN bytes |-> i])

(* A string of n bytes takes n + room of the member. *)
DecodeString(s, f, room) ==
  After(DecodeVarint32(s), LAMBDA r : IF r.v + room > f.size THEN Bad(r.s) ELSE Read(r.s, r.v))

DecodeFixedLengthBytes(s, f) ==
  After(DecodeVarint32(s), LAMBDA r :
    CASE r.v = 0 -> Got(r.s, [i \in 1..f.size |-> 0])
      [] r.v # 0 /\ r.v # f.size -> Bad(r.s)
      [] OTHER -> Read(r.s, f.size))

(* pb_dec_submessage: an item of an array starts from the defaults. *)
DecodeSubmessage(s, f, old, ub) ==
  After(MakeSubstream(s), LAMBDA r :
    Once(DecodeNoInit(r.v, f.ptr, IF f.htype = "repeated" THEN Defaults(f.ptr, old) ELSE old, ub),
         LAMBDA d : [ok |-> d.ok, s |-> CloseSubstream(r.s, d.s), v |-> d.v]))

DecodeValue(s, f, old, ub) ==
  CASE f.ltype = "varint" ->
         After(DecodeVarint(s), LAMBDA r :
           Fits(r, Signed(r.v, IF f.size = 8 THEN 8 ELSE 4), f, Signed))
    [] f.ltype = "uvarint" -> After(DecodeVarint(s), LAMBDA r : Fits(r, r.v, f, Unsigned))
    [] f.ltype = "svarint" -> After(DecodeVarint(s), LAMBDA r : Fits(r, UnZigZag(r.v), f, Signed))
    [] f.ltype = "fixed32" -> After(Read(s, 4), LAMBDA r : Got(r.s, FixedValue(r.v)))
    [] f.ltype = "fixed64" -> After(Read(s, 8), LAMBDA r : Got(r.s, FixedValue(r.v)))
    [] f.ltype = "bytes" -> DecodeString(s, f, kBytesHeader)
    [] f.ltype = "string" -> DecodeString(s, f, 1)
    [] f.ltype = "submessage" -> DecodeSubmessage(s, f, old, ub)
    [] f.ltype = "fixed_length_bytes" -> DecodeFixedLengthBytes(s, f)

(* A packed array: items while there is room; bytes left over are an error. *)
RECURSIVE DecodePacked(_, _, _, _)
DecodePacked(sub, f, items, ub) ==
  IF sub.left = 0 \/ Len(items) >= f.array
  THEN [ok |-> sub.left = 0, s |-> sub, v |-> items]
  ELSE After(DecodeValue(sub, f, NULL, ub), LAMBDA r :
         DecodePacked(r.s, f, Append(items, r.v), ub))

DecodeRepeated(s, f, wiretype, cell, ub) ==
  CASE wiretype = WT_STRING /\ f.ltype \in Packable ->
         After(MakeSubstream(s), LAMBDA r :
           Once(DecodePacked(r.v, f, cell.data, ub), LAMBDA p :
             IF p.ok THEN Got(CloseSubstream(r.s, p.s), Cell(Len(p.v), p.v)) ELSE Bad(r.s)))
    [] ~(wiretype = WT_STRING /\ f.ltype \in Packable) /\ Len(cell.data) >= f.array -> Bad(s)
    [] OTHER -> After(DecodeValue(s, f, NULL, ub), LAMBDA r :
                  Got(r.s, Cell(cell.size + 1, Append(cell.data, r.v))))

(* decode_static_field *)
DecodeStaticField(s, f, wiretype, cell, ub) ==
  CASE f.htype \in {"required", "optional"} ->
         After(DecodeValue(s, f, cell.data, ub), LAMBDA r :
           Got(r.s, Cell(f.htype = "optional" /\ f.has, r.v)))
    [] f.htype = "repeated" -> DecodeRepeated(s, f, wiretype, cell, ub)
    [] f.htype = "oneof" ->
         After(DecodeValue(s, f, IF f.ltype = "submessage" THEN Defaults(f.ptr, NULL) ELSE NULL, ub),
               LAMBDA r : Got(r.s, Cell(f.tag, r.v)))

(* A user's function: of numbers it reads one, of anything else all.       *)
CallDecode(sub, f) ==
  IF f.ltype \in Packable THEN DecodeValue(sub, f, NULL, NULL) ELSE Read(sub, sub.left)

RECURSIVE CallWhileLeft(_, _, _)
CallWhileLeft(sub, f, given) ==
  After(CallDecode(sub, f), LAMBDA r :
    IF r.s.left = 0 THEN Got(r.s, Append(given, r.v))
    ELSE CallWhileLeft(r.s, f, Append(given, r.v)))

DecodeCallbackField(s, f, wiretype, cell) ==
  LET given(more) == [cell EXCEPT !.data.given = more]
  IN  CASE ~cell.data.set -> After(SkipField(s, wiretype), LAMBDA r : Got(r.s, cell))
        [] cell.data.set /\ wiretype = WT_STRING ->
             After(MakeSubstream(s), LAMBDA r :
               After(CallWhileLeft(r.v, f, cell.data.given), LAMBDA c :
                 Got(CloseSubstream(r.s, c.s), given(c.v))))
        [] OTHER ->
             After(ReadRawValue(s, wiretype), LAMBDA r :
               After(CallDecode(InStream(r.v), f), LAMBDA c :
                 Got(r.s, given(Append(cell.data.given, c.v)))))

(* decode_field: without malloc there are no pointers. *)
DecodeField(s, f, wiretype, cell, ub) ==
  CASE f.atype = "static" -> DecodeStaticField(s, f, wiretype, cell, ub)
    [] f.atype = "callback" -> DecodeCallbackField(s, f, wiretype, cell)
    [] OTHER -> Bad(s)

(* decode_extension: the first extension that reads something ends it.     *)
DecodeExtension(s, tag, wiretype, extensions, ub) ==
  LET at == {i \in DOMAIN extensions : extensions[i].field.tag = tag}
      i == CHOOSE j \in at : \A k \in at : j <= k
  IN  IF at = {} THEN Got(s, extensions)
      ELSE After(DecodeField(s, extensions[i].field, wiretype, extensions[i].cell, ub), LAMBDA r :
             Got(r.s, [extensions EXCEPT ![i].cell = Cell(TRUE, r.v.data)]))

-----------------------------------------------------------------------------
(* pb_decode_noinit.  seen are the required fields that came, by their     *)
(* index.  The words of fields_seen are compared with all ones, and the    *)
(* last with ones shifted right by WordBits less the number of the rest:   *)
(* what a shift by WordBits gives the language leaves open, and ub says.   *)
AllRequired(fields, seen, ub) ==
  LET n == Cardinality({i \in DOMAIN fields : fields[i].htype = "required"})
      rest == n % WordBits
      word == n \div WordBits
      bit(b) == word * WordBits + b \in seen
  IN  n > 0 =>
        /\ \A i \in 0..word * WordBits - 1 : i \in seen
        /\ \A b \in 0..WordBits - 1 : bit(b) <=> IF rest = 0 THEN ub ELSE b < rest

RECURSIVE DecodeFields(_, _, _, _, _)

(* A field of an unknown tag goes to the extensions, or is skipped.        *)
DecodeUnknown(t, fields, msg, seen, ub) ==
  LET x == FindExtension(fields)
      c == Slot(fields, x)
      skip == After(SkipField(t.s, t.wiretype), LAMBDA r : DecodeFields(r.s, fields, msg, seen, ub))
  IN  IF (IF x = 0 THEN TRUE ELSE t.tag < fields[x].tag) THEN skip
      ELSE After(DecodeExtension(t.s, t.tag, t.wiretype, msg[c].data, ub), LAMBDA r :
             IF r.s.left = t.s.left THEN skip
             ELSE DecodeFields(r.s, fields, [msg EXCEPT ![c].data = r.v], seen, ub))

DecodeKnown(t, i, fields, msg, seen, ub) ==
  LET c == Slot(fields, i)
      required == fields[i].htype = "required" /\ RequiredIndex(fields, i) < MaxRequired
  IN  After(DecodeField(t.s, fields[i], t.wiretype, msg[c], ub), LAMBDA r :
        DecodeFields(r.s, fields, [msg EXCEPT ![c] = r.v],
                     IF required THEN seen \cup {RequiredIndex(fields, i)} ELSE seen, ub))

DecodeFields(s, fields, msg, seen, ub) ==
  LET end(at) == [ok |-> AllRequired(fields, seen, ub), s |-> at, v |-> msg]
  IN  IF s.left = 0 THEN end(s)
      ELSE Once(DecodeTag(s), LAMBDA t :
             CASE ~t.ok -> IF t.eof THEN end(t.s) ELSE Bad(t.s)
               [] t.ok /\ IterFind(fields, t.tag) = 0 -> DecodeUnknown(t, fields, msg, seen, ub)
               [] OTHER -> DecodeKnown(t, IterFind(fields, t.tag), fields, msg, seen, ub))

DecodeNoInit(s, fields, msg, ub) == DecodeFields(s, fields, msg, {}, ub)

(* pb_decode; pb_decode_delimited *)
Decode(s, fields, old, ub) == DecodeNoInit(s, fields, Defaults(fields, old), ub)

DecodeDelimited(s, fields, old, ub) ==
  After(MakeSubstream(s), LAMBDA r :
    Once(Decode(r.v, fields, old, ub), LAMBDA d :
      [ok |-> d.ok, s |-> CloseSubstream(r.s, d.s), v |-> d.v]))

=============================================================================
