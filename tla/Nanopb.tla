------------------------------- MODULE Nanopb -------------------------------
(***************************************************************************)
(* A program that writes messages of one type to a buffer with nanopb and  *)
(* reads them back, with the type it wrote or with an older one that lacks *)
(* some fields.  Messages follow one another with their sizes (delimited)  *)
(* or without, and then they are read as one message.                      *)
(***************************************************************************)
EXTENDS Pb

CONSTANTS Types,        \* by name: fields, those of an older type, messages,
                        \* extensions a reader knows
          Buffers,      \* the sizes of the buffer
          MaxMessages

VARIABLES type, delimited,
          written,      \* the messages written
          out,          \* the output stream
          in,           \* what was read, and what of the stream is left
          older         \* the same with the older type

pbVars == <<type, delimited, written, out, in, older>>

Unread == [ok |-> TRUE, s |-> NULL, v |-> <<>>]

PbInit ==
  /\ type \in DOMAIN Types /\ delimited \in BOOLEAN
  /\ written = <<>>
  /\ \E max \in Buffers : out = FromBuffer(max)
  /\ in = Unread /\ older = Unread

Put ==
  /\ in = Unread /\ older = Unread /\ out.ok /\ Len(written) < MaxMessages
  /\ \E m \in Types[type].messages :
       /\ written' = Append(written, m)
       /\ \E s \in {[out EXCEPT !.calls = <<>>]} :
            out' = IF delimited THEN EncodeDelimited(s, Types[type].fields, m)
                   ELSE Encode(s, Types[type].fields, m)
  /\ UNCHANGED <<type, delimited, in, older>>

(* One message more from the stream, into a message that has callbacks. *)
Listening(fields) ==
  [c \in DOMAIN Blank(fields) |->
     LET f == fields[CHOOSE i \in DOMAIN fields : Slot(fields, i) = c]
     IN  CASE f.atype = "callback" -> Cell(FALSE, Callback(<<>>, <<>>))
           [] f.atype # "callback" /\ f.ltype = "extension" -> Cell(FALSE, Types[type].extensions)
           [] OTHER -> Blank(fields)[c]]

Reading(r, fields, ub) ==
  LET s == IF r.s = NULL THEN InStream(out.out) ELSE r.s
      d == IF delimited THEN DecodeDelimited(s, fields, Listening(fields), ub)
           ELSE Decode(s, fields, Listening(fields), ub)
  IN  Once(d, LAMBDA x : [ok |-> x.ok, s |-> x.s, v |-> Append(r.v, x.v)])

Take ==
  /\ written # <<>> /\ out.ok /\ in.ok /\ Len(in.v) < (IF delimited THEN Len(written) ELSE 1)
  /\ \E ub \in BOOLEAN : in' = Reading(in, Types[type].fields, ub)
  /\ UNCHANGED <<type, delimited, written, out, older>>

TakeOlder ==
  /\ written # <<>> /\ out.ok /\ older.ok /\ Len(older.v) < (IF delimited THEN Len(written) ELSE 1)
  /\ \E ub \in BOOLEAN : older' = Reading(older, Types[type].older, ub)
  /\ UNCHANGED <<type, delimited, written, out, in>>

PbNext == Put \/ Take \/ TakeOlder
PbSpec == PbInit /\ [][PbNext]_pbVars

-----------------------------------------------------------------------------
(* What a message means to one who reads it after old: present fields      *)
(* replace, items are appended, submessages merge.                         *)
RECURSIVE Merge(_, _, _)

Nothing(f, v) ==
  CASE f.ltype \in {"bytes", "string"} -> v = <<>>
    [] f.ltype = "submessage" -> v = Defaults(f.ptr, NULL)
    [] OTHER -> v = 0

Value(f, old, v) == IF f.ltype = "submessage" THEN Merge(f.ptr, old, v) ELSE v
Item(f, v) == IF f.ltype = "submessage" THEN Merge(f.ptr, Defaults(f.ptr, NULL), v) ELSE v

(* What the bytes that a callback writes hold, after their tag. *)
Payload(f, bytes) ==
  LET n == Len(VarintBytes(8 * f.tag + WireType(f)))
  IN  IF f.ltype \in Packable THEN bytes[n + 1] ELSE SubSeq(bytes, n + 2, Len(bytes))

MergeCell(f, old, new) ==
  CASE f.ltype = "extension" ->
         Cell(FALSE, [i \in DOMAIN old.data |->
                        [old.data[i] EXCEPT !.cell = IF new.data[i].cell.size THEN new.data[i].cell ELSE @]])
    [] f.ltype # "extension" /\ f.atype = "callback" ->
         [old EXCEPT !.data.given = IF new.data.set THEN Append(@, Payload(f, new.data.writes[1])) ELSE @]
    [] OTHER ->
         CASE f.htype = "required" -> Cell(FALSE, Value(f, old.data, new.data))
           [] f.htype = "optional" ->
                IF IF f.has THEN new.size ELSE ~Nothing(f, new.data)
                THEN Cell(f.has, Value(f, old.data, new.data)) ELSE old
           [] f.htype = "repeated" ->
                Cell(Len(old.data \o new.data),
                     old.data \o [i \in DOMAIN new.data |-> Item(f, new.data[i])])
           [] f.htype = "oneof" ->
                IF f.tag = new.size THEN Cell(f.tag, Item(f, new.data)) ELSE old

Merge(fields, old, new) ==
  Accumulate(LAMBDA m, i : [m EXCEPT ![Slot(fields, i)] = MergeCell(fields[i], @, new[Slot(fields, i)])],
             old, [i \in DOMAIN fields |-> i])

Blankly(fields) == Defaults(fields, Listening(fields))

Meant(fields) ==
  IF delimited THEN [i \in DOMAIN written |-> Merge(fields, Blankly(fields), written[i])]
  ELSE <<Accumulate(LAMBDA m, new : Merge(fields, m, new), Blankly(fields), written)>>

(* Of a message, what there is a place for in the older Types[type]. *)
Older(m) ==
  [c \in DOMAIN Blank(Types[type].older) |->
     LET j == CHOOSE j \in DOMAIN Types[type].older : Slot(Types[type].older, j) = c
         i == IterFind(Types[type].fields, Types[type].older[j].tag)
     IN  m[Slot(Types[type].fields, i)]]

Prefix(r, all) == r.ok /\ \A i \in DOMAIN r.v : r.v[i] = all[i]

(* Whatever is encoded is decoded, and is what it was: numbers of every    *)
(* width and sign, packed arrays, submessages, unions, extensions and      *)
(* callbacks; messages that follow one another merge.                      *)
DecodesWhatWasEncoded == Prefix(in, Meant(Types[type].fields))

(* Fields that the reader's type lacks are skipped, whatever they are, and *)
(* the others are read as if they were not there.                          *)
UnknownFieldsSkipped ==
  older.ok /\ \A i \in DOMAIN older.v : older.v[i] = Older(Meant(Types[type].fields)[i])

(* pb_get_encoded_size tells exactly what pb_encode writes, and a message  *)
(* is encoded if and only if it fits.                                      *)
SizeIsExact ==
  ~delimited /\ written # <<>> =>
    LET sum == Accumulate(LAMBDA n, m : n + EncodedSize(Types[type].fields, m).written, 0, written)
    IN  /\ out.ok <=> sum <= out.max
        /\ out.ok => out.written = sum /\ Len(out.out) = sum

(* The comment in pb_check_proto3_default_value: all fields of a           *)
(* submessage are checked to find if any of them is not zero; a field      *)
(* without has_ is encoded only then.                                      *)
NonZeroIsEncoded ==
  \A m \in ToSet(written), i \in DOMAIN Types[type].fields :
    LET f == Types[type].fields[i]
        v == m[Slot(Types[type].fields, i)].data
    IN  f.htype = "optional" /\ f.ltype = "submessage" /\ ~f.has =>
          (IsDefault(f, v) <=> Merge(f.ptr, Defaults(f.ptr, NULL), v) = Defaults(f.ptr, NULL))

=============================================================================
