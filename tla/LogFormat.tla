------------------------------ MODULE LogFormat ------------------------------
(***************************************************************************)
(* The log files of leveldb (db/log_format.h, db/log_writer.cc,            *)
(* db/log_reader.cc): records cut into physical records that never cross a *)
(* block, and the reader that finds whole records again in a file that was *)
(* cut short, damaged, or written with a failed append in the middle.      *)
(* A file is a sequence of cells.  Cell i of a physical record carries the *)
(* record it belongs to; the header cells are the checksum, the length and *)
(* the type.  A checksum matches only an intact physical record.           *)
(***************************************************************************)
EXTENDS Integers, Sequences, FiniteSetsExt

CONSTANTS NULL,
          kBlockSize,       \* in cells
          Sizes,            \* payload sizes of the records appended
          InitialOffsets,   \* initial_offset of the reader
          MaxRecords

VARIABLES file,     \* the cells of the file
          writer,   \* log::Writer and what was appended through it
          reader,   \* log::Reader, and the records and drops it gave out
          fate      \* what happened to the file

logVars == <<file, writer, reader, fate>>

kHeaderSize == 3
kFullType == 1
kFirstType == 2
kMiddleType == 3
kLastType == 4
Zero == [i |-> 0]              \* a byte of a trailer
Bad == [i |-> -1]              \* a damaged byte

Init ==
  /\ file = <<>>
  /\ writer = [offset |-> 0, records |-> <<>>]
  /\ reader = [pc |-> "closed"]
  /\ fate = "whole"

-----------------------------------------------------------------------------
(* The cells of one physical record: n cells of record r from cell from.   *)
Physical(r, type, from, n) ==
  [i \in 1..kHeaderSize + n |->
     [i |-> i, rec |-> r, type |-> type, from |-> from, len |-> n]]

FragmentType(begin, end) ==
  IF begin THEN IF end THEN kFullType ELSE kFirstType
  ELSE IF end THEN kLastType ELSE kMiddleType

(* What AddRecord appends for record r of a size, at block_offset_: a      *)
(* fragment fills the block it is in, and a block with no room for a       *)
(* header is filled with zeros.                                            *)
Fragments(r, size, blockOffset) ==
  LET emit[at \in BOOLEAN \X (0..size) \X (0..kBlockSize)] ==
        LET leftover == kBlockSize - at[3]
            avail == leftover - kHeaderSize
            left == size - at[2]
            n == IF left < avail THEN left ELSE avail
            end == left = n
        IN  IF leftover < kHeaderSize
            THEN [i \in 1..leftover |-> Zero] \o emit[<<at[1], at[2], 0>>]
            ELSE Physical(r, FragmentType(at[1], end), at[2], n)
                   \o IF end THEN <<>>
                      ELSE emit[<<FALSE, at[2] + n, at[3] + kHeaderSize + n>>]
  IN  emit[<<TRUE, 0, blockOffset>>]

(* block_offset_ after n more cells: a full block is only left by the next *)
(* record.                                                                 *)
Advance(offset, n) == IF n = 0 THEN offset ELSE 1 + ((offset + n - 1) % kBlockSize)

Start(cells) == Min({j \in DOMAIN cells : cells[j] # Zero})

Writing == reader.pc = "closed" /\ Len(writer.records) < MaxRecords
NextRecord == Len(writer.records) + 1

AddRecord(size) ==
  /\ Writing /\ fate \in {"whole", "failed"}
  /\ \E cells \in {Fragments(NextRecord, size, writer.offset)} :
       /\ file' = file \o cells
       /\ writer' = [offset |-> Advance(writer.offset, Len(cells)),
                     records |-> Append(writer.records,
                       [size |-> size, at |-> Len(file) + Start(cells), end |-> Len(file) + Len(cells)])]
  /\ UNCHANGED <<reader, fate>>

(* EmitPhysicalRecord fails after k cells: the offset counts the whole     *)
(* physical record, the file holds part of it.                             *)
AddRecordFails(size) ==
  /\ Writing /\ fate = "whole"
  /\ \E cells \in {Fragments(NextRecord, size, writer.offset)} :
       \E k \in 0..Len(cells) - 1 :
         LET end == Min({j \in k + 1..Len(cells) :
                           cells[j] # Zero /\ cells[j].i = kHeaderSize + cells[j].len})
         IN  /\ file' = file \o SubSeq(cells, 1, k)
             /\ writer' = [offset |-> Advance(writer.offset, end),
                           records |-> Append(writer.records,
                             [size |-> size, at |-> Len(file) + Start(cells), end |-> 0])]
  /\ fate' = "failed"
  /\ UNCHANGED reader

(* Writer(dest, dest_length): a log that ends with a whole record is       *)
(* reopened for append.                                                    *)
Reopen ==
  /\ Writing /\ fate = "whole"
  /\ writer.offset # Len(file) % kBlockSize
  /\ writer' = [writer EXCEPT !.offset = Len(file) % kBlockSize]
  /\ UNCHANGED <<file, reader, fate>>

(* The crash of the machine cuts the file; a damaged medium changes a cell. *)
Cut ==
  /\ reader.pc = "closed" /\ fate = "whole"
  /\ \E n \in 0..Len(file) - 1 : file' = SubSeq(file, 1, n)
  /\ fate' = "cut"
  /\ UNCHANGED <<writer, reader>>

Damage ==
  /\ reader.pc = "closed" /\ fate = "whole"
  /\ \E n \in 1..Len(file) : file' = [file EXCEPT ![n] = Bad]
  /\ fate' = "damaged"
  /\ UNCHANGED <<writer, reader>>

-----------------------------------------------------------------------------
(* SkipToInitialBlock: the start of the first block that can hold a record *)
(* from the initial offset on.                                             *)
InitialBlock(initial) ==
  LET inBlock == initial % kBlockSize
  IN  initial - inBlock + (IF inBlock > kBlockSize - (kHeaderSize - 1) THEN kBlockSize ELSE 0)

Open(initial) ==
  /\ reader.pc = "closed"
  /\ LET start == InitialBlock(initial)
     IN  reader' = [pc |-> "read", initial |-> initial, resyncing |-> initial > 0,
                    buffer |-> <<>>, end |-> start, eof |-> FALSE,
                    inRecord |-> FALSE, scratch |-> <<>>, out |-> <<>>, drops |-> 0]
  /\ UNCHANGED <<file, writer, fate>>

(* end_of_buffer_offset_ - buffer_.size() - bytes >= initial_offset_ *)
Dropped(rd, buffer, n) ==
  IF rd.end - Len(buffer) - n >= rd.initial THEN rd.drops + 1 ELSE rd.drops

Upto(cells, from, to) == SubSeq(cells, from, Min({to, Len(cells)}))

ReadBlock ==
  /\ reader.pc = "read" /\ Len(reader.buffer) < kHeaderSize /\ ~reader.eof
  /\ \E block \in {Upto(file, reader.end + 1, reader.end + kBlockSize)} :
       reader' = [reader EXCEPT !.buffer = block, !.end = @ + Len(block),
                                !.eof = Len(block) < kBlockSize]
  /\ UNCHANGED <<file, writer, fate>>

(* ReadRecord returns false: a record not finished yet is ignored. *)
EndOfFile(rd) == [rd EXCEPT !.pc = "eof", !.buffer = <<>>, !.scratch = <<>>]

ReadEnd ==
  /\ reader.pc = "read" /\ Len(reader.buffer) < kHeaderSize /\ reader.eof
  /\ reader' = EndOfFile(reader)
  /\ UNCHANGED <<file, writer, fate>>

(* A length and a type read from cells that are not a header's may be any. *)
Lengths(cell) == IF cell = Zero THEN {0} ELSE IF cell.i = 2 THEN {cell.len} ELSE 0..kBlockSize
MayBeZeroType(cell) == cell.i # 3

Intact(cells) ==
  /\ cells[1].i = 1
  /\ Len(cells) = kHeaderSize + cells[1].len
  /\ \A i \in DOMAIN cells : cells[i] = [cells[1] EXCEPT !.i = i]

\* Mutant of BadRecord: the record in progress goes on.
BadRecord_GoesOn(rd) == [rd EXCEPT !.resyncing = FALSE]

(* kBadRecord in ReadRecord: a fragmented record in progress is dropped,   *)
(* unless the reader is still resynchronising.                             *)
BadRecord(rd) ==
  IF rd.inRecord
  THEN [rd EXCEPT !.inRecord = FALSE, !.scratch = <<>>, !.resyncing = FALSE,
                  !.drops = Dropped(rd, rd.buffer, Len(rd.scratch))]
  ELSE [rd EXCEPT !.resyncing = FALSE]

(* The part of ReadPhysicalRecord that gives up the buffer. *)
ParseFails(length, zeroType) ==
  LET lost == [reader EXCEPT !.buffer = <<>>]
      report == [lost EXCEPT !.drops = Dropped(reader, <<>>, Len(reader.buffer))]
  IN  IF kHeaderSize + length > Len(reader.buffer)
      THEN IF reader.eof THEN EndOfFile(reader) ELSE BadRecord(report)
      ELSE IF zeroType /\ length = 0 THEN BadRecord(lost)
      ELSE BadRecord(report)

(* The cases of ReadRecord for an intact fragment of the given type. *)
Fragment(rd, type, payload) ==
  CASE rd.resyncing /\ type = kMiddleType -> rd
    [] rd.resyncing /\ type = kLastType -> [rd EXCEPT !.resyncing = FALSE]
    [] type \in {kFullType, kFirstType} ->
         LET partial == rd.inRecord /\ rd.scratch # <<>>
         IN  [rd EXCEPT
               !.resyncing = FALSE,
               !.drops = IF partial THEN Dropped(rd, rd.buffer, Len(rd.scratch)) ELSE @,
               !.inRecord = type = kFirstType,
               !.scratch = IF type = kFirstType THEN payload ELSE <<>>,
               !.out = IF type = kFullType THEN Append(@, payload) ELSE @]
    [] ~rd.inRecord -> [rd EXCEPT !.resyncing = FALSE,
                                  !.drops = Dropped(rd, rd.buffer, Len(payload))]
    [] OTHER ->
         [rd EXCEPT !.inRecord = type = kMiddleType,
                    !.scratch = IF type = kLastType THEN <<>> ELSE @ \o payload,
                    !.out = IF type = kLastType THEN Append(@, rd.scratch \o payload) ELSE @]

ReadPhysicalRecord ==
  /\ reader.pc = "read" /\ Len(reader.buffer) >= kHeaderSize
  /\ \E length \in Lengths(reader.buffer[2]) :
       LET taken == Upto(reader.buffer, 1, kHeaderSize + length)
           rest == [reader EXCEPT !.buffer = SubSeq(@, kHeaderSize + length + 1, Len(@))]
           payload == SubSeq(taken, kHeaderSize + 1, Len(taken))
       IN  IF kHeaderSize + length <= Len(reader.buffer) /\ Intact(taken)
           THEN reader' = IF reader.end - Len(reader.buffer) < reader.initial
                          THEN BadRecord(rest)
                          ELSE Fragment(rest, taken[1].type, payload)
           ELSE \E zeroType \in {FALSE, MayBeZeroType(reader.buffer[3])} :
                  reader' = ParseFails(length, zeroType)
  /\ UNCHANGED <<file, writer, fate>>

Next ==
  \/ \E size \in Sizes : AddRecord(size) \/ AddRecordFails(size)
  \/ Reopen \/ Cut \/ Damage
  \/ \E initial \in InitialOffsets : Open(initial)
  \/ ReadBlock \/ ReadEnd \/ ReadPhysicalRecord

Spec == Init /\ [][Next]_logVars

-----------------------------------------------------------------------------
(* What the reader was given back, as record numbers; 0 for a record that  *)
(* is not exactly one that was appended.  Empty records look all alike.    *)
Whole(payload, r) ==
  /\ Len(payload) = writer.records[r].size
  /\ \A i \in DOMAIN payload :
       payload[i].rec = r /\ payload[i].from + payload[i].i - kHeaderSize = i

Reading == reader.pc \in {"read", "eof"}

(* Whatever happened to the file, a record the reader returns is one that  *)
(* was appended, complete, and they come in the order they were appended   *)
(* (db/log_reader.cc:59, ReadRecord).                                      *)
RecordsWholeAndOrdered ==
  Reading =>
    /\ \A i \in DOMAIN reader.out : \E r \in DOMAIN writer.records : Whole(reader.out[i], r)
    /\ \A i, j \in DOMAIN reader.out :
         i < j /\ reader.out[i] # <<>> /\ reader.out[j] # <<>>
           => reader.out[i][1].rec < reader.out[j][1].rec

Complete == {r \in DOMAIN writer.records : writer.records[r].end \in 1..Len(file)}
After(initial) == {r \in Complete : writer.records[r].at > initial}

(* A crash loses only the record it cut: the reader returns every record   *)
(* that lies in the file behind its initial offset and, from offset 0,     *)
(* reports no corruption (db/log_reader.cc:146, 213).                      *)
CrashLosesOnlyTheTail ==
  reader.pc = "eof" /\ fate \in {"whole", "cut"} =>
    /\ Len(reader.out) = Cardinality(After(reader.initial))
    /\ reader.initial = 0 => reader.drops = 0

BlockOf(n) == (n - 1) \div kBlockSize

(* A damaged byte costs the records that have a byte in its block, and no  *)
(* other (db/log_reader.cc:232).                                           *)
DamageStaysInBlock ==
  reader.pc = "eof" /\ fate = "damaged" =>
    LET block == BlockOf(CHOOSE n \in DOMAIN file : file[n] = Bad)
        spared == {r \in After(reader.initial) :
                     ~(BlockOf(writer.records[r].at) <= block
                         /\ block <= BlockOf(writer.records[r].end))}
    IN  Len(reader.out) >= Cardinality(spared)

=============================================================================
