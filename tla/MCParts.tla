------------------------------ MODULE MCParts -------------------------------
(***************************************************************************)
(* One run over small instances of modules that do not interact.  part     *)
(* says which of them a behaviour is of; its variables are s1, s2, ..., in *)
(* the order in which the module declares them, and the rest stay NULL.    *)
(* Those of the modules it extends have their own names, and stay as they  *)
(* start when a behaviour is of another module.                            *)
(***************************************************************************)
EXTENDS Nanopb, FileCopy, FunctionList, PosixFiles, FileNames, BranchPredictor, SetAssocCache

CONSTANT Parts     \* the modules a run explores

VARIABLES part, s1, s2, s3, s4, s5, s6, s7, s8

namedVars == <<pbVars, copyVars, listVars, filesVars, nameVars, branchVars, cacheVars>>
vars == <<part, s1, s2, s3, s4, s5, s6, s7, s8, namedVars>>

-----------------------------------------------------------------------------
(* Message types and messages of them for Nanopb.  Zero, negative and      *)
(* largest values, empty and full arrays, strings and submessages, each    *)
(* arm of a union, callbacks and extensions occur.                         *)

MCWidth == [n \in {1, 2, 4, 8} |-> CASE n = 1 -> 3 [] n = 2 -> 4 [] n = 4 -> 6 [] OTHER -> 9]

StaticField(tag, ltype, htype, size) == Field(tag, ltype, htype, "static", size)
Type(fields, old, messages) ==
  [fields |-> fields, older |-> old, messages |-> messages, extensions |-> <<>>]

(* Numbers: required and optional, with has_ and without. *)
Small == StaticField(1, "varint", "required", 1)
Large == [StaticField(2, "varint", "optional", 8) EXCEPT !.has = TRUE, !.ptr = 5]
Zigzag == StaticField(3, "svarint", "optional", 2)
Natural == StaticField(4, "uvarint", "optional", 4)
Fixed == StaticField(5, "fixed32", "optional", 4)

Numbers ==
  Type(<<Small, Large, Zigzag, Natural, Fixed>>, <<Large, Natural>>,
       {<<Cell(FALSE, a), Cell(TRUE, b), Cell(FALSE, c), Cell(FALSE, d), Cell(FALSE, e)>> :
          a \in {-4, 3}, b \in {-256, 0}, c \in {0, -8, 7}, d \in {63}, e \in {0, 40}}
       \cup {<<Cell(FALSE, -1), Cell(FALSE, 5), Cell(FALSE, 0), Cell(FALSE, 0), Cell(FALSE, 0)>>})

(* Strings, and arrays of what is packed and of what is not. *)
Text == StaticField(1, "string", "required", 4)
Blob == StaticField(2, "bytes", "optional", 3 + kBytesHeader)
Packed == [StaticField(3, "varint", "repeated", 2) EXCEPT !.array = 4]
Words == [StaticField(4, "string", "repeated", 3) EXCEPT !.array = 4]
Digest == StaticField(5, "fixed_length_bytes", "required", 2)

Strings ==
  Type(<<Text, Blob, Packed, Words, Digest>>, <<Packed>>,
       {<<Cell(FALSE, t), Cell(FALSE, b), Cell(Len(p), p), Cell(Len(w), w), Cell(FALSE, <<0, 9>>)>> :
          t \in {<<>>, <<1, 2, 3>>}, b \in {<<>>, <<0, 0, 5>>},
          p \in {<<>>, <<0>>, <<-8, 7>>}, w \in {<<>>, <<<<>>, <<4, 4>>>>}})

(* Submessages, one of them in an array, and a union with one. *)
Inner == <<StaticField(1, "varint", "required", 4),
           [StaticField(2, "fixed64", "repeated", 8) EXCEPT !.array = 2]>>
Child == [StaticField(1, "submessage", "optional", 9) EXCEPT !.has = TRUE, !.ptr = Inner]
Children == [StaticField(2, "submessage", "repeated", 9) EXCEPT !.array = 2, !.ptr = Inner]
EitherNumber == StaticField(3, "varint", "oneof", 4)
OrChild == [StaticField(4, "submessage", "oneof", 9) EXCEPT !.joins = TRUE, !.ptr = Inner]

InnerOf(n, list) == <<Cell(FALSE, n), Cell(Len(list), list)>>

Trees ==
  Type(<<Child, Children, EitherNumber, OrChild>>, <<Children>>,
       {<<child, Cell(Len(all), all), either>> :
          child \in {Cell(FALSE, InnerOf(0, <<>>)), Cell(TRUE, InnerOf(-1, <<3>>))},
          all \in {<<>>, <<InnerOf(5, <<>>)>>},
          either \in {Cell(0, 0), Cell(3, 6), Cell(4, InnerOf(2, <<8>>))}})

(* A field that callbacks write and read, and an extension. *)
Spoken == Field(1, "string", "optional", "callback", 4)
Spelled == Field(2, "varint", "optional", "callback", 4)
Extended == StaticField(4, "extension", "optional", 4)
Added(found, v) == [field |-> [StaticField(5, "svarint", "optional", 4) EXCEPT !.has = TRUE],
                    cell |-> Cell(found, v)]

Open ==
  [Type(<<Spoken, Spelled, Extended>>, <<Spelled>>,
        {<<Cell(FALSE, spoken), Cell(FALSE, counted), Cell(FALSE, <<extension>>)>> :
           spoken \in {NoCallback, Callback(<<>>, <<<<10, 2, 6, 7>>>>)},
           counted \in {NoCallback, Callback(<<>>, <<<<16, 1, 9>>>>),
                       Callback(<<>>, <<<<16, 1, 9>>, <<16, 1>>>>)},
           extension \in {Added(FALSE, 0), Added(TRUE, -5)}})
   EXCEPT !.extensions = <<Added(FALSE, 0)>>]

(* A submessage without has_; the arrays of nested begin with a zero.      *)
Proto3 == <<StaticField(1, "varint", "optional", 4),
            [StaticField(2, "fixed64", "repeated", 8) EXCEPT !.array = 2]>>
Singular == [StaticField(1, "submessage", "optional", 9) EXCEPT !.ptr = Proto3]
Nested(arrays) ==
  Type(<<Singular, Natural>>, <<Natural>>,
       {<<Cell(FALSE, InnerOf(n, l)), Cell(FALSE, 1)>> : n \in {0, 1}, l \in arrays})

MCTypes == [numbers |-> Numbers, strings |-> Strings, trees |-> Trees, open |-> Open,
            proto3 |-> Nested({<<>>, <<3>>})]
MCNested == [nested |-> Nested({<<>>, <<3>>, <<0, 3>>})]

-----------------------------------------------------------------------------
(* The modules and the sizes of their instances. *)

Log == INSTANCE LogFormat WITH kBlockSize <- 6, Sizes <- {0, 1, 4, 8}, InitialOffsets <- {0, 3, 7},
         MaxRecords <- 3, file <- s1, writer <- s2, reader <- s3, fate <- s4

Tables == INSTANCE TableCache WITH Files <- {2, 4, 6}, Threads <- {1, 2}, kNumShards <- 2,
            Capacity <- 2, MinLength <- 1, MaxHandles <- 4,
            handle <- s1, shard <- s2, thread <- s3

Iter == INSTANCE DBIter WITH Users <- {2, 4}, Writes <- 3, kMaxSequenceNumber <- 99,
          Damage <- {<<"level1", 1>>},
          history <- s1, place <- s2, sequence <- s3, bad <- s4, it <- s5

SmallHash(k) == Accumulate(LAMBDA h, b : (h * 7 + b * 5 + 3) % 256, 11, k)
Table == INSTANCE TableFormat WITH
           Keys <- {<<0, 1>>, <<0, 1, 1>>, <<0, 1, 2>>, <<0, 2>>, <<1>>, <<2, 2>>, <<2, 2, 0>>},
           MaxKeys <- 4, kMaxByte <- 2, RestartInterval <- 2, BlockSize <- 32, kFilterBase <- 24,
           BitsPerKey <- 3, MinBits <- 8, HashBits <- 8, Hash <- SmallHash,
           rep <- s1, file <- s2, added <- s3, damaged <- s4, reading <- s5, faults <- s6

Batch == INSTANCE WriteBatch WITH Bits <- 2, Width32 <- 5, Width64 <- 7,
           Keys <- {<<>>, <<0, 7, 7, 1>>}, Values <- {<<5, 1>>}, SeqBytes <- 2, CountBytes <- 1,
           MaxOps <- 3, rep <- s1, ops <- s2

Edit == INSTANCE VersionEdit WITH Bits <- 2, Width32 <- 5, Width64 <- 7, Keys <- {<<0, 7, 7, 1>>},
          Names <- {<<7, 5>>}, Numbers <- {3, 127}, kNumLevels <- 2, MaxFields <- 3, edit <- s1

MCForeign == {<<"", <<2>>, "txt">>, <<"x", <<>>, "">>, <<"", <<2, 2, 2, 2>>, "log">>}

MCSources == {NoFile, <<>>, <<1>>, <<1, 2, 3>>}

Census == INSTANCE ASCIICount WITH THREAD_NUM <- 3, BUFFER_SIZE <- 5, MaxFileSize <- 6,
            Chars <- {"a", "b"}, Garbage <- 9,
            size <- s1, buffer <- s2, mainPc <- s3, mainThread <- s4, pc <- s5, index <- s6,
            count <- s7, summation <- s8

Racy == INSTANCE ASCIICount2 WITH THREAD_NUM <- 3, BUFFER_SIZE <- 5, MaxFileSize <- 6,
          Chars <- {"a", "b"},
          size <- s1, buffer <- s2, mainPc <- s3, mainThread <- s4, pc <- s5, index <- s6,
          count <- s7, register <- s8

-----------------------------------------------------------------------------
(* The variables from the n-th on, which smaller modules do not use. *)
rest9 == namedVars
rest8 == <<s8, rest9>>
rest7 == <<s7, rest8>>
rest6 == <<s6, rest7>>
rest5 == <<s5, rest6>>
rest4 == <<s4, rest5>>
rest3 == <<s3, rest4>>
rest2 == <<s2, rest3>>
parts == <<s1, s2, s3, s4, s5, s6, s7, s8>>

PbIdle == /\ type = NULL /\ delimited = NULL /\ written = NULL
          /\ out = NULL /\ in = NULL /\ older = NULL
CopyIdle == file1 = NoFile /\ CopyInit
ListIdle == input = <<>> /\ ListInit

NamesIdle == dir = None /\ NoCall
TracesIdle == BranchInit /\ CacheInit

Rest9 == PbIdle /\ CopyIdle /\ ListIdle /\ FilesInit /\ NamesIdle /\ TracesIdle
Rest8 == s8 = NULL /\ Rest9
Rest7 == s7 = NULL /\ Rest8
Rest6 == s6 = NULL /\ Rest7
Rest5 == s5 = NULL /\ Rest6
Rest4 == s4 = NULL /\ Rest5
Rest3 == s3 = NULL /\ Rest4
Rest2 == s2 = NULL /\ Rest3
NoParts == /\ s1 = NULL /\ s2 = NULL /\ s3 = NULL /\ s4 = NULL
           /\ s5 = NULL /\ s6 = NULL /\ s7 = NULL /\ s8 = NULL

Init ==
  /\ part \in Parts
  /\ \/ part = "log" /\ Log!Init /\ Rest5
     \/ part = "cache" /\ Tables!Init /\ Rest4
     \/ part = "iterator" /\ Iter!Init /\ Rest6
     \/ part = "table" /\ Table!Init /\ Rest7
     \/ part = "batch" /\ Batch!Init /\ Rest3
     \/ part = "edit" /\ Edit!Init /\ Rest2
     \/ part = "disk" /\ NoParts /\ Rest9
     \/ part = "names" /\ NameInit /\ NoParts /\ PbIdle /\ CopyIdle /\ ListIdle /\ FilesInit /\ TracesIdle
     \/ part = "menu" /\ ListInit /\ NoParts /\ PbIdle /\ CopyIdle /\ FilesInit /\ NamesIdle /\ TracesIdle
     \/ part = "copy" /\ CopyInit /\ NoParts /\ PbIdle /\ ListIdle /\ FilesInit /\ NamesIdle /\ TracesIdle
     \/ part = "census" /\ Census!Init /\ Rest9
     \/ part = "racy" /\ Racy!Init /\ Rest9
     \/ part = "nanopb" /\ PbInit /\ NoParts /\ CopyIdle /\ ListIdle /\ FilesInit /\ NamesIdle /\ TracesIdle
     \/ part \in {"branch", "trace"} /\ NoParts /\ Rest9

Next ==
  /\ UNCHANGED part
  /\ \/ part = "log" /\ Log!Next /\ UNCHANGED rest5
     \/ part = "cache" /\ Tables!Next /\ UNCHANGED rest4
     \/ part = "iterator" /\ Iter!Next /\ UNCHANGED rest6
     \/ part = "table" /\ Table!Next /\ UNCHANGED rest7
     \/ part = "batch" /\ Batch!Next /\ UNCHANGED rest3
     \/ part = "edit" /\ Edit!Next /\ UNCHANGED rest2
     \/ part = "disk" /\ FilesNext
        /\ UNCHANGED <<parts, pbVars, copyVars, listVars, nameVars, branchVars, cacheVars>>
     \/ part = "names" /\ NameNext
        /\ UNCHANGED <<parts, pbVars, copyVars, listVars, filesVars, branchVars, cacheVars>>
     \/ part = "menu" /\ ListNext
        /\ UNCHANGED <<parts, pbVars, copyVars, filesVars, nameVars, branchVars, cacheVars>>
     \/ part = "copy" /\ CopyNext
        /\ UNCHANGED <<parts, pbVars, listVars, filesVars, nameVars, branchVars, cacheVars>>
     \/ part = "census" /\ Census!Next /\ UNCHANGED rest9
     \/ part = "racy" /\ Racy!Next /\ UNCHANGED rest9
     \/ part = "nanopb" /\ PbNext
        /\ UNCHANGED <<parts, copyVars, listVars, filesVars, nameVars, branchVars, cacheVars>>
     \/ part = "branch" /\ BranchNext
        /\ UNCHANGED <<parts, pbVars, copyVars, listVars, filesVars, nameVars, cacheVars>>
     \/ part = "trace" /\ CacheNext
        /\ UNCHANGED <<parts, pbVars, copyVars, listVars, filesVars, nameVars, branchVars>>

Spec == Init /\ [][Next]_vars

-----------------------------------------------------------------------------
(* Properties, each that of the module it names; those of the extended     *)
(* modules, CopiesAreTrue, OneAsks, DatabaseOpens, DestroysOnlyOwn,        *)
(* NoNullAccess, CountsAsStatic, CyclesAccountForMisses and ImplementsLRU, *)
(* hold of the idle ones as well.                                          *)

(* A log gives back the records appended to it, whole and in order; a      *)
(* crash costs only the tail, and damage only its block                    *)
(* (db/log_reader.cc:64, 176).                                             *)
LogRecovers ==
  part = "log" => Log!RecordsWholeAndOrdered /\ Log!CrashLosesOnlyTheTail /\ Log!DamageStaysInBlock

(* No cached table is deleted while it is mapped or held, and each is once *)
(* it is neither, even when two threads open the same file or it is        *)
(* evicted meanwhile (include/leveldb/cache.h, util/cache.cc).             *)
NoKeys == [f \in {2, 4, 6} |-> NULL]
NoClients == [t \in {1, 2} |-> NULL]
Promise == INSTANCE Cache WITH Keys <- {2, 4, 6}, Clients <- {1, 2},
             mapped <- IF part = "cache" THEN Tables!Mapped ELSE NoKeys,
             held <- IF part = "cache" THEN Tables!Held ELSE NoClients,
             deleted <- IF part = "cache" THEN Tables!Deleted ELSE {}
ImplementsCache == Promise!Spec

(* The lists, the hash table and the charge of a shard agree, and a shard  *)
(* is never above its capacity for longer than its threads hold entries    *)
(* (util/cache.cc:37-44, 294).                                             *)
ShardsConsistent == part = "cache" => Tables!ListsMatchTable /\ Tables!UsageBounded

(* Over undamaged tables, any sequence of seeks and steps in either        *)
(* direction shows exactly the visible entries, each at its newest value,  *)
(* in order (db/db_iter.cc:147, 195; table/merger.cc:55, 78).              *)
Cursor == INSTANCE OrderedCursor WITH Users <- {2, 3, 4, 5},
            shown <- IF part = "iterator" THEN Iter!CursorShown ELSE {},
            at <- IF part = "iterator" THEN Iter!CursorAt ELSE NULL
ImplementsCursor == Cursor!Spec

(* A walk that steps over a block it could not read reports an error       *)
(* (table/two_level_iterator.cc:154).                                      *)
NoSilentSkip == [][part = "iterator" => Iter!NoSilentSkip]_vars

(* A table gives back every key added to it, or says that it is damaged;   *)
(* approximate offsets ascend; an iterator in a block is where a walk      *)
(* along its keys would be (table/table.cc:221, 253; table/block.cc:149).  *)
TableReadsBack ==
  part = "table" => Table!EveryKeyFound /\ Table!OffsetsAscend /\ Table!BlockIterFollowsKeys

(* What a batch or a version edit encodes is what replaying or decoding it *)
(* gives, and a truncated one is refused (db/write_batch.cc:42,            *)
(* db/version_edit.cc:91).                                                 *)
EncodingsRoundTrip ==
  (part = "batch" => Batch!BatchesReplay) /\ (part = "edit" => Edit!EditsRoundTrip)

(* Private counters add up exactly; the shared ones of ASCIICount2 may     *)
(* lose increments but never count a character that is not there.          *)
CensusSound ==
  /\ part = "census" => Census!CensusSound
  /\ part = "racy" => Racy!NeverOvercounts

(* A message is read back as it was written, through callbacks, submessages *)
(* and extensions as well; an older type skips the fields it does not know; *)
(* the size computed for a message is that of its encoding                  *)
(* (pb_encode.c:451, 480; pb_decode.c:891, 292).                            *)
MessagesRoundTrip ==
  part = "nanopb" => DecodesWhatWasEncoded /\ UnknownFieldsSkipped /\ SizeIsExact

=============================================================================
