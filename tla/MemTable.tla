------------------------------ MODULE MemTable -------------------------------
(***************************************************************************)
(* The memtable of leveldb (db/memtable.cc), its skip list (db/skiplist.h) *)
(* and its allocator (util/arena.cc): one writer inserts entries while     *)
(* readers walk the list without a lock.  A step of a reader is one load   *)
(* of a next pointer; a step of the writer is one load or one store.  A    *)
(* node is its key; the head sorts before every key.                       *)
(***************************************************************************)
EXTENDS DBFormat, Sequences

CONSTANTS UserKeys, Walkers, kMaxHeight,
          MaxEntries, MaxWalks,
          KeyBytes, ValueBytes, \* of an encoded entry; a deletion has no value
          NodeBytes,           \* sizeof(Node), with one next pointer
          PointerBytes,         \* of a pointer; nodes are aligned on it
          kBlockSize           \* 4096, the blocks of the arena

(* NULL is no key and no address, and nothing allocated is empty           *)
(* (util/arena.h:46).                                                      *)
ASSUME MemAssumption ==
  /\ UserKeys \subseteq Int
  /\ NULL \notin [user : Int, seq : Nat, type : {kTypeDeletion, kTypeValue}]
  /\ NULL \notin [block : Nat, offset : Nat]
  /\ kMaxHeight \in Nat \ {0}
  /\ {KeyBytes, NodeBytes, PointerBytes} \subseteq Nat \ {0}
  /\ {ValueBytes, kBlockSize} \subseteq Nat

VARIABLES nodes,    \* next[node][level] of every node, and max_height_
          insert,   \* the locals of SkipList::Insert
          walk,     \* the locals of every reader's call
          walks,    \* calls made by readers
          arena     \* the Arena, and the regions it handed out

memVars == <<nodes, insert, walk, walks, arena>>

-----------------------------------------------------------------------------
(* The arena.  An address is a block and an offset in it; new[] gives      *)
(* every block an aligned start.  Each operator gives the arena after an   *)
(* allocation.                                                             *)

EmptyArena == [blocks |-> <<>>, ptr |-> NULL, remaining |-> 0, usage |-> 0, regions |-> <<>>]
Address(block, offset) == [block |-> block, offset |-> offset]

HandOut(a, address, bytes, aligned) ==
  [a EXCEPT !.regions = Append(@, [at |-> address, bytes |-> bytes, aligned |-> aligned])]

AllocateNewBlock(a, bytes) ==
  [a EXCEPT !.blocks = Append(@, bytes), !.usage = @ + bytes + PointerBytes]

(* A large object has a block of its own; the current one stays.           *)
OwnBlock(a, bytes, aligned) ==
  HandOut(AllocateNewBlock(a, bytes), Address(Len(a.blocks) + 1, 0), bytes, aligned)

(* Otherwise what remains of the current block is wasted.                  *)
NextBlock(a, bytes, aligned) ==
  [HandOut(AllocateNewBlock(a, kBlockSize), Address(Len(a.blocks) + 1, 0), bytes, aligned)
     EXCEPT !.ptr = Address(Len(a.blocks) + 1, bytes), !.remaining = kBlockSize - bytes]

AllocateFallback(a, bytes, aligned) ==
  IF bytes > kBlockSize \div 4 THEN OwnBlock(a, bytes, aligned) ELSE NextBlock(a, bytes, aligned)

(* From the current block, after skipping slop bytes of it.                *)
Bump(a, bytes, slop, aligned) ==
  [HandOut(a, [a.ptr EXCEPT !.offset = @ + slop], bytes, aligned)
     EXCEPT !.ptr.offset = @ + bytes + slop, !.remaining = @ - bytes - slop]

Slop(a) == IF a.ptr = NULL THEN 0 ELSE (PointerBytes - (a.ptr.offset % PointerBytes)) % PointerBytes

Allocate(a, bytes) ==
  IF bytes <= a.remaining THEN Bump(a, bytes, 0, FALSE) ELSE AllocateFallback(a, bytes, FALSE)

AllocateAligned(a, bytes) ==
  IF bytes + Slop(a) <= a.remaining THEN Bump(a, bytes, Slop(a), TRUE)
  ELSE AllocateFallback(a, bytes, TRUE)

(* SkipList::NewNode. *)
NewNode(a, height) == AllocateAligned(a, NodeBytes + PointerBytes * (height - 1))

-----------------------------------------------------------------------------
(* The list. *)

HeadNode == InternalKey(0, 0, kTypeDeletion)
Next0(node) == nodes.next[node][0]

(* The head and the nodes that are linked at a level.                      *)
OnLevel(l) ==
  ({HeadNode} \cup {nodes.next[n][l] : n \in {m \in DOMAIN nodes.next : l \in DOMAIN nodes.next[m]}})
    \ {NULL}
LinkedNodes == OnLevel(0) \ {HeadNode}
IdleWalk == [pc |-> "idle"]

MemInit ==
  /\ nodes = [next |-> [n \in {HeadNode} |-> [l \in 0..kMaxHeight - 1 |-> NULL]], height |-> 1]
  /\ insert = [pc |-> "idle"]
  /\ walk = [w \in Walkers |-> IdleWalk]
  /\ walks = 0
  /\ arena = NewNode(EmptyArena, kMaxHeight)

-----------------------------------------------------------------------------
(* SkipList::Insert. *)

KeyIsAfterNode(key, n) == n # NULL /\ Before(n, key)

EncodedLen(t) == KeyBytes + (IF t = kTypeValue THEN ValueBytes ELSE 0)

RandomHeight == 1..kMaxHeight

(* MemTable::Add: an entry with the next sequence number.                  *)
NextSequence == Cardinality(DOMAIN nodes.next)

Add(u, t) ==
  /\ insert.pc = "idle" /\ NextSequence <= MaxEntries
  /\ insert' = [pc |-> "find", key |-> InternalKey(u, NextSequence, t), height |-> 0,
                x |-> HeadNode, level |-> nodes.height - 1,
                prev |-> [l \in 0..kMaxHeight - 1 |-> HeadNode]]
  /\ arena' = Allocate(arena, EncodedLen(t))
  /\ UNCHANGED <<nodes, walk, walks>>

(* FindGreaterOrEqual(key, prev): the node before key at every level in    *)
(* use; above, it is the head.                                             *)
AtPrev == ~KeyIsAfterNode(insert.key, nodes.next[insert.x][insert.level])

FindNext ==
  /\ insert.pc = "find" /\ ~AtPrev
  /\ insert' = [insert EXCEPT !.x = nodes.next[insert.x][insert.level]]
  /\ UNCHANGED <<nodes, walk, walks, arena>>

FindBelow ==
  /\ insert.pc = "find" /\ AtPrev /\ insert.level > 0
  /\ insert' = [insert EXCEPT !.prev[insert.level] = insert.x, !.level = @ - 1]
  /\ UNCHANGED <<nodes, walk, walks, arena>>

(* The search is over, and a random height is chosen.  The memory of the   *)
(* node, which nobody can see before it is linked, is allocated here.      *)
FoundPrev ==
  /\ insert.pc = "find" /\ AtPrev /\ insert.level = 0
  /\ \E height \in RandomHeight :
       /\ insert' = [insert EXCEPT !.pc = IF height > nodes.height THEN "grow" ELSE "link",
                                   !.height = height, !.prev[0] = insert.x]
       /\ arena' = NewNode(arena, height)
  /\ UNCHANGED <<nodes, walk, walks>>

(* max_height_.NoBarrier_Store(height) *)
Grow ==
  /\ insert.pc = "grow"
  /\ nodes' = [nodes EXCEPT !.height = insert.height]
  /\ insert' = [insert EXCEPT !.pc = "link"]
  /\ UNCHANGED <<walk, walks, arena>>

(* The nodes with x among them, and with no next yet when it is new. *)
WithNode(x, height) ==
  IF x \in DOMAIN nodes.next THEN nodes.next
  ELSE [n \in DOMAIN nodes.next \cup {x} |->
          IF n = x THEN [i \in 0..height - 1 |-> NULL] ELSE nodes.next[n]]

\* Mutant of Link: the levels are linked top down.
Link_TopDown ==
  /\ insert.pc = "link"
  /\ LET l == insert.height - 1 - insert.level
         x == insert.key
         made == WithNode(x, insert.height)
     IN  /\ nodes' = [nodes EXCEPT !.next =
                        [made EXCEPT ![x][l] = made[insert.prev[l]][l], ![insert.prev[l]][l] = x]]
         /\ insert' = IF l = 0 THEN [pc |-> "idle"]
                      ELSE [insert EXCEPT !.level = @ + 1]
  /\ UNCHANGED <<walk, walks, arena>>

(* x->NoBarrier_SetNext(i, ...), which no reader can see yet, and          *)
(* prev[i]->SetNext(i, x); the node is made with the first of them.        *)
Link ==
  /\ insert.pc = "link"
  /\ LET l == insert.level
         x == insert.key
         made == WithNode(x, insert.height)
     IN  /\ nodes' = [nodes EXCEPT !.next =
                        [made EXCEPT ![x][l] = made[insert.prev[l]][l], ![insert.prev[l]][l] = x]]
         /\ insert' = IF l + 1 = insert.height THEN [pc |-> "idle"]
                      ELSE [insert EXCEPT !.level = l + 1]
  /\ UNCHANGED <<walk, walks, arena>>

-----------------------------------------------------------------------------
(* SkipList::Iterator: a call remembers which entries were in the list and *)
(* at which sequence number the database was when it began.                *)

Begin(w, call, key) ==
  /\ walk[w].pc = "idle" /\ walks < MaxWalks
  /\ walk' = [walk EXCEPT ![w] =
       [pc |-> "walk", call |-> call, key |-> key, x |-> HeadNode,
        level |-> nodes.height - 1, before |-> LinkedNodes, result |-> NULL]]
  /\ walks' = walks + 1
  /\ UNCHANGED <<nodes, insert, arena>>

(* Seek and MemTable::Get: FindGreaterOrEqual. *)
Seek(w, u, s) == Begin(w, "seek", LookupKey(u, s))
(* Prev: FindLessThan. *)
Prev(w, k) == Begin(w, "less", k)
(* SeekToLast: FindLast. *)
SeekToLast(w) == Begin(w, "last", NULL)

(* Does the walk go on along its level? *)
GoesOn(c, next) == next # NULL /\ (c.call = "last" \/ KeyIsAfterNode(c.key, next))

WalkStep(w) ==
  /\ walk[w].pc = "walk"
  /\ LET c == walk[w]
         next == nodes.next[c.x][c.level]
     IN  walk' = [walk EXCEPT ![w] =
           IF GoesOn(c, next) THEN [c EXCEPT !.x = next]
           ELSE IF c.level > 0 THEN [c EXCEPT !.level = @ - 1]
           ELSE [c EXCEPT !.pc = "done",
                          !.result = IF c.call = "seek" THEN next
                                     ELSE IF c.x = HeadNode THEN NULL ELSE c.x]]
  /\ UNCHANGED <<nodes, insert, walks, arena>>

(* Next, once positioned: one load. *)
NextEntry(w) ==
  /\ walk[w].pc = "done" /\ walk[w].result # NULL /\ walks < MaxWalks
  /\ walk' = [walk EXCEPT ![w] =
       [pc |-> "done", call |-> "next", key |-> @.result, x |-> @.result, level |-> 0,
        before |-> LinkedNodes, result |-> Next0(@.result)]]
  /\ walks' = walks + 1
  /\ UNCHANGED <<nodes, insert, arena>>

End(w) ==
  /\ walk[w].pc = "done"
  /\ walk' = [walk EXCEPT ![w] = IdleWalk]
  /\ UNCHANGED <<nodes, insert, walks, arena>>

(* What MemTable::Get makes of the entry that Seek stopped at. *)
GetResult(c) == IF c.result # NULL /\ c.result.user = c.key.user THEN c.result ELSE NULL

MemNext ==
  \/ \E u \in UserKeys, t \in {kTypeDeletion, kTypeValue} : Add(u, t)
  \/ FindNext \/ FindBelow \/ FoundPrev \/ Grow \/ Link
  \/ \E w \in Walkers :
       \/ \E u \in UserKeys, s \in 0..Cardinality(LinkedNodes) : Seek(w, u, s)
       \/ \E k \in LinkedNodes : Prev(w, k)
       \/ SeekToLast(w) \/ WalkStep(w) \/ NextEntry(w) \/ End(w)

MemSpec == MemInit /\ [][MemNext]_memVars

-----------------------------------------------------------------------------
(* The node at which a walk along S from n arrives, if next is next of n.  *)
Follows(n, k) == k # HeadNode /\ (n = HeadNode \/ Before(n, k))
IsNextIn(S, n, next) ==
  IF next = NULL THEN \A k \in S : ~Follows(n, k)
  ELSE next \in S /\ Follows(n, next) /\ \A k \in S : ~(Follows(n, k) /\ Before(k, next))

(* Every level is the list of its nodes in order, and is part of the level *)
(* below, while an insertion is at any point: readers that go down a level *)
(* never step back (db/skiplist.h:14-27, Insert links bottom up).          *)
LevelsAreSublists ==
  /\ \A l \in 0..kMaxHeight - 1 :
       \A n \in OnLevel(l) : IsNextIn(OnLevel(l), n, nodes.next[n][l])
  /\ \A l \in 1..kMaxHeight - 1 : OnLevel(l) \subseteq OnLevel(l - 1)

Between(k, c) ==
  CASE c.call = "seek" -> ~Before(k, c.key) /\ (c.result # NULL => Before(k, c.result))
    [] c.call = "next" -> Before(c.key, k) /\ (c.result # NULL => Before(k, c.result))
    [] c.call = "less" -> Before(k, c.key) /\ (c.result # NULL => Before(c.result, k))
    [] OTHER -> c.result # NULL => Before(c.result, k)

(* A call of an iterator skips no entry that was in the list when the call *)
(* began, whatever is inserted while it walks (db/skiplist.h:258, 289,     *)
(* 305).                                                                   *)
NoEntrySkipped ==
  \A w \in Walkers : walk[w].pc = "done" => ~\E k \in walk[w].before : Between(k, walk[w])

(* A Get of a user key at a sequence number the database has published     *)
(* returns the newest entry at or below it (db/memtable.cc:108).           *)
GetReturnsNewest ==
  \A w \in Walkers :
    walk[w].pc = "done" /\ walk[w].call = "seek" =>
      LET key == walk[w].key
          seen == {k \in LinkedNodes : k.user = key.user /\ k.seq <= key.seq}
      IN  GetResult(walk[w]) = IF seen = {} THEN NULL ELSE Least(seen, Before)

BlocksUsage(blocks) ==
  LET upTo[i \in 0..Len(blocks)] ==
        IF i = 0 THEN 0 ELSE upTo[i - 1] + blocks[i] + PointerBytes
  IN  upTo[Len(blocks)]

(* What the arena hands out lies inside a block, overlaps nothing else and *)
(* is aligned when it has to be: nodes hold atomic pointers.  MemoryUsage, *)
(* by which memtables are switched, is what the blocks take                *)
(* (util/arena.cc:21, 38, 58).                                             *)
RegionsApart ==
  /\ \A i \in DOMAIN arena.regions :
       LET r == arena.regions[i]
       IN  /\ r.at.offset + r.bytes <= arena.blocks[r.at.block]
           /\ r.aligned => r.at.offset % PointerBytes = 0
           /\ \A j \in 1..i - 1 :
                LET q == arena.regions[j]
                IN  q.at.block = r.at.block =>
                      \/ q.at.offset + q.bytes <= r.at.offset
                      \/ r.at.offset + r.bytes <= q.at.offset
  /\ arena.usage = BlocksUsage(arena.blocks)

(* Readers without a lock find the newest entry and skip none, while an    *)
(* insertion is at any point, and the memory of the nodes is apart         *)
(* (db/skiplist.h:14-27, db/memtable.cc:108, util/arena.cc).               *)
MemTableConsistent == LevelsAreSublists /\ NoEntrySkipped /\ GetReturnsNewest /\ RegionsApart

=============================================================================
