---------------------------- MODULE LocalStorage ----------------------------
(***************************************************************************)
(* The encrypted block file behind every cache of the application          *)
(* (core/storage/local_storage.cpp).  A record is a chain of fixed-size    *)
(* blocks: a head block and continuation blocks linked by "next".  Blocks  *)
(* are written one at a time, continuations first and the head last, and   *)
(* the process may die between any two writes.  Opening a file rebuilds    *)
(* the whole in-memory index (m_head, m_free, m_roots, m_dirId) by a scan. *)
(*                                                                         *)
(* Abstractions.  A payload is a model value that needs ValueChunks[v]     *)
(* blocks; block i of it carries <<data, piece = i>>.  The AEAD of a block *)
(* is kept as one fact: a block that was never written ("hole") does not   *)
(* authenticate.  m_free is the multiset of the ids on the stack: which    *)
(* free id alloc() pops is left open, so that nothing depends on the LIFO  *)
(* order, and an id pushed twice is visible.  m_byTag is m_head grouped by *)
(* tag and is not kept twice.                                              *)
(***************************************************************************)
EXTENDS Integers, Sequences

CONSTANTS
  MaxBlocks,    \* bound on the number of blocks of the file
  Values,       \* payloads of records
  ValueChunks,  \* chunks(v.size()): blocks a payload needs
  Names,        \* names of roots
  DirChunks,    \* blocks the directory needs, by the set of names it holds
  Tags,         \* tags of user records
  DirTag,       \* kDirTag, the reserved tag of the directory record
  NoData        \* the contents of a block that carries no data

Ids == 1..MaxBlocks
Ids0 == 0..MaxBlocks   \* 0 is "no block"
Directories == [Names -> Ids0]
Payloads == Values \cup Directories
\* What a record reads as, and what a caller asks for (id is 0 for an insert).
Contents == [tag : Tags \cup {DirTag}, data : Payloads]
Requests ==
  [kind : {"insert", "update", "remove"}, tag : Tags \cup {DirTag, NoData},
   data : Payloads \cup {NoData}, id : Ids0]

ASSUME ConstantsAssumption ==
  /\ MaxBlocks \in Nat
  /\ ValueChunks \in [Values -> Nat \ {0}]
  /\ DirChunks \in [SUBSET Names -> Nat \ {0}]
  /\ DirTag \notin Tags
  /\ NoData \notin Tags \cup {DirTag}
  /\ Values \cap Directories = {}
  /\ NoData \notin Payloads \cup Contents \cup Requests

\* chunks(): never less than one block, even for an empty payload.
NumChunks(p) ==
  IF p \in Values THEN ValueChunks[p] ELSE DirChunks[{n \in Names : p[n] # 0}]

VARIABLES
  header,     \* block 0 of the file: "none" (empty file), "short", "full"
  disk,       \* blocks 1, 2, ... of the file
  fsize,      \* number of whole blocks the file is long
  m_fd,       \* "open" when the file descriptor is >= 0, else "closed"
  m_nblocks,
  m_free,     \* how many times an id is on the free stack
  m_head,     \* index of records
  m_roots,    \* name -> record id, 0 when the name is not a root
  m_dirId,
  op          \* the operation holding m_mu, with its local variables

fileVars == <<header, disk, fsize>>
memVars == <<m_fd, m_nblocks, m_free, m_head, m_roots, m_dirId>>
vars == <<header, disk, fsize, m_fd, m_nblocks, m_free, m_head, m_roots, m_dirId, op>>

IsOpen == m_fd = "open"

NoHead == [tag |-> NoData, next |-> 0]
HeadInfo == [tag : Tags \cup {DirTag}, next : Ids0]

BlockOf(type, tag, next, data, piece) ==
  [type |-> type, tag |-> tag, next |-> next, data |-> data, piece |-> piece]
Hole == BlockOf("hole", NoData, 0, NoData, 0)
FreeBlock == BlockOf("free", NoData, 0, NoData, 0)
Blocks ==
  [type : {"hole", "free", "head", "cont"}, tag : Tags \cup {DirTag, NoData},
   next : Ids0, data : Payloads \cup {NoData}, piece : Nat]

\* What an operation under m_mu is doing: kind, payload and tag, the vector
\* ids (ids[1] is the head), the position of the block written next, and the
\* continuation blocks of the record's previous contents.
OpOf(kind, tag, data, ids, piece, old) ==
  [kind |-> kind, tag |-> tag, data |-> data, ids |-> ids, piece |-> piece, old |-> old]
Idle == OpOf("none", NoData, NoData, <<>>, 0, {})
Ops ==
  [kind : {"none", "create", "insert", "update", "remove"},
   tag : Tags \cup {DirTag, NoData}, data : Payloads \cup {NoData},
   ids : Seq(Ids), piece : Nat, old : SUBSET Ids]

-----------------------------------------------------------------------------
(* Chains                                                                  *)

\* The blocks met by following "next" from block start: what every set of
\* blocks that contains start and is closed under "next" contains.
Reach(d, start) ==
  LET closed == {S \in SUBSET Ids :
                   start \in S \cup {0} /\ \A c \in S : d[c].next \in S \cup {0}}
  IN  {c \in Ids : \A S \in closed : c \in S}

Heads(d) == {b \in Ids : d[b].type = "head"}
Continuations(d, h) == Reach(d, d[h].next)
Live(d) == Heads(d) \cup UNION {Continuations(d, h) : h \in Heads(d)}

\* getLocked() returns the payload of the head: the chain holds all of its
\* pieces, in order, and nothing else.
Whole(d, h) ==
  /\ d[h].piece = 1
  /\ \A c \in {h} \cup Continuations(d, h) :
       /\ d[c].data = d[h].data
       /\ IF d[c].next = 0 THEN d[c].piece = NumChunks(d[h].data)
                           ELSE d[d[c].next].piece = d[c].piece + 1

-----------------------------------------------------------------------------
(* Opening and closing                                                     *)

Init ==
  /\ header = "none"
  /\ disk = [b \in Ids |-> Hole]
  /\ fsize = 0
  /\ m_fd = "closed"
  /\ m_nblocks = 0
  /\ m_free = [b \in Ids |-> 0]
  /\ m_head = [b \in Ids |-> NoHead]
  /\ m_roots = [n \in Names |-> 0]
  /\ m_dirId = 0
  /\ op = Idle

\* createHeader() on an empty file: the 84 header bytes are written ...
CreateHeader ==
  /\ ~IsOpen /\ op = Idle /\ header = "none"
  /\ header' = "short"
  /\ op' = OpOf("create", NoData, NoData, <<>>, 0, {})
  /\ UNCHANGED <<disk, fsize, memVars>>

\* ... and then the file is extended to one block.  The scan that follows
\* finds no block, and the store is open.
ExtendHeader ==
  /\ op.kind = "create"
  /\ header' = "full"
  /\ m_fd' = "open"
  /\ op' = Idle
  /\ UNCHANGED <<disk, fsize, m_nblocks, m_free, m_head, m_roots, m_dirId>>

\* Every block of the file authenticates.
Readable(d, n) == \A b \in 1..n : d[b].type # "hole"

\* From block start on a chain consists of continuation blocks and has no loop.
ChainIntact(d, start) ==
  \A c \in Reach(d, start) : d[c].type = "cont" /\ c \notin Reach(d, d[c].next)

\* The loop over the heads in scan() does not throw "broken block chain":
\* chains are intact, and no block is met from two heads.
ChainsIntact(d) ==
  \A h \in Heads(d) :
    /\ ChainIntact(d, d[h].next)
    /\ \A g \in Heads(d) \ {h} : Continuations(d, g) \cap Continuations(d, h) = {}

\* Free blocks, and continuation blocks no record points to.
ScanFree(d, n) ==
  {b \in 1..n : d[b].type = "free" \/ (d[b].type = "cont" /\ b \notin Live(d))}

\* loadHeader(), scan() and loadDirectory() on an existing file.  When one of
\* them throws nothing changes: the action is not enabled.
Open ==
  /\ ~IsOpen /\ op = Idle /\ header = "full"
  /\ Readable(disk, fsize)
  /\ ChainsIntact(disk)
  /\ \E n \in 0..fsize :
       \* trailing free blocks are cut off the file
       /\ n = 0 \/ n \notin ScanFree(disk, fsize)
       /\ \A b \in (n + 1)..fsize : b \in ScanFree(disk, fsize)
       /\ fsize' = n
       /\ m_nblocks' = n
       /\ disk' = [b \in Ids |-> IF b \in (n + 1)..fsize THEN Hole ELSE disk[b]]
       /\ m_free' = [b \in Ids |-> IF b <= n /\ b \in ScanFree(disk, fsize) THEN 1 ELSE 0]
  /\ m_head' = [b \in Ids |-> IF b \in Heads(disk)
                              THEN [tag |-> disk[b].tag, next |-> disk[b].next]
                              ELSE NoHead]
  /\ LET dirs == {h \in Heads(disk) : disk[h].tag = DirTag}
     IN  \/ /\ dirs = {}
            /\ m_dirId' = 0
            /\ m_roots' = [n \in Names |-> 0]
         \/ /\ m_dirId' \in dirs
            /\ \A h \in dirs : m_dirId' <= h
            /\ Whole(disk, m_dirId')
            /\ m_roots' = disk[m_dirId'].data
  /\ m_fd' = "open"
  /\ UNCHANGED <<header, op>>

ForgetMemory ==
  /\ m_fd' = "closed"
  /\ m_nblocks' = 0
  /\ m_free' = [b \in Ids |-> 0]
  /\ m_head' = [b \in Ids |-> NoHead]
  /\ m_roots' = [n \in Names |-> 0]
  /\ m_dirId' = 0
  /\ op' = Idle

\* The destructor's cleanup(): no operation is in progress.
Close == IsOpen /\ op = Idle /\ ForgetMemory /\ UNCHANGED fileVars

\* The process dies inside an operation; what it wrote so far stays in the file.
Crash == op # Idle /\ ForgetMemory /\ UNCHANGED fileVars

-----------------------------------------------------------------------------
(* Operations                                                              *)

InsertOp(data, tag) == OpOf("insert", tag, data, <<>>, NumChunks(data), {})
UpdateOp(d, id, data) ==
  OpOf("update", m_head[id].tag, data, <<id>>, NumChunks(data),
       Reach(d, m_head[id].next))

\* saveDirectoryLocked(): the first save inserts the directory record.
SaveDirectoryOp(d, roots) ==
  IF m_dirId = 0 THEN InsertOp(roots, DirTag) ELSE UpdateOp(d, m_dirId, roots)

\* update(), remove() and setRoot() refuse the directory and unknown ids.
IsRecord(id) == id # m_dirId /\ m_head[id] # NoHead

Insert(data, tag) ==
  /\ IsOpen /\ op = Idle
  /\ op' = InsertOp(data, tag)
  /\ UNCHANGED <<fileVars, memVars>>

Update(id, data) ==
  /\ IsOpen /\ op = Idle /\ IsRecord(id)
  /\ op' = UpdateOp(disk, id, data)
  /\ UNCHANGED <<fileVars, memVars>>

Remove(id) ==
  /\ IsOpen /\ op = Idle /\ IsRecord(id)
  /\ op' = OpOf("remove", NoData, NoData, <<id>>, 1, Reach(disk, m_head[id].next))
  /\ UNCHANGED <<fileVars, memVars>>

SetRoot(name, id) ==
  /\ IsOpen /\ op = Idle /\ IsRecord(id)
  /\ m_roots' = [m_roots EXCEPT ![name] = id]
  /\ op' = SaveDirectoryOp(disk, m_roots')
  /\ UNCHANGED <<fileVars, m_fd, m_nblocks, m_free, m_head, m_dirId>>

RemoveRoot(name) ==
  /\ IsOpen /\ op = Idle /\ m_roots[name] # 0
  /\ m_roots' = [m_roots EXCEPT ![name] = 0]
  /\ op' = SaveDirectoryOp(disk, m_roots')
  /\ UNCHANGED <<fileVars, m_fd, m_nblocks, m_free, m_head, m_dirId>>

Writing == op.kind \in {"insert", "update"}
Allocating == Writing /\ Len(op.ids) < NumChunks(op.data)

\* alloc(): a free block if there is one, otherwise the file grows.
AllocFree(b) ==
  /\ Allocating
  /\ m_free[b] > 0
  /\ m_free' = [m_free EXCEPT ![b] = @ - 1]
  /\ op' = [op EXCEPT !.ids = Append(@, b)]
  /\ UNCHANGED <<fileVars, m_fd, m_nblocks, m_head, m_roots, m_dirId>>

AllocGrow ==
  /\ Allocating
  /\ \A b \in Ids : m_free[b] = 0
  /\ m_nblocks < MaxBlocks
  /\ m_nblocks' = m_nblocks + 1
  /\ op' = [op EXCEPT !.ids = Append(@, m_nblocks + 1)]
  /\ UNCHANGED <<fileVars, m_fd, m_free, m_head, m_roots, m_dirId>>

\* pwriteFull() of one block; writing past the end leaves a hole before it.
WriteBlock(id, block) ==
  /\ disk' = [disk EXCEPT ![id] = block]
  /\ fsize' = IF id > fsize THEN id ELSE fsize
  /\ UNCHANGED header

\* writeChain() links a block to the one written before it.
NextOf(i) == IF i < Len(op.ids) THEN op.ids[i + 1] ELSE 0

ReadyToWrite == Writing /\ Len(op.ids) = NumChunks(op.data)

\* Mutant: a continuation block carries the piece before its own.
WriteContinuationWrongPiece ==
  /\ ReadyToWrite /\ op.piece > 1
  /\ WriteBlock(op.ids[op.piece],
                BlockOf("cont", NoData, NextOf(op.piece), op.data, op.piece - 1))
  /\ op' = [op EXCEPT !.piece = @ - 1]
  /\ UNCHANGED memVars

\* writeChain(): continuation blocks, from the last to the second.
WriteContinuation ==
  /\ ReadyToWrite /\ op.piece > 1
  /\ WriteBlock(op.ids[op.piece],
                BlockOf("cont", NoData, NextOf(op.piece), op.data, op.piece))
  /\ op' = [op EXCEPT !.piece = @ - 1]
  /\ UNCHANGED memVars

\* Mutants of WriteHead: the head is written before its continuation blocks;
\* updateLocked() does not recycle the old blocks.
WriteHeadAs(ready, freed) ==
  /\ ReadyToWrite /\ ready
  /\ WriteBlock(op.ids[1], BlockOf("head", op.tag, NextOf(1), op.data, 1))
  /\ m_head' = [m_head EXCEPT ![op.ids[1]] = [tag |-> op.tag, next |-> NextOf(1)]]
  /\ m_free' = [b \in Ids |-> IF b \in freed THEN m_free[b] + 1 ELSE m_free[b]]
  /\ m_dirId' = IF op.tag = DirTag THEN op.ids[1] ELSE m_dirId
  /\ op' = Idle
  /\ UNCHANGED <<m_fd, m_nblocks, m_roots>>
WriteHeadFirst == WriteHeadAs(op.piece = Len(op.ids), op.old)
WriteHeadLeaking == WriteHeadAs(op.piece = 1, {})

\* writeChain(): the head block, and then the index and the free list as
\* insertLocked() and updateLocked() leave them.
WriteHead ==
  /\ ReadyToWrite /\ op.piece = 1
  /\ WriteBlock(op.ids[1], BlockOf("head", op.tag, NextOf(1), op.data, 1))
  /\ m_head' = [m_head EXCEPT ![op.ids[1]] = [tag |-> op.tag, next |-> NextOf(1)]]
  /\ m_free' = [b \in Ids |-> IF b \in op.old THEN m_free[b] + 1 ELSE m_free[b]]
  /\ m_dirId' = IF op.tag = DirTag THEN op.ids[1] ELSE m_dirId
  /\ op' = Idle
  /\ UNCHANGED <<m_fd, m_nblocks, m_roots>>

\* removeLocked(): the head block is overwritten, the record leaves the index,
\* its blocks are recycled, its roots are dropped, and the directory is saved
\* when there were any.
FreeHead ==
  LET id == op.ids[1]
      freed == {id} \cup op.old
      roots == [n \in Names |-> IF m_roots[n] = id THEN 0 ELSE m_roots[n]]
  IN  /\ op.kind = "remove"
      /\ WriteBlock(id, FreeBlock)
      /\ m_head' = [m_head EXCEPT ![id] = NoHead]
      /\ m_free' = [b \in Ids |-> IF b \in freed THEN m_free[b] + 1 ELSE m_free[b]]
      /\ m_roots' = roots
      /\ op' = IF roots # m_roots THEN SaveDirectoryOp(disk', roots) ELSE Idle
      /\ UNCHANGED <<m_fd, m_nblocks, m_dirId>>

\* pwriteFull() throws: the exception unwinds through the operation and the
\* blocks it allocated are in neither the index nor the free list.
WriteFails ==
  /\ ReadyToWrite \/ op.kind = "remove"
  /\ op' = Idle
  /\ UNCHANGED <<fileVars, memVars>>

Next ==
  \/ CreateHeader \/ ExtendHeader \/ Open \/ Close \/ Crash
  \/ \E v \in Values :
       \/ \E t \in Tags : Insert(v, t)
       \/ \E id \in Ids : Update(id, v)
  \/ \E id \in Ids : Remove(id)
  \/ \E n \in Names : RemoveRoot(n) \/ \E id \in Ids : SetRoot(n, id)
  \/ AllocGrow \/ \E b \in Ids : AllocFree(b)
  \/ WriteContinuation \/ WriteHead \/ FreeHead \/ WriteFails

Spec == Init /\ [][Next]_vars

-----------------------------------------------------------------------------
(* Properties                                                              *)

TypeOK ==
  /\ header \in {"none", "short", "full"}
  /\ disk \in [Ids -> Blocks]
  /\ fsize \in Ids0
  /\ m_fd \in {"closed", "open"}
  /\ m_nblocks \in Ids0
  /\ m_free \in [Ids -> Nat]
  /\ m_head \in [Ids -> HeadInfo \cup {NoHead}]
  /\ m_roots \in Directories
  /\ m_dirId \in Ids0
  /\ op \in Ops

\* Blocks allocated by the operation in progress and not yet part of a record.
Reserved ==
  IF Writing
  THEN {op.ids[i] : i \in (IF op.kind = "update" THEN 2 ELSE 1)..Len(op.ids)}
  ELSE {}

\* Whatever sequence of operations, failed writes, crashes and scans came
\* before, a block has at most one owner: it is on the free stack at most
\* once, and then neither in a record's chain nor reserved by the operation in
\* progress; a reserved block is in no record's chain; and every block with an
\* owner lies below m_nblocks, so that growing the file never overwrites one.
BlockOwnership ==
  IsOpen =>
    \A b \in Ids :
      /\ m_free[b] <= 1
      /\ m_free[b] = 1 => b \notin Live(disk) \cup Reserved
      /\ b \in Reserved => b \notin Live(disk)
      /\ m_free[b] = 1 \/ b \in Live(disk) \cup Reserved => b <= m_nblocks

\* At every instant, and so after a crash at every instant, scan() would find
\* each record's chain complete, acyclic and disjoint from the others: "broken
\* block chain at record" is never thrown.
ChainsAlwaysIntact == ChainsIntact(disk)

\* The index and the file never disagree about which records exist, their tags
\* and where their continuation starts, also in the middle of an operation and
\* after one that failed: readers that trust m_head find a head block.
IndexMatchesFile ==
  IsOpen =>
    \A b \in Ids :
      m_head[b] = IF b \in Heads(disk)
                  THEN [tag |-> disk[b].tag, next |-> disk[b].next] ELSE NoHead

\* There is at most one directory record in the file, and an open store knows
\* it: a second one would make loadDirectory() pick a stale set of roots.
OneDirectory ==
  LET dirs == {h \in Heads(disk) : disk[h].tag = DirTag}
  IN  /\ \A g, h \in dirs : g = h
      /\ IsOpen => dirs = IF m_dirId = 0 THEN {} ELSE {m_dirId}

\* The file and what the process remembers of it never contradict each other,
\* in the middle of an operation, after one that failed and after a crash at any
\* instant: the conjunction of the four above (updateLocked(), removeLocked(),
\* writeChain() and scan() keep it together or not at all).
Integrity ==
  /\ TypeOK
  /\ BlockOwnership
  /\ ChainsAlwaysIntact
  /\ IndexMatchesFile
  /\ OneDirectory

Lost == {b \in 1..m_nblocks : b \notin Live(disk) \cup Reserved /\ m_free[b] = 0}

\* Space is lost only by a write that fails, and only until the store is opened
\* again: no operation that completes drops a block (alloc(), updateLocked(),
\* removeLocked()), and after scan() each block below m_nblocks is in a record
\* or on the free stack.
NothingLeaks ==
  [][/\ IsOpen' => Lost' \subseteq Lost \/ WriteFails
     /\ ~IsOpen /\ IsOpen' => Lost' = {}]_vars

\* What the records of the file read as, and what has been asked for.
Records ==
  [b \in Ids |->
     IF b \notin Heads(disk) THEN NoData
     ELSE [tag |-> disk[b].tag,
           data |-> IF Whole(disk, b) THEN disk[b].data ELSE NoData]]
Request ==
  IF op.kind \in {"none", "create"} THEN NoData
  ELSE [kind |-> op.kind, tag |-> op.tag, data |-> op.data,
        id |-> IF op.kind = "insert" THEN 0 ELSE op.ids[1]]

Abstract == INSTANCE RecordStore WITH
  RecordIds <- Ids, Contents <- Contents, None <- NoData,
  records <- Records, request <- Request
\* What a caller may rely on: insert, update and remove each take effect at one
\* instant, completely or (after a crash or a failed write) not at all, and
\* nothing else ever changes what the records of the file read as.
ImplementsRecordStore == Abstract!Spec
=============================================================================
