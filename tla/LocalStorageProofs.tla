------------------------ MODULE LocalStorageProofs ------------------------
(***************************************************************************)
(* Proofs about LocalStorage for every number of blocks, payload, root and *)
(* tag.                                                                    *)
(***************************************************************************)
EXTENDS LocalStorage, TLAPS

-----------------------------------------------------------------------------
(* The inductive invariant                                                 *)

\* The file: nothing beyond its end, chains intact, and every record whole.
FileSound ==
  /\ \A b \in Ids : b > fsize => disk[b] = Hole
  /\ header # "full" => ~IsOpen /\ Heads(disk) = {}
  /\ ChainsIntact(disk)
  /\ \A h \in Heads(disk) :
       /\ Whole(disk, h)
       /\ disk[h].tag \in Tags \cup {DirTag}
       /\ disk[h].data \in Payloads
       /\ disk[h].tag = DirTag => disk[h].data \in Directories

\* The allocated ids are distinct, those above op.piece are written and linked,
\* and they are exactly the chain that is waiting for its head.
ChainInProgress ==
  /\ IsOpen
  /\ op.data \in Payloads /\ op.tag \in Tags \cup {DirTag}
  /\ op.tag = DirTag => op.data \in Directories
  /\ Len(op.ids) <= NumChunks(op.data)
  /\ op.piece \in 1..NumChunks(op.data)
  /\ Len(op.ids) < NumChunks(op.data) => op.piece = NumChunks(op.data)
  /\ \A i, j \in 1..Len(op.ids) : op.ids[i] = op.ids[j] => i = j
  /\ \A i \in (op.piece + 1)..Len(op.ids) :
       disk[op.ids[i]] = BlockOf("cont", NoData, NextOf(i), op.data, i)
  /\ ChainIntact(disk, NextOf(op.piece))
  /\ \A c \in Reach(disk, NextOf(op.piece)) :
       \E i \in (op.piece + 1)..Len(op.ids) : c = op.ids[i]
  /\ \A i \in (op.piece + 1)..Len(op.ids) : op.ids[i] \in Reach(disk, NextOf(op.piece))

\* The record an update or a removal is about exists, and op.old is its chain.
TargetSound ==
  /\ IsOpen
  /\ Len(op.ids) >= 1
  /\ op.ids[1] \in Heads(disk)
  /\ op.old = Continuations(disk, op.ids[1])

OpSound ==
  /\ op.kind \in {"none", "create"} => op.old = {}
  /\ op.kind = "create" => ~IsOpen /\ header # "full"
  /\ op.kind = "insert" =>
       /\ ChainInProgress
       /\ op.old = {}
       /\ op.tag = DirTag => m_dirId = 0
  /\ op.kind = "update" =>
       /\ ChainInProgress
       /\ TargetSound
       /\ op.tag = disk[op.ids[1]].tag
  /\ op.kind = "remove" => TargetSound /\ op.ids[1] # m_dirId

\* A closed store holds nothing in memory.
ClosedBlank ==
  ~IsOpen => /\ m_nblocks = 0 /\ m_dirId = 0
             /\ \A b \in Ids : m_free[b] = 0 /\ m_head[b] = NoHead

IInv ==
  /\ TypeOK
  /\ FileSound
  /\ BlockOwnership
  /\ IndexMatchesFile
  /\ OneDirectory
  /\ OpSound
  /\ ClosedBlank

-----------------------------------------------------------------------------
(* Following "next": what Reach computes                                   *)

\* A map from blocks to contents whose links stay inside the file.
Linked(d) == \A c \in Ids : d[c].next \in Ids0

\* The blocks met from start include start, and the successor of each of them.
LEMMA ReachClosed ==
  ASSUME NEW d, NEW s \in Ids0
  PROVE  /\ Reach(d, s) \subseteq Ids
         /\ Linked(d) => s \in Reach(d, s) \cup {0}
         /\ Linked(d) => \A c \in Reach(d, s) : d[c].next \in Reach(d, s) \cup {0}
  BY DEF Reach, Linked, Ids, Ids0

\* No other set closed under "next" that contains start is smaller.
LEMMA ReachLeast ==
  ASSUME NEW d, NEW s \in Ids0, NEW S \in SUBSET Ids, s \in S \cup {0},
         \A c \in S : d[c].next \in S \cup {0}
  PROVE  Reach(d, s) \subseteq S
  BY DEF Reach

\* Nothing is met from block 0.
LEMMA ReachZero == ASSUME NEW d PROVE Reach(d, 0) = {}
  <1>1. {} \in {S \in SUBSET Ids : 0 \in S \cup {0} /\ \A c \in S : d[c].next \in S \cup {0}}
    OBVIOUS
  <1>2. QED BY <1>1, Zenon DEF Reach

\* Changing blocks that are not met from start does not change what is met.
LEMMA ReachFrame ==
  ASSUME NEW d, NEW e, NEW s \in Ids0, Linked(d), Linked(e),
         \A c \in Reach(d, s) : e[c].next = d[c].next
  PROVE  Reach(e, s) = Reach(d, s)
  <1>1. Reach(e, s) \subseteq Reach(d, s)
    BY ReachClosed, ReachLeast
  <1>2. Reach(d, s) \subseteq Reach(e, s)
    <2>1. \A c \in Reach(e, s) : d[c].next \in Reach(e, s) \cup {0}
      BY <1>1, ReachClosed
    <2>2. s \in Reach(e, s) \cup {0} /\ Reach(e, s) \subseteq Ids
      BY ReachClosed
    <2>3. QED BY <2>1, <2>2, ReachLeast
  <1>3. QED BY <1>1, <1>2

\* A chain is its first block and the chain that follows.
LEMMA ReachStep ==
  ASSUME NEW d, NEW c \in Ids, Linked(d)
  PROVE  Reach(d, c) = {c} \cup Reach(d, d[c].next)
  <1>0. c \in Ids0 /\ d[c].next \in Ids0 /\ c # 0
    BY DEF Linked, Ids, Ids0
  <1>1. Reach(d, c) \subseteq {c} \cup Reach(d, d[c].next)
    <2> DEFINE S == {c} \cup Reach(d, d[c].next)
    <2>1. S \in SUBSET Ids /\ c \in S \cup {0}
      BY <1>0, ReachClosed
    <2>2. \A b \in S : d[b].next \in S \cup {0}
      BY <1>0, ReachClosed
    <2> HIDE DEF S
    <2>3. Reach(d, c) \subseteq S
      BY <1>0, <2>1, <2>2, ReachLeast
    <2>4. QED BY <2>3 DEF S
  <1>2. {c} \cup Reach(d, d[c].next) \subseteq Reach(d, c)
    <2>1. c \in Reach(d, c)
      BY <1>0, ReachClosed
    <2>2. Reach(d, c) \in SUBSET Ids /\ d[c].next \in Reach(d, c) \cup {0}
      BY <1>0, <2>1, ReachClosed
    <2>3. \A b \in Reach(d, c) : d[b].next \in Reach(d, c) \cup {0}
      BY <1>0, ReachClosed
    <2>4. QED BY <1>0, <2>1, <2>2, <2>3, ReachLeast
  <1>3. QED BY <1>1, <1>2

\* What is met from a block of a chain is part of the chain.
LEMMA ReachTrans ==
  ASSUME NEW d, NEW s \in Ids0, NEW c \in Reach(d, s), Linked(d)
  PROVE  Reach(d, d[c].next) \subseteq Reach(d, s)
  <1>1. d[c].next \in Ids0 /\ d[c].next \in Reach(d, s) \cup {0}
    BY ReachClosed DEF Linked
  <1>2. QED BY <1>1, ReachClosed, ReachLeast

\* An intact chain stays intact when its blocks are left alone.
LEMMA IntactFrame ==
  ASSUME NEW d, NEW e, NEW s \in Ids0, Linked(d), Linked(e),
         \A c \in Reach(d, s) : e[c] = d[c], ChainIntact(d, s)
  PROVE  Reach(e, s) = Reach(d, s) /\ ChainIntact(e, s)
  <1>1. Reach(e, s) = Reach(d, s)
    BY ReachFrame
  <1>2. ASSUME NEW c \in Reach(e, s)
        PROVE  e[c].type = "cont" /\ c \notin Reach(e, e[c].next)
    <2>1. c \in Reach(d, s) /\ c \in Ids /\ e[c] = d[c] /\ d[c].next \in Ids0
      BY <1>1, <1>2, ReachClosed DEF Linked
    <2>2. Reach(e, d[c].next) = Reach(d, d[c].next)
      BY <2>1, ReachTrans, ReachFrame
    <2>3. QED BY <2>1, <2>2 DEF ChainIntact
  <1>3. QED BY <1>1, <1>2 DEF ChainIntact

\* A record whose blocks are left alone stays as it is.
LEMMA RecordFrame ==
  ASSUME NEW d \in [Ids -> Blocks], NEW e \in [Ids -> Blocks],
         NEW g \in Heads(d), e[g] = d[g],
         \A c \in Continuations(d, g) : e[c] = d[c],
         ChainIntact(d, d[g].next)
  PROVE  /\ g \in Heads(e)
         /\ Continuations(e, g) = Continuations(d, g)
         /\ ChainIntact(e, e[g].next)
         /\ Whole(d, g) => Whole(e, g)
  <1>1. Linked(d) /\ Linked(e) /\ g \in Ids /\ d[g].next \in Ids0
    BY DEF Linked, Blocks, Heads
  <1>2. Reach(e, d[g].next) = Reach(d, d[g].next) /\ ChainIntact(e, d[g].next)
    BY <1>1, IntactFrame DEF Continuations
  <1>3. \A c \in {g} \cup Continuations(d, g) :
          e[c] = d[c] /\ (d[c].next # 0 => e[d[c].next] = d[d[c].next])
    BY <1>1, ReachClosed DEF Continuations
  <1>4. g \in Heads(e) /\ Continuations(e, g) = Continuations(d, g)
    BY <1>1, <1>2 DEF Heads, Continuations
  <1>5. Whole(d, g) => Whole(e, g)
    BY <1>3, <1>4 DEF Whole
  <1>6. QED BY <1>2, <1>4, <1>5

-----------------------------------------------------------------------------
(* The invariant is inductive                                              *)

\* A store that was never opened, on an empty file, satisfies IInv.
LEMMA InitIInv == Init => IInv
  <1> SUFFICES ASSUME Init PROVE IInv
    OBVIOUS
  <1> USE ConstantsAssumption DEF Init, IsOpen
  <1>1. TypeOK
    <2>1. Hole \in Blocks
      BY DEF Hole, BlockOf, Blocks, Ids0
    <2>2. op \in Ops
      BY DEF Idle, OpOf, Ops
    <2>3. disk \in [Ids -> Blocks] /\ m_head \in [Ids -> HeadInfo \cup {NoHead}]
      BY <2>1
    <2>4. m_roots \in Directories /\ m_free \in [Ids -> Nat]
      BY DEF Directories, Ids0
    <2>5. QED BY <2>2, <2>3, <2>4 DEF TypeOK, Ids0
  <1>2. Heads(disk) = {}
    BY DEF Heads, Hole, BlockOf
  <1>3. FileSound
    BY <1>2 DEF FileSound, ChainsIntact
  <1>4. Live(disk) = {} /\ Reserved = {}
    BY <1>2 DEF Live, Reserved, Writing, Idle, OpOf
  <1>5. BlockOwnership /\ IndexMatchesFile /\ OneDirectory /\ ClosedBlank
    BY <1>2 DEF BlockOwnership, IndexMatchesFile, OneDirectory, ClosedBlank
  <1>6. OpSound
    BY DEF OpSound, Idle, OpOf
  <1>7. QED BY <1>1, <1>3, <1>5, <1>6 DEF IInv

\* chunks() is at least one.
LEMMA ChunksPositive == \A p \in Payloads : NumChunks(p) \in Nat /\ NumChunks(p) >= 1
  BY ConstantsAssumption DEF NumChunks, Payloads, Directories

\* Beginning an insertion (of a record or of the directory) reserves nothing.
LEMMA BeginInsert ==
  ASSUME IsOpen', NEW data \in Payloads, NEW tag \in Tags \cup {DirTag},
         tag = DirTag => data \in Directories /\ m_dirId' = 0,
         op' = InsertOp(data, tag)
  PROVE  op' \in Ops /\ OpSound' /\ Reserved' = {}
  <1>1. op' = OpOf("insert", tag, data, <<>>, NumChunks(data), {})
    BY DEF InsertOp
  <1>2. NumChunks(data) \in Nat /\ NumChunks(data) >= 1
    BY ChunksPositive
  <1>3. op' \in Ops
    BY <1>1, <1>2 DEF OpOf, Ops
  <1>4. /\ op'.kind = "insert" /\ op'.tag = tag /\ op'.data = data /\ op'.old = {}
        /\ op'.ids = <<>> /\ Len(op'.ids) = 0 /\ op'.piece = NumChunks(data)
    BY <1>1 DEF OpOf
  <1>5. Reserved' = {}
    BY <1>4 DEF Reserved, Writing
  <1>6. NextOf(op.piece)' = 0
    BY <1>2, <1>4 DEF NextOf
  <1>7. ChainIntact(disk, NextOf(op.piece))' /\ Reach(disk, NextOf(op.piece))' = {}
    BY <1>6, ReachZero DEF ChainIntact
  <1>8. ChainInProgress'
    BY <1>2, <1>4, <1>7 DEF ChainInProgress
  <1>9. QED BY <1>3, <1>4, <1>5, <1>8 DEF OpSound

\* Beginning an update reserves nothing and remembers the record's chain.
LEMMA BeginUpdate ==
  ASSUME IsOpen', NEW id \in Ids, id \in Heads(disk'), NEW data \in Payloads,
         disk'[id].tag \in Tags \cup {DirTag},
         disk'[id].tag = DirTag => data \in Directories,
         op' = OpOf("update", disk'[id].tag, data, <<id>>, NumChunks(data),
                    Continuations(disk', id)),
         disk' \in [Ids -> Blocks]
  PROVE  op' \in Ops /\ OpSound' /\ Reserved' = {}
  <1>2. NumChunks(data) \in Nat /\ NumChunks(data) >= 1
    BY ChunksPositive
  <1>3. op' \in Ops
    <2>1. Continuations(disk', id) \in SUBSET Ids
      BY ReachClosed DEF Continuations, Blocks
    <2>2. QED BY <1>2, <2>1 DEF OpOf, Ops
  <1>4. /\ op'.kind = "update" /\ op'.tag = disk'[id].tag /\ op'.data = data
        /\ op'.old = Continuations(disk', id)
        /\ op'.ids = <<id>> /\ op'.piece = NumChunks(data)
    BY DEF OpOf
  <1>41. Len(op'.ids) = 1 /\ op'.ids[1] = id
    BY <1>4
  <1>5. Reserved' = {}
    BY <1>4, <1>41 DEF Reserved, Writing
  <1>6. NextOf(op.piece)' = 0
    BY <1>2, <1>4, <1>41 DEF NextOf
  <1>7. ChainIntact(disk, NextOf(op.piece))' /\ Reach(disk, NextOf(op.piece))' = {}
    BY <1>6, ReachZero DEF ChainIntact
  <1>8. ChainInProgress'
    <2>0. \A n \in Nat : n = 1 => (\A i, j \in 1..n : i = j) /\ \A p \in Nat \ {0} : (p + 1)..n = {}
      OBVIOUS
    <2>1. \A i, j \in 1..Len(op'.ids) : i = j
      BY <1>41, <2>0
    <2>2. (op'.piece + 1)..Len(op'.ids) = {}
      <3>1. op'.piece \in Nat \ {0} /\ Len(op'.ids) \in Nat
        BY <1>2, <1>4, <1>41
      <3>2. QED BY <1>41, <2>0, <3>1, Zenon
    <2>3. QED BY <1>2, <1>4, <1>41, <1>7, <2>1, <2>2 DEF ChainInProgress
  <1>9. TargetSound'
    BY <1>4, <1>41 DEF TargetSound
  <1>10. QED BY <1>3, <1>4, <1>41, <1>5, <1>8, <1>9 DEF OpSound

\* A step that changes only roots and the operation, and reserves no block.
LEMMA QuietStep ==
  ASSUME IInv, UNCHANGED <<header, disk, fsize, m_fd, m_nblocks, m_free, m_head, m_dirId>>,
         m_roots' \in Directories, op' \in Ops, OpSound', Reserved' = {}
  PROVE  IInv'
  <1> USE DEF IInv
  <1>1. TypeOK'
    BY DEF TypeOK
  <1>2. FileSound' /\ IndexMatchesFile' /\ OneDirectory' /\ ClosedBlank'
    BY DEF FileSound, IndexMatchesFile, OneDirectory, ClosedBlank, IsOpen
  <1>3. BlockOwnership'
    BY DEF BlockOwnership, IsOpen
  <1>4. QED BY <1>1, <1>2, <1>3

\* What the index says of a record is what its head block says.
LEMMA RecordIsHead ==
  ASSUME IInv, IsOpen, NEW id \in Ids, m_head[id] # NoHead
  PROVE  /\ id \in Heads(disk)
         /\ m_head[id].tag = disk[id].tag
         /\ Reach(disk, m_head[id].next) = Continuations(disk, id)
         /\ disk[id].tag \in Tags \cup {DirTag}
         /\ disk[id].tag = DirTag <=> id = m_dirId
  <1>1. id \in Heads(disk) /\ m_head[id] = [tag |-> disk[id].tag, next |-> disk[id].next]
    BY DEF IInv, IndexMatchesFile
  <1>2. disk[id].tag = DirTag <=> id = m_dirId
    BY <1>1 DEF IInv, OneDirectory, Ids
  <1>3. QED BY <1>1, <1>2 DEF IInv, FileSound, Continuations

\* The directory, when there is one, is a record.
LEMMA DirectoryIsRecord ==
  ASSUME IInv, IsOpen, m_dirId # 0
  PROVE  m_dirId \in Ids /\ m_head[m_dirId] # NoHead
  <1>1. m_dirId \in {h \in Heads(disk) : disk[h].tag = DirTag}
    BY DEF IInv, OneDirectory
  <1>2. m_dirId \in Ids /\ disk[m_dirId].tag = DirTag /\ DirTag # NoData
    BY <1>1, ConstantsAssumption DEF Heads
  <1>3. m_head[m_dirId] = [tag |-> disk[m_dirId].tag, next |-> disk[m_dirId].next]
    BY <1>1, <1>2 DEF IInv, IndexMatchesFile
  <1>4. m_head[m_dirId].tag = DirTag /\ NoHead.tag = NoData
    BY <1>2, <1>3 DEF NoHead
  <1>5. QED BY <1>2, <1>4

\* The operations begin in a sound state.
LEMMA BeginOperation ==
  ASSUME IInv,
         \/ \E v \in Values : \/ \E t \in Tags : Insert(v, t)
                              \/ \E id \in Ids : Update(id, v)
         \/ \E id \in Ids : Remove(id)
         \/ \E n \in Names : RemoveRoot(n) \/ \E id \in Ids : SetRoot(n, id)
  PROVE  IInv'
  <1>0. TypeOK
    BY DEF IInv
  <1>1. ASSUME NEW v \in Values, NEW t \in Tags, Insert(v, t) PROVE IInv'
    <2>1. v \in Payloads /\ t # DirTag /\ IsOpen' /\ op' = InsertOp(v, t)
      BY <1>1, ConstantsAssumption DEF Insert, Payloads, memVars, IsOpen
    <2>2. op' \in Ops /\ OpSound' /\ Reserved' = {}
      BY <2>1, BeginInsert
    <2>3. QED BY <1>0, <1>1, <2>2, QuietStep DEF Insert, fileVars, memVars, TypeOK
  <1>2. ASSUME NEW v \in Values, NEW id \in Ids, Update(id, v) PROVE IInv'
    <2>1. IsOpen /\ id # m_dirId /\ m_head[id] # NoHead /\ op' = UpdateOp(disk, id, v)
      BY <1>2 DEF Update, IsRecord
    <2>2. disk' = disk /\ IsOpen' /\ v \in Payloads /\ disk' \in [Ids -> Blocks]
      BY <1>0, <1>2, <2>1 DEF Update, fileVars, memVars, IsOpen, Payloads, TypeOK
    <2>3. /\ id \in Heads(disk') /\ disk'[id].tag \in Tags \cup {DirTag}
          /\ disk'[id].tag # DirTag
          /\ op' = OpOf("update", disk'[id].tag, v, <<id>>, NumChunks(v),
                        Continuations(disk', id))
      BY <2>1, <2>2, RecordIsHead DEF UpdateOp
    <2>4. op' \in Ops /\ OpSound' /\ Reserved' = {}
      BY <2>2, <2>3, BeginUpdate
    <2>5. QED BY <1>0, <1>2, <2>4, QuietStep DEF Update, fileVars, memVars, TypeOK
  <1>3. ASSUME NEW id \in Ids, Remove(id) PROVE IInv'
    <2>1. /\ IsOpen /\ id # m_dirId /\ m_head[id] # NoHead
          /\ op' = OpOf("remove", NoData, NoData, <<id>>, 1, Reach(disk, m_head[id].next))
      BY <1>3 DEF Remove, IsRecord
    <2>2. disk' = disk /\ m_dirId' = m_dirId /\ IsOpen'
      BY <1>3, <2>1 DEF Remove, fileVars, memVars, IsOpen
    <2>3. id \in Heads(disk') /\ Reach(disk, m_head[id].next) = Continuations(disk', id)
      BY <2>1, <2>2, RecordIsHead
    <2>4. Continuations(disk', id) \in SUBSET Ids
      BY <1>0, <2>2, ReachClosed DEF Continuations, TypeOK, Blocks
    <2>5. op' \in Ops
      BY <2>1, <2>3, <2>4 DEF OpOf, Ops
    <2>6. /\ op'.kind = "remove" /\ op'.ids = <<id>>
          /\ op'.old = Continuations(disk', id)
      BY <2>1, <2>3 DEF OpOf
    <2>7. Len(op'.ids) = 1 /\ op'.ids[1] = id
      BY <2>6
    <2>8. OpSound' /\ Reserved' = {}
      BY <2>1, <2>2, <2>3, <2>6, <2>7 DEF OpSound, TargetSound, Reserved, Writing
    <2>9. QED BY <1>0, <1>3, <2>5, <2>8, QuietStep DEF Remove, fileVars, memVars, TypeOK
  <1>4. ASSUME NEW r \in Directories, IsOpen, m_roots' = r,
               op' = SaveDirectoryOp(disk, r),
               UNCHANGED <<fileVars, m_fd, m_nblocks, m_free, m_head, m_dirId>>
        PROVE  IInv'
    <2>1. disk' = disk /\ m_dirId' = m_dirId /\ IsOpen' /\ r \in Payloads /\ disk' \in [Ids -> Blocks]
      BY <1>0, <1>4 DEF fileVars, IsOpen, Payloads, TypeOK
    <2>2. CASE m_dirId = 0
      <3>1. op' = InsertOp(r, DirTag)
        BY <1>4, <2>2 DEF SaveDirectoryOp
      <3>2. op' \in Ops /\ OpSound' /\ Reserved' = {}
        BY <1>4, <2>1, <2>2, <3>1, BeginInsert
      <3>3. QED BY <1>4, <3>2, QuietStep DEF fileVars
    <2>3. CASE m_dirId # 0
      <3>1. m_dirId \in Ids /\ m_head[m_dirId] # NoHead
        BY <1>4, <2>3, DirectoryIsRecord
      <3>2. op' = UpdateOp(disk, m_dirId, r)
        BY <1>4, <2>3 DEF SaveDirectoryOp
      <3>3. /\ m_dirId \in Heads(disk') /\ disk'[m_dirId].tag \in Tags \cup {DirTag}
            /\ op' = OpOf("update", disk'[m_dirId].tag, r, <<m_dirId>>, NumChunks(r),
                          Continuations(disk', m_dirId))
        BY <1>4, <2>1, <3>1, <3>2, RecordIsHead DEF UpdateOp
      <3>4. op' \in Ops /\ OpSound' /\ Reserved' = {}
        BY <1>4, <2>1, <3>1, <3>3, BeginUpdate
      <3>5. QED BY <1>4, <3>4, QuietStep DEF fileVars
    <2>4. QED BY <2>2, <2>3
  <1>5. ASSUME NEW n \in Names, RemoveRoot(n) PROVE IInv'
    <2>1. m_roots' \in Directories
      BY <1>0, <1>5, ConstantsAssumption DEF RemoveRoot, TypeOK, Directories, Ids0
    <2>2. QED BY <1>4, <1>5, <2>1 DEF RemoveRoot
  <1>6. ASSUME NEW n \in Names, NEW id \in Ids, SetRoot(n, id) PROVE IInv'
    <2>1. m_roots' \in Directories
      BY <1>0, <1>6, ConstantsAssumption DEF SetRoot, TypeOK, Directories, Ids0, Ids
    <2>2. QED BY <1>4, <1>6, <2>1 DEF SetRoot
  <1>7. QED BY <1>1, <1>2, <1>3, <1>5, <1>6

\* The header steps find and leave a file without records.
LEMMA HeaderSteps ==
  ASSUME IInv, CreateHeader \/ ExtendHeader
  PROVE  IInv'
  <1> USE DEF IInv
  <1>1. CASE CreateHeader
    <2>1. op' \in Ops /\ op'.kind = "create" /\ op'.old = {}
      BY <1>1 DEF CreateHeader, OpOf, Ops
    <2>2. ~IsOpen /\ ~IsOpen' /\ UNCHANGED <<disk, fsize>> /\ header # "full"
      BY <1>1 DEF CreateHeader, memVars, IsOpen
    <2>3. TypeOK'
      BY <1>1, <2>1 DEF CreateHeader, memVars, TypeOK
    <2>4. FileSound' /\ IndexMatchesFile' /\ OneDirectory' /\ ClosedBlank' /\ BlockOwnership'
      BY <1>1, <2>2 DEF CreateHeader, memVars, FileSound, IndexMatchesFile, OneDirectory,
                        ClosedBlank, BlockOwnership
    <2>5. OpSound'
      BY <1>1, <2>1, <2>2 DEF OpSound, CreateHeader
    <2>6. QED BY <2>3, <2>4, <2>5
  <1>2. CASE ExtendHeader
    <2>1. op' \in Ops /\ op'.kind = "none" /\ op'.old = {}
      BY <1>2 DEF ExtendHeader, Idle, OpOf, Ops
    <2>2. ~IsOpen /\ UNCHANGED <<disk, fsize, m_nblocks, m_free, m_head, m_dirId, m_roots>>
      BY <1>2 DEF ExtendHeader, OpSound
    <2>3. TypeOK'
      BY <1>2, <2>1 DEF ExtendHeader, TypeOK
    <2>4. header' = "full" /\ op.kind = "create"
      BY <1>2 DEF ExtendHeader
    <2>5. Heads(disk) = {}
      BY <2>2, <2>4 DEF OpSound, FileSound
    <2>6. Live(disk) = {} /\ Reserved' = {}
      BY <2>1, <2>5 DEF Live, Reserved, Writing
    <2>7. FileSound'
      BY <2>2, <2>4, <2>5 DEF FileSound, ChainsIntact
    <2>8. IndexMatchesFile' /\ OneDirectory' /\ BlockOwnership'
      BY <2>2, <2>5, <2>6 DEF IndexMatchesFile, OneDirectory, ClosedBlank, BlockOwnership
    <2>9. OpSound' /\ ClosedBlank'
      BY <1>2, <2>1 DEF OpSound, ClosedBlank, ExtendHeader, IsOpen
    <2>10. QED BY <2>3, <2>7, <2>8, <2>9
  <1>3. QED BY <1>1, <1>2

\* Closing a store and dying forget the memory and leave the file alone.
LEMMA ForgetStep ==
  ASSUME IInv, Close \/ Crash
  PROVE  IInv'
  <1> USE DEF IInv
  <1>1. ForgetMemory /\ UNCHANGED <<header, disk, fsize>>
    BY DEF Close, Crash, fileVars
  <1>2. op' \in Ops /\ op'.kind = "none" /\ op'.old = {} /\ ~IsOpen'
    BY <1>1 DEF ForgetMemory, Idle, OpOf, Ops, IsOpen
  <1>3. TypeOK'
    <2>1. m_roots' \in Directories /\ m_free' \in [Ids -> Nat] /\ m_nblocks' \in Ids0 /\ m_dirId' \in Ids0
      BY <1>1, ConstantsAssumption DEF ForgetMemory, Directories, Ids0
    <2>2. m_head' \in [Ids -> HeadInfo \cup {NoHead}]
      BY <1>1 DEF ForgetMemory
    <2>3. m_fd' \in {"closed", "open"}
      BY <1>1 DEF ForgetMemory
    <2>4. QED BY <1>1, <1>2, <2>1, <2>2, <2>3 DEF TypeOK
  <1>4. FileSound' /\ ClosedBlank' /\ OpSound'
    BY <1>1, <1>2 DEF FileSound, ClosedBlank, OpSound, ForgetMemory
  <1>5. IndexMatchesFile' /\ OneDirectory' /\ BlockOwnership'
    BY <1>1, <1>2 DEF IndexMatchesFile, OneDirectory, BlockOwnership
  <1>6. QED BY <1>3, <1>4, <1>5

\* A failed write ends the operation and leaves everything else alone.
LEMMA FailStep ==
  ASSUME IInv, WriteFails
  PROVE  IInv'
  <1>1. op' \in Ops /\ op'.kind = "none" /\ op'.old = {}
    BY DEF WriteFails, Idle, OpOf, Ops
  <1>2. OpSound' /\ Reserved' = {}
    BY <1>1 DEF OpSound, Reserved, Writing
  <1>3. m_roots' \in Directories
    BY DEF WriteFails, memVars, IInv, TypeOK
  <1>4. QED BY <1>1, <1>2, <1>3, QuietStep DEF WriteFails, fileVars, memVars

\* A block without an owner becomes reserved.
LEMMA ReserveBlock ==
  ASSUME IInv, Allocating, NEW b \in Ids, b \notin Live(disk) \cup Reserved,
         op' = [op EXCEPT !.ids = Append(@, b)],
         UNCHANGED <<disk, m_fd, m_dirId>>
  PROVE  op' \in Ops /\ OpSound' /\ Reserved' = Reserved \cup {b} /\ Request' = Request
  <1> USE DEF IInv
  <1>0. op \in Ops /\ op.ids \in Seq(Ids) /\ op.kind \in {"insert", "update"} /\ ChainInProgress
    BY DEF TypeOK, Ops, Allocating, Writing, OpSound
  <1>1. op' \in Ops
    <2>1. Append(op.ids, b) \in Seq(Ids)
      BY <1>0
    <2>2. QED BY <1>0, <2>1 DEF Ops
  <1>2. /\ op'.kind = op.kind /\ op'.tag = op.tag /\ op'.data = op.data
        /\ op'.piece = op.piece /\ op'.old = op.old
        /\ op'.ids = Append(op.ids, b)
    BY <1>0 DEF Ops
  <1>3. /\ Len(op'.ids) = Len(op.ids) + 1 /\ Len(op.ids) \in Nat
        /\ op'.ids[Len(op.ids) + 1] = b
        /\ \A i \in 1..Len(op.ids) : op'.ids[i] = op.ids[i] /\ op.ids[i] \in Ids
    BY <1>0, <1>2
  <1>4. /\ Len(op.ids) < NumChunks(op.data) /\ op.piece = NumChunks(op.data)
        /\ NumChunks(op.data) \in Nat
    BY <1>0, ChunksPositive DEF Allocating, ChainInProgress
  <1>5. \A i \in 1..Len(op.ids) : op.ids[i] # b
    <2>1. op.kind = "update" => op.ids[1] \in Live(disk)
      BY DEF OpSound, TargetSound, Live
    <2>2. QED BY <1>0, <1>3, <2>1 DEF Reserved, Writing
  <1>6. Reserved' = Reserved \cup {b}
    <2>1. op.kind = "update" => Len(op.ids) >= 1
      BY DEF OpSound, TargetSound
    <2>2. QED BY <1>0, <1>2, <1>3, <2>1 DEF Reserved, Writing
  <1>7. NextOf(op.piece)' = 0
    BY <1>2, <1>3, <1>4 DEF NextOf
  <1>8. ChainIntact(disk, NextOf(op.piece))' /\ Reach(disk, NextOf(op.piece))' = {}
    BY <1>7, ReachZero DEF ChainIntact
  <1>9. ChainInProgress'
    <2>1. \A i, j \in 1..Len(op'.ids) : op'.ids[i] = op'.ids[j] => i = j
      BY <1>0, <1>3, <1>5 DEF ChainInProgress
    <2>2. ~ \E i \in (op'.piece + 1)..Len(op'.ids) : TRUE
      BY <1>2, <1>3, <1>4
    <2>3. QED BY <1>0, <1>2, <1>3, <1>4, <1>8, <2>1, <2>2 DEF ChainInProgress, IsOpen
  <1>10. op.kind = "update" => TargetSound'
    BY <1>2, <1>3 DEF OpSound, TargetSound, IsOpen
  <1>11. OpSound'
    <2>1. op.kind = "update" => op'.ids[1] = op.ids[1]
      BY <1>3 DEF OpSound, TargetSound
    <2>2. QED BY <1>0, <1>2, <1>9, <1>10, <2>1 DEF OpSound
  <1>12. Request' = Request
    <2>1. op.kind = "update" => op'.ids[1] = op.ids[1]
      BY <1>3 DEF OpSound, TargetSound
    <2>2. QED BY <1>0, <1>2, <2>1 DEF Request
  <1>13. QED BY <1>1, <1>6, <1>11, <1>12

\* alloc() hands out a block that had no owner, or the one after the last.
LEMMA AllocSteps ==
  ASSUME IInv, AllocGrow \/ \E b \in Ids : AllocFree(b)
  PROVE  IInv' /\ Lost' \subseteq Lost /\ Request' = Request /\ disk' = disk
  <1> USE DEF IInv
  <1>0. IsOpen
    BY DEF AllocGrow, AllocFree, Allocating, Writing, OpSound, ChainInProgress
  <1>1. ASSUME NEW b \in Ids, AllocFree(b)
        PROVE  IInv' /\ Lost' \subseteq Lost /\ Request' = Request /\ disk' = disk
    <2>1. m_free[b] = 1 /\ b \notin Live(disk) \cup Reserved /\ b <= m_nblocks /\ m_free[b] \in Nat
      BY <1>0, <1>1 DEF AllocFree, BlockOwnership, TypeOK
    <2>2. op' \in Ops /\ OpSound' /\ Reserved' = Reserved \cup {b} /\ Request' = Request
      BY <1>1, <2>1, ReserveBlock DEF AllocFree, fileVars
    <2>3. UNCHANGED <<header, disk, fsize, m_fd, m_nblocks, m_head, m_roots, m_dirId>>
      BY <1>1 DEF AllocFree, fileVars
    <2>4. m_free' = [m_free EXCEPT ![b] = 0]
      BY <1>1, <2>1 DEF AllocFree
    <2>5. TypeOK'
      BY <2>2, <2>3, <2>4 DEF TypeOK
    <2>6. FileSound' /\ IndexMatchesFile' /\ OneDirectory' /\ ClosedBlank'
      BY <1>0, <2>3 DEF FileSound, IndexMatchesFile, OneDirectory, ClosedBlank, IsOpen
    <2>7. BlockOwnership'
      BY <1>0, <2>1, <2>2, <2>3, <2>4 DEF BlockOwnership, IsOpen, TypeOK
    <2>8. Lost' \subseteq Lost
      BY <2>2, <2>3, <2>4 DEF Lost, TypeOK, Ids0, Ids
    <2>9. QED BY <2>2, <2>3, <2>5, <2>6, <2>7, <2>8
  <1>2. ASSUME AllocGrow
        PROVE  IInv' /\ Lost' \subseteq Lost /\ Request' = Request /\ disk' = disk
    <2> DEFINE b == m_nblocks + 1
    <2>1. b \in Ids /\ b \in Ids0
      BY <1>2, ConstantsAssumption DEF AllocGrow, TypeOK, Ids, Ids0
    <2>2. ~(b <= m_nblocks)
      BY DEF TypeOK, Ids0
    <2>3. b \notin Live(disk) \cup Reserved
      BY <1>0, <2>1, <2>2 DEF BlockOwnership
    <2>4. op' \in Ops /\ OpSound' /\ Reserved' = Reserved \cup {b} /\ Request' = Request
      BY <1>2, <2>1, <2>3, ReserveBlock DEF AllocGrow, fileVars
    <2>5. UNCHANGED <<header, disk, fsize, m_fd, m_free, m_head, m_roots, m_dirId>> /\ m_nblocks' = b
      BY <1>2 DEF AllocGrow, fileVars
    <2>6. \A x \in Ids : m_free[x] = 0
      BY <1>2 DEF AllocGrow
    <2>7. TypeOK'
      BY <2>1, <2>4, <2>5 DEF TypeOK
    <2>8. FileSound' /\ IndexMatchesFile' /\ OneDirectory' /\ ClosedBlank'
      BY <1>0, <2>5 DEF FileSound, IndexMatchesFile, OneDirectory, ClosedBlank, IsOpen
    <2>9. \A x \in Ids : x <= m_nblocks => x <= m_nblocks'
      BY <2>5 DEF TypeOK, Ids, Ids0
    <2>10. BlockOwnership'
      BY <1>0, <2>1, <2>3, <2>4, <2>5, <2>6, <2>9 DEF BlockOwnership, IsOpen
    <2>11. Lost' \subseteq Lost
      BY <2>4, <2>5 DEF Lost, TypeOK, Ids0
    <2>12. QED BY <2>4, <2>5, <2>7, <2>8, <2>10, <2>11
  <1>3. QED BY <1>1, <1>2

\* A step that leaves every record of the file where it is and as it is.
SameRecords ==
  /\ Heads(disk') = Heads(disk)
  /\ \A g \in Heads(disk) : disk'[g] = disk[g]
  /\ Live(disk') = Live(disk)

\* Writing a block outside every chain keeps the records with other heads.
LEMMA OthersKept ==
  ASSUME NEW d \in [Ids -> Blocks], NEW x \in Ids, NEW blk \in Blocks,
         ChainsIntact(d), \A g \in Heads(d) : x \notin Continuations(d, g),
         NEW e, e = [d EXCEPT ![x] = blk]
  PROVE  /\ e \in [Ids -> Blocks]
         /\ \A g \in Heads(d) \ {x} :
              /\ g \in Heads(e)
              /\ e[g] = d[g]
              /\ Continuations(e, g) = Continuations(d, g)
              /\ ChainIntact(e, e[g].next)
              /\ Whole(d, g) => Whole(e, g)
  <1>1. e \in [Ids -> Blocks]
    OBVIOUS
  <1>2. ASSUME NEW g \in Heads(d) \ {x}
        PROVE  /\ g \in Heads(e) /\ e[g] = d[g]
               /\ Continuations(e, g) = Continuations(d, g)
               /\ ChainIntact(e, e[g].next)
               /\ Whole(d, g) => Whole(e, g)
    <2>1. g \in Ids /\ e[g] = d[g] /\ Continuations(d, g) \subseteq Ids
      BY ReachClosed DEF Heads, Continuations, Blocks
    <2>2. \A c \in Continuations(d, g) : e[c] = d[c]
      BY <2>1
    <2>3. ChainIntact(d, d[g].next)
      BY DEF ChainsIntact
    <2>4. QED BY <1>1, <2>1, <2>2, <2>3, RecordFrame
  <1>3. QED BY <1>1, <1>2

\* A head block is part of no chain.
LEMMA HeadInNoChain ==
  ASSUME NEW d \in [Ids -> Blocks], ChainsIntact(d), NEW x \in Heads(d), NEW g \in Heads(d)
  PROVE  x \notin Continuations(d, g)
  BY DEF ChainsIntact, ChainIntact, Continuations, Heads

\* The file stays empty beyond its end.
LEMMA WriteInFile ==
  ASSUME TypeOK, NEW x \in Ids, NEW blk \in Blocks, WriteBlock(x, blk),
         \A b \in Ids : b > fsize => disk[b] = Hole
  PROVE  /\ disk' = [disk EXCEPT ![x] = blk] /\ disk' \in [Ids -> Blocks]
         /\ fsize' \in Ids0 /\ header' = header
         /\ \A b \in Ids : b > fsize' => disk'[b] = Hole
  BY DEF WriteBlock, TypeOK, Ids, Ids0

\* One continuation block joins the chain in progress; no record changes.
LEMMA ContinuationStep ==
  ASSUME IInv, WriteContinuation
  PROVE  /\ IInv'
         /\ SameRecords
         /\ Reserved' = Reserved
  <1> USE DEF IInv
  <1> DEFINE p == op.piece
             x == op.ids[p]
             s == NextOf(p)
             blk == BlockOf("cont", NoData, s, op.data, p)
  <1>0. /\ op \in Ops /\ op.ids \in Seq(Ids) /\ op.kind \in {"insert", "update"}
        /\ ChainInProgress /\ IsOpen
    BY DEF TypeOK, Ops, WriteContinuation, ReadyToWrite, Writing, OpSound, ChainInProgress
  <1>1. /\ Len(op.ids) = NumChunks(op.data) /\ p \in 2..Len(op.ids) /\ Len(op.ids) \in Nat
        /\ p \in Nat /\ \A i \in 1..Len(op.ids) : op.ids[i] \in Ids
    BY <1>0, ChunksPositive DEF WriteContinuation, ReadyToWrite, ChainInProgress
  <1>2. x \in Ids /\ s \in Ids0
    BY <1>1, ConstantsAssumption DEF NextOf, Ids, Ids0
  <1>3. blk \in Blocks
    BY <1>0, <1>1, <1>2 DEF Blocks, BlockOf, ChainInProgress
  <1>4. /\ disk' = [disk EXCEPT ![x] = blk] /\ disk' \in [Ids -> Blocks]
        /\ fsize' \in Ids0 /\ header' = header
        /\ \A b \in Ids : b > fsize' => disk'[b] = Hole
    BY <1>2, <1>3, WriteInFile DEF WriteContinuation, FileSound
  <1>5. /\ op' = [op EXCEPT !.piece = p - 1]
        /\ UNCHANGED <<m_fd, m_nblocks, m_free, m_head, m_roots, m_dirId>>
    BY DEF WriteContinuation, memVars
  <1>6. /\ op' \in Ops /\ op'.kind = op.kind /\ op'.tag = op.tag /\ op'.data = op.data
        /\ op'.ids = op.ids /\ op'.piece = p - 1 /\ op'.old = op.old
    BY <1>0, <1>1, <1>5 DEF Ops
  <1>7. x \in Reserved /\ x \notin Live(disk)
    <2>1. x \in Reserved
      BY <1>0, <1>1 DEF Reserved, Writing
    <2>2. QED BY <1>0, <1>2, <2>1 DEF BlockOwnership
  <1>8. x \notin Heads(disk) /\ \A g \in Heads(disk) : x \notin Continuations(disk, g)
    BY <1>7 DEF Live
  <1>9. disk \in [Ids -> Blocks] /\ ChainsIntact(disk)
    BY DEF TypeOK, FileSound
  <1> HIDE DEF x, blk
  <1>10. \A g \in Heads(disk) :
           /\ g \in Heads(disk') /\ disk'[g] = disk[g]
           /\ Continuations(disk', g) = Continuations(disk, g)
           /\ ChainIntact(disk', disk'[g].next)
           /\ Whole(disk, g) => Whole(disk', g)
    <2>1. \A g \in Heads(disk) \ {x} :
            /\ g \in Heads(disk') /\ disk'[g] = disk[g]
            /\ Continuations(disk', g) = Continuations(disk, g)
            /\ ChainIntact(disk', disk'[g].next)
            /\ Whole(disk, g) => Whole(disk', g)
      BY <1>2, <1>3, <1>4, <1>8, <1>9, OthersKept
    <2>2. QED BY <1>8, <2>1
  <1>11. Heads(disk') = Heads(disk)
    <2>1. disk'[x].type = "cont"
      BY <1>2, <1>4, <1>9 DEF BlockOf, blk
    <2>2. \A b \in Ids : b # x => disk'[b] = disk[b]
      BY <1>4, <1>9
    <2>3. QED BY <1>8, <2>1, <2>2 DEF Heads
  <1>12. Live(disk') = Live(disk)
    BY <1>10, <1>11 DEF Live
  <1>13. TypeOK'
    BY <1>4, <1>5, <1>6 DEF TypeOK
  <1>14. FileSound'
    <2>1. ChainsIntact(disk')
      BY <1>9, <1>10, <1>11 DEF ChainsIntact
    <2>2. QED BY <1>0, <1>4, <1>5, <1>10, <1>11, <2>1 DEF FileSound, IsOpen
  <1>15. IndexMatchesFile' /\ OneDirectory' /\ ClosedBlank'
    <2>1. IndexMatchesFile'
      BY <1>0, <1>5, <1>10, <1>11 DEF IndexMatchesFile, IsOpen
    <2>2. {h \in Heads(disk') : disk'[h].tag = DirTag} = {h \in Heads(disk) : disk[h].tag = DirTag}
      BY <1>10, <1>11
    <2>3. QED BY <1>0, <1>5, <2>1, <2>2 DEF OneDirectory, ClosedBlank, IsOpen
  <1>16. Reserved' = Reserved
    BY <1>6 DEF Reserved, Writing
  <1>17. BlockOwnership'
    BY <1>5, <1>12, <1>16 DEF BlockOwnership, IsOpen
  <1>18. ChainInProgress'
    <2>1. /\ NextOf(op.piece)' = x
          /\ \A i \in 1..Len(op.ids) : NextOf(i)' = NextOf(i)
      BY <1>1, <1>6 DEF NextOf, x
    <2>2. x \notin Reach(disk, s) /\ Reach(disk, s) \subseteq Ids
      <3>1. \A c \in Reach(disk, s) : \E i \in (p + 1)..Len(op.ids) : c = op.ids[i]
        BY <1>0 DEF ChainInProgress
      <3>2. \A i \in (p + 1)..Len(op.ids) : op.ids[i] # x
        BY <1>0, <1>1 DEF ChainInProgress, x
      <3>3. QED BY <1>2, <3>1, <3>2, ReachClosed
    <2>3. Linked(disk) /\ Linked(disk')
      BY <1>4, <1>9 DEF Linked, Blocks
    <2>4. Reach(disk', s) = Reach(disk, s) /\ ChainIntact(disk', s)
      <3>1. \A c \in Reach(disk, s) : disk'[c] = disk[c]
        BY <1>4, <1>9, <2>2
      <3>2. ChainIntact(disk, s)
        BY <1>0 DEF ChainInProgress
      <3> HIDE DEF s
      <3>3. QED BY <1>2, <2>3, <3>1, <3>2, IntactFrame
    <2>5. disk'[x] = blk /\ blk.next = s /\ blk.type = "cont"
      BY <1>2, <1>4, <1>9 DEF BlockOf, blk
    <2>6. Reach(disk', x) = {x} \cup Reach(disk, s)
      BY <1>2, <2>3, <2>4, <2>5, ReachStep
    <2>7. ChainIntact(disk', x)
      BY <2>2, <2>4, <2>5, <2>6 DEF ChainIntact
    <2>8. \A i \in p..Len(op.ids) :
            disk'[op.ids[i]] = BlockOf("cont", NoData, NextOf(i), op.data, i)
      <3>1. \A i \in (p + 1)..Len(op.ids) : op.ids[i] # x /\ disk'[op.ids[i]] = disk[op.ids[i]]
        BY <1>0, <1>1, <1>4, <1>9 DEF ChainInProgress, x
      <3>2. QED BY <1>0, <1>1, <2>5, <3>1 DEF ChainInProgress, x, blk
    <2>9. \A c \in Reach(disk', x) : \E i \in p..Len(op.ids) : c = op.ids[i]
      BY <1>0, <1>1, <2>6 DEF ChainInProgress, x
    <2>91. \A i \in p..Len(op.ids) : op.ids[i] \in Reach(disk', x)
      BY <1>0, <1>1, <2>6 DEF ChainInProgress, x
    <2>10. (op'.piece + 1) = p /\ op'.piece \in 1..NumChunks(op.data)
      BY <1>0, <1>1, <1>6 DEF ChainInProgress
    <2>11. \A i \in (op'.piece + 1)..Len(op'.ids) :
             disk'[op'.ids[i]] = BlockOf("cont", NoData, NextOf(i)', op'.data, i)
      BY <1>1, <1>6, <2>1, <2>8, <2>10
    <2>12. /\ ChainIntact(disk, NextOf(op.piece))'
           /\ \A c \in Reach(disk, NextOf(op.piece))' :
                \E i \in (op'.piece + 1)..Len(op'.ids) : c = op'.ids[i]
           /\ \A i \in (op'.piece + 1)..Len(op'.ids) :
                op'.ids[i] \in Reach(disk, NextOf(op.piece))'
      BY <1>6, <2>1, <2>7, <2>9, <2>91, <2>10
    <2>13. QED BY <1>0, <1>1, <1>5, <1>6, <2>10, <2>11, <2>12 DEF ChainInProgress, IsOpen
  <1>19. OpSound'
    <2>1. CASE op.kind = "insert"
      BY <1>5, <1>6, <1>18, <2>1 DEF OpSound
    <2>2. CASE op.kind = "update"
      <3>1. op.ids[1] \in Heads(disk)
        BY <2>2 DEF OpSound, TargetSound
      <3>2. QED BY <1>5, <1>6, <1>10, <1>18, <2>2, <3>1 DEF OpSound, TargetSound, IsOpen
    <2>3. QED BY <1>0, <2>1, <2>2
  <1>20. SameRecords
    BY <1>10, <1>11, <1>12 DEF SameRecords
  <1>21. QED BY <1>13, <1>14, <1>15, <1>16, <1>17, <1>19, <1>20

\* The head write makes the chain in progress a record, in place of the old
\* chain of an updated record, whose blocks become free.
LEMMA HeadStep ==
  ASSUME IInv, WriteHead
  PROVE  /\ IInv'
         /\ Heads(disk') = Heads(disk) \cup {op.ids[1]}
         /\ disk'[op.ids[1]] = BlockOf("head", op.tag, NextOf(1), op.data, 1)
         /\ \A g \in Heads(disk) \ {op.ids[1]} : disk'[g] = disk[g]
         /\ Live(disk) \cup Reserved \subseteq Live(disk') \cup op.old
  <1> USE DEF IInv
  <1> DEFINE h == op.ids[1]
             s == NextOf(1)
             T == Reach(disk, s)
             blk == BlockOf("head", op.tag, s, op.data, 1)
  <1>0. /\ op \in Ops /\ op.ids \in Seq(Ids) /\ op.kind \in {"insert", "update"}
        /\ ChainInProgress /\ IsOpen /\ op.piece = 1 /\ op.old \subseteq Ids
    BY DEF TypeOK, Ops, WriteHead, ReadyToWrite, Writing, OpSound, ChainInProgress
  <1>1. /\ Len(op.ids) = NumChunks(op.data) /\ Len(op.ids) \in Nat /\ Len(op.ids) >= 1
        /\ \A i \in 1..Len(op.ids) : op.ids[i] \in Ids
    BY <1>0, ChunksPositive DEF WriteHead, ReadyToWrite, ChainInProgress
  <1>2. h \in Ids /\ s \in Ids0
    BY <1>1, ConstantsAssumption DEF NextOf, Ids, Ids0
  <1>3. blk \in Blocks
    BY <1>0, <1>2 DEF Blocks, BlockOf, ChainInProgress
  <1>4. /\ disk' = [disk EXCEPT ![h] = blk] /\ disk' \in [Ids -> Blocks]
        /\ fsize' \in Ids0 /\ header' = header
        /\ \A b \in Ids : b > fsize' => disk'[b] = Hole
    BY <1>2, <1>3, WriteInFile DEF WriteHead, FileSound
  <1>5. /\ op' = Idle /\ UNCHANGED <<m_fd, m_nblocks, m_roots>>
        /\ m_head' = [m_head EXCEPT ![h] = [tag |-> op.tag, next |-> s]]
        /\ m_free' = [b \in Ids |-> IF b \in op.old THEN m_free[b] + 1 ELSE m_free[b]]
        /\ m_dirId' = IF op.tag = DirTag THEN h ELSE m_dirId
    BY DEF WriteHead
  <1>6. op' \in Ops /\ op'.kind = "none" /\ op'.old = {} /\ Reserved' = {}
    BY <1>5 DEF Idle, OpOf, Ops, Reserved, Writing
  <1>7. disk \in [Ids -> Blocks] /\ ChainsIntact(disk)
    BY DEF TypeOK, FileSound
  <1>8. \A i \in 2..Len(op.ids) : op.ids[i] \in Reserved
    BY <1>0, <1>1 DEF Reserved, Writing
  <1>9. /\ T \subseteq Reserved /\ T \subseteq Ids /\ h \notin T
        /\ \A c \in T : \E i \in 2..Len(op.ids) : c = op.ids[i]
    BY <1>0, <1>1, <1>2, <1>8, ReachClosed DEF ChainInProgress
  <1>10. \A c \in T : c \notin Live(disk)
    BY <1>0, <1>9 DEF BlockOwnership
  <1>11. \/ op.kind = "insert" /\ h \in Reserved /\ h \notin Live(disk) /\ op.old = {}
         \/ op.kind = "update" /\ h \in Heads(disk) /\ op.old = Continuations(disk, h)
    <2>1. CASE op.kind = "insert"
      BY <1>0, <1>1, <1>2, <2>1 DEF Reserved, Writing, BlockOwnership, OpSound
    <2>2. CASE op.kind = "update"
      BY <2>2 DEF OpSound, TargetSound
    <2>3. QED BY <1>0, <2>1, <2>2
  <1>12. ChainIntact(disk, s)
    BY <1>0 DEF ChainInProgress
  <1>13. \A i \in 2..Len(op.ids) :
           disk[op.ids[i]] = BlockOf("cont", NoData, NextOf(i), op.data, i)
    BY <1>0 DEF ChainInProgress
  <1> HIDE DEF h, s, T, blk
  <1>14. \A g \in Heads(disk) : h \notin Continuations(disk, g)
    BY <1>7, <1>11, HeadInNoChain DEF Live
  <1>15. \A g \in Heads(disk) \ {h} :
           /\ g \in Heads(disk') /\ disk'[g] = disk[g]
           /\ Continuations(disk', g) = Continuations(disk, g)
           /\ ChainIntact(disk', disk'[g].next)
           /\ Whole(disk, g) => Whole(disk', g)
    <2>1. h \in Ids /\ blk \in Blocks /\ disk' = [disk EXCEPT ![h] = blk]
      BY <1>2, <1>3, <1>4
    <2>2. QED BY <1>7, <1>14, <2>1, OthersKept
  <1>16. /\ disk'[h] = blk /\ blk.type = "head" /\ blk.next = s /\ blk.tag = op.tag
         /\ blk.data = op.data /\ blk.piece = 1
         /\ \A b \in Ids \ {h} : disk'[b] = disk[b]
    BY <1>2, <1>4, <1>7 DEF blk, BlockOf
  <1>17. Heads(disk') = Heads(disk) \cup {h}
    BY <1>2, <1>16 DEF Heads
  <1>18. Continuations(disk', h) = T /\ ChainIntact(disk', s) /\ T = Reach(disk, s)
    <2>1. Linked(disk) /\ Linked(disk') /\ T = Reach(disk, s)
      BY <1>4, <1>7 DEF Linked, Blocks, T
    <2>2. \A c \in Reach(disk, s) : disk'[c] = disk[c]
      BY <1>9, <1>16, <2>1
    <2>3. Reach(disk', s) = Reach(disk, s) /\ ChainIntact(disk', s)
      BY <1>2, <1>12, <2>1, <2>2, IntactFrame
    <2>4. QED BY <1>16, <2>1, <2>3 DEF Continuations
  <1>19. \A g \in Heads(disk) : Continuations(disk, g) \cap T = {} /\ g \notin T
    BY <1>10 DEF Live
  <1>20. ChainsIntact(disk')
    <2>1. \A g \in Heads(disk') : ChainIntact(disk', disk'[g].next)
      BY <1>15, <1>16, <1>17, <1>18
    <2>2. \A f, g \in Heads(disk') : f # g => Continuations(disk', f) \cap Continuations(disk', g) = {}
      <3>1. \A f, g \in Heads(disk) : f # g => Continuations(disk, f) \cap Continuations(disk, g) = {}
        BY <1>7 DEF ChainsIntact
      <3>2. QED BY <1>15, <1>17, <1>18, <1>19, <3>1
    <2>3. QED BY <2>1, <2>2 DEF ChainsIntact
  <1>21. Whole(disk', h)
    <2>1. s = IF Len(op.ids) = 1 THEN 0 ELSE op.ids[2]
      BY <1>1 DEF s, NextOf
    <2>2. ASSUME NEW c \in {h} \cup T
          PROVE  /\ disk'[c].data = op.data
                 /\ IF disk'[c].next = 0 THEN disk'[c].piece = NumChunks(op.data)
                                         ELSE disk'[disk'[c].next].piece = disk'[c].piece + 1
      <3>1. ASSUME NEW i \in 2..Len(op.ids)
            PROVE  /\ disk'[op.ids[i]].data = op.data
                   /\ disk'[op.ids[i]].next = NextOf(i)
                   /\ disk'[op.ids[i]].piece = i
                   /\ op.ids[i] # 0
        <4>1. op.ids[i] # h /\ op.ids[i] \in Ids
          BY <1>0, <1>1 DEF ChainInProgress, h
        <4>2. disk'[op.ids[i]] = BlockOf("cont", NoData, NextOf(i), op.data, i)
          BY <1>13, <1>16, <4>1
        <4>3. QED BY <4>1, <4>2 DEF Ids, BlockOf
      <3>2. CASE c = h
        <4>1. CASE Len(op.ids) = 1
          BY <1>1, <1>16, <2>1, <3>2, <4>1
        <4>2. CASE Len(op.ids) # 1
          <5>1. 2 \in 2..Len(op.ids) /\ s = op.ids[2]
            BY <1>1, <2>1, <4>2
          <5>2. disk'[s].piece = 2 /\ s # 0
            BY <3>1, <5>1
          <5>3. QED BY <1>16, <3>2, <5>2
        <4>3. QED BY <4>1, <4>2
      <3>3. CASE c \in T
        <4>1. PICK i \in 2..Len(op.ids) : c = op.ids[i]
          BY <1>9, <3>3
        <4>2. /\ disk'[c].data = op.data /\ disk'[c].next = NextOf(i) /\ disk'[c].piece = i
          BY <3>1, <4>1
        <4>3. CASE i = Len(op.ids)
          BY <1>1, <4>2, <4>3 DEF NextOf
        <4>4. CASE i # Len(op.ids)
          <5>1. i + 1 \in 2..Len(op.ids) /\ NextOf(i) = op.ids[i + 1]
            BY <1>1, <4>1, <4>4 DEF NextOf
          <5>2. disk'[NextOf(i)].piece = i + 1 /\ NextOf(i) # 0
            BY <3>1, <5>1
          <5>3. QED BY <4>2, <5>2
        <4>5. QED BY <4>3, <4>4
      <3>4. QED BY <3>2, <3>3
    <2>3. QED BY <1>16, <1>18, <2>2 DEF Whole
  <1>22. FileSound'
    <2>1. /\ op.tag \in Tags \cup {DirTag} /\ op.data \in Payloads
          /\ op.tag = DirTag => op.data \in Directories
      BY <1>0 DEF ChainInProgress
    <2>2. \A g \in Heads(disk') :
            /\ Whole(disk', g) /\ disk'[g].tag \in Tags \cup {DirTag}
            /\ disk'[g].data \in Payloads
            /\ disk'[g].tag = DirTag => disk'[g].data \in Directories
      BY <1>15, <1>16, <1>17, <1>21, <2>1 DEF FileSound
    <2>3. header' = "full"
      BY <1>0, <1>4 DEF FileSound
    <2>4. QED BY <1>4, <1>20, <2>2, <2>3 DEF FileSound
  <1>23. TypeOK'
    <2>1. [tag |-> op.tag, next |-> s] \in HeadInfo
      BY <1>0, <1>2 DEF ChainInProgress, HeadInfo
    <2>2. m_head' \in [Ids -> HeadInfo \cup {NoHead}]
      BY <1>2, <1>5, <2>1 DEF TypeOK
    <2>3. m_free' \in [Ids -> Nat]
      BY <1>5 DEF TypeOK
    <2>4. m_dirId' \in Ids0
      BY <1>2, <1>5 DEF TypeOK, Ids, Ids0
    <2>5. header' \in {"none", "short", "full"} /\ m_fd' \in {"closed", "open"}
          /\ m_nblocks' \in Ids0 /\ m_roots' \in Directories
      BY <1>4, <1>5 DEF TypeOK
    <2>6. QED BY <1>4, <1>6, <2>2, <2>3, <2>4, <2>5 DEF TypeOK
  <1>24. IndexMatchesFile'
    <2>1. ASSUME NEW b \in Ids
          PROVE  m_head'[b] = IF b \in Heads(disk')
                              THEN [tag |-> disk'[b].tag, next |-> disk'[b].next] ELSE NoHead
      <3>1. m_head[b] = IF b \in Heads(disk)
                        THEN [tag |-> disk[b].tag, next |-> disk[b].next] ELSE NoHead
        BY <1>0 DEF IndexMatchesFile
      <3>2. CASE b = h
        BY <1>2, <1>5, <1>16, <1>17, <3>2 DEF TypeOK
      <3>3. CASE b # h
        BY <1>5, <1>15, <1>17, <3>1, <3>3 DEF TypeOK
      <3>4. QED BY <3>2, <3>3
    <2>2. QED BY <2>1 DEF IndexMatchesFile
  <1>25. OneDirectory'
    <2> DEFINE dirs == {g \in Heads(disk) : disk[g].tag = DirTag}
               dirs2 == {g \in Heads(disk') : disk'[g].tag = DirTag}
    <2>1. dirs2 \ {h} = dirs \ {h} /\ (h \in dirs2 <=> op.tag = DirTag)
      BY <1>15, <1>16, <1>17
    <2>2. dirs = IF m_dirId = 0 THEN {} ELSE {m_dirId}
      BY <1>0 DEF OneDirectory
    <2>3. op.kind = "insert" => h \notin dirs /\ (op.tag = DirTag => m_dirId = 0)
      BY <1>11 DEF OpSound, Live
    <2>4. op.kind = "update" => (h \in dirs <=> op.tag = DirTag)
      BY <1>11 DEF OpSound, h
    <2>5. h # 0
      BY <1>2 DEF Ids
    <2>6. dirs2 = IF m_dirId' = 0 THEN {} ELSE {m_dirId'}
      BY <1>0, <1>5, <2>1, <2>2, <2>3, <2>4, <2>5
    <2>7. QED BY <2>6 DEF OneDirectory
  <1>26. BlockOwnership'
    <2>1. \A b \in Ids : b \in Live(disk') => b \in Live(disk) \cup Reserved /\ b \notin op.old
      <3>1. ASSUME NEW b \in Ids, b \in Live(disk')
            PROVE  b \in Live(disk) \cup Reserved /\ b \notin op.old
        <4>1. CASE b = h
          BY <1>7, <1>11, <1>14, <4>1 DEF Live
        <4>2. CASE b \in T
          BY <1>9, <1>11, <1>19, <4>2
        <4>3. CASE \E g \in Heads(disk) \ {h} : b = g \/ b \in Continuations(disk, g)
          <5>1. PICK g \in Heads(disk) \ {h} : b = g \/ b \in Continuations(disk, g)
            BY <4>3
          <5>2. b \in Live(disk)
            BY <5>1 DEF Live
          <5>3. op.kind = "update" => b \notin Continuations(disk, h)
            BY <1>7, <1>11, <5>1, HeadInNoChain DEF ChainsIntact
          <5>4. QED BY <1>11, <5>2, <5>3
        <4>4. QED BY <1>15, <1>17, <1>18, <3>1, <4>1, <4>2, <4>3 DEF Live
      <3>2. QED BY <3>1
    <2>2. \A b \in op.old : b \in Live(disk) /\ b \in Ids
      BY <1>0, <1>11 DEF Live
    <2>3. ASSUME NEW b \in Ids
          PROVE  /\ m_free'[b] <= 1
                 /\ m_free'[b] = 1 => b \notin Live(disk')
                 /\ m_free'[b] = 1 \/ b \in Live(disk') => b <= m_nblocks
      <3>1. /\ m_free[b] <= 1 /\ m_free[b] \in Nat
            /\ m_free[b] = 1 => b \notin Live(disk) \cup Reserved
            /\ m_free[b] = 1 \/ b \in Live(disk) \cup Reserved => b <= m_nblocks
        BY <1>0 DEF BlockOwnership, TypeOK
      <3>2. m_free'[b] = IF b \in op.old THEN m_free[b] + 1 ELSE m_free[b]
        BY <1>5
      <3>3. CASE b \in op.old
        BY <2>1, <2>2, <3>1, <3>2, <3>3
      <3>4. CASE b \notin op.old
        BY <2>1, <3>1, <3>2, <3>4
      <3>5. QED BY <3>3, <3>4
    <2>4. QED BY <1>5, <1>6, <2>3 DEF BlockOwnership
  <1>27. OpSound' /\ ClosedBlank'
    BY <1>0, <1>5, <1>6 DEF OpSound, ClosedBlank, IsOpen
  <1>28. Live(disk) \cup Reserved \subseteq Live(disk') \cup op.old
    <2>1. h \in Live(disk') /\ T \subseteq Live(disk')
      BY <1>17, <1>18 DEF Live
    <2>2. ASSUME NEW b \in Live(disk) PROVE b \in Live(disk') \cup op.old
      <3>1. PICK g \in Heads(disk) : b = g \/ b \in Continuations(disk, g)
        BY <2>2 DEF Live
      <3>2. CASE g # h
        BY <1>15, <3>1, <3>2 DEF Live
      <3>3. CASE g = h
        BY <1>11, <2>1, <3>1, <3>3 DEF Live
      <3>4. QED BY <3>2, <3>3
    <2>3. ASSUME NEW b \in Reserved PROVE b \in Live(disk')
      <3>1. PICK i \in 1..Len(op.ids) : b = op.ids[i]
        BY <1>0, <1>1, <2>3 DEF Reserved, Writing
      <3>2. i # 1 => b \in T
        BY <1>0, <1>1, <3>1 DEF ChainInProgress, T, s
      <3>3. QED BY <2>1, <3>1, <3>2 DEF h
    <2>4. QED BY <2>2, <2>3
  <1>29. QED BY <1>4, <1>15, <1>16, <1>17, <1>22, <1>23, <1>24, <1>25, <1>26, <1>27, <1>28
         DEF h, s, blk

\* Overwriting the head of a removed record frees exactly its blocks, and the
\* directory save that may follow begins in a sound state.
LEMMA FreeStep ==
  ASSUME IInv, FreeHead
  PROVE  /\ IInv'
         /\ Heads(disk') = Heads(disk) \ {op.ids[1]}
         /\ \A g \in Heads(disk) \ {op.ids[1]} : disk'[g] = disk[g]
         /\ Live(disk) \subseteq Live(disk') \cup {op.ids[1]} \cup op.old
  <1> USE DEF IInv
  <1> DEFINE id == op.ids[1]
             freed == {id} \cup op.old
             roots == [n \in Names |-> IF m_roots[n] = id THEN 0 ELSE m_roots[n]]
  <1>0. /\ op.kind = "remove" /\ IsOpen /\ id \in Heads(disk) /\ id # m_dirId
        /\ op.old = Continuations(disk, id)
    BY DEF FreeHead, OpSound, TargetSound
  <1>1. id \in Ids /\ disk \in [Ids -> Blocks] /\ ChainsIntact(disk)
    BY <1>0 DEF Heads, TypeOK, FileSound
  <1>2. FreeBlock \in Blocks
    BY ConstantsAssumption DEF Blocks, FreeBlock, BlockOf, Ids0
  <1>3. /\ disk' = [disk EXCEPT ![id] = FreeBlock] /\ disk' \in [Ids -> Blocks]
        /\ fsize' \in Ids0 /\ header' = header
        /\ \A b \in Ids : b > fsize' => disk'[b] = Hole
    BY <1>1, <1>2, WriteInFile DEF FreeHead, FileSound
  <1>4. /\ m_head' = [m_head EXCEPT ![id] = NoHead]
        /\ m_free' = [b \in Ids |-> IF b \in freed THEN m_free[b] + 1 ELSE m_free[b]]
        /\ m_roots' = roots
        /\ op' = IF roots # m_roots THEN SaveDirectoryOp(disk', roots) ELSE Idle
        /\ UNCHANGED <<m_fd, m_nblocks, m_dirId>>
    BY DEF FreeHead
  <1>5. roots \in Directories /\ roots \in Payloads
    BY ConstantsAssumption DEF TypeOK, Directories, Payloads, Ids0
  <1> HIDE DEF id, roots
  <1>6. \A g \in Heads(disk) : id \notin Continuations(disk, g)
    BY <1>0, <1>1, HeadInNoChain
  <1>7. \A g \in Heads(disk) \ {id} :
          /\ g \in Heads(disk') /\ disk'[g] = disk[g]
          /\ Continuations(disk', g) = Continuations(disk, g)
          /\ ChainIntact(disk', disk'[g].next)
          /\ Whole(disk, g) => Whole(disk', g)
    <2>1. disk' = [disk EXCEPT ![id] = FreeBlock]
      BY <1>3
    <2>2. QED BY <1>1, <1>2, <1>6, <2>1, OthersKept
  <1>8. disk'[id].type = "free" /\ \A b \in Ids \ {id} : disk'[b] = disk[b]
    BY <1>1, <1>3 DEF FreeBlock, BlockOf
  <1>9. Heads(disk') = Heads(disk) \ {id}
    BY <1>1, <1>8 DEF Heads
  <1>10. FileSound'
    <2>1. ChainsIntact(disk')
      BY <1>1, <1>7, <1>9 DEF ChainsIntact
    <2>2. \A g \in Heads(disk') :
            /\ Whole(disk', g) /\ disk'[g].tag \in Tags \cup {DirTag}
            /\ disk'[g].data \in Payloads
            /\ disk'[g].tag = DirTag => disk'[g].data \in Directories
      BY <1>7, <1>9 DEF FileSound
    <2>3. header' = "full"
      BY <1>0, <1>3 DEF FileSound
    <2>4. QED BY <1>3, <2>1, <2>2, <2>3 DEF FileSound
  <1>11. IndexMatchesFile'
    <2>1. ASSUME NEW b \in Ids
          PROVE  m_head'[b] = IF b \in Heads(disk')
                              THEN [tag |-> disk'[b].tag, next |-> disk'[b].next] ELSE NoHead
      <3>1. m_head[b] = IF b \in Heads(disk)
                        THEN [tag |-> disk[b].tag, next |-> disk[b].next] ELSE NoHead
        BY <1>0 DEF IndexMatchesFile
      <3>2. CASE b = id
        BY <1>1, <1>4, <1>9, <3>2 DEF TypeOK
      <3>3. CASE b # id
        BY <1>4, <1>7, <1>9, <3>1, <3>3 DEF TypeOK
      <3>4. QED BY <3>2, <3>3
    <2>2. QED BY <2>1 DEF IndexMatchesFile
  <1>12. disk[id].tag # DirTag
    BY <1>0, <1>1 DEF OneDirectory, Ids
  <1>13. OneDirectory'
    <2>1. {g \in Heads(disk') : disk'[g].tag = DirTag} = {g \in Heads(disk) : disk[g].tag = DirTag}
      BY <1>7, <1>9, <1>12
    <2>2. QED BY <1>0, <1>4, <2>1 DEF OneDirectory, IsOpen
  <1>14. op' \in Ops /\ OpSound' /\ Reserved' = {}
    <2>1. CASE roots = m_roots
      <3>1. op' \in Ops /\ op'.kind = "none" /\ op'.old = {}
        BY <1>4, <2>1 DEF Idle, OpOf, Ops
      <3>2. QED BY <3>1 DEF OpSound, Reserved, Writing
    <2>2. CASE roots # m_roots /\ m_dirId = 0
      <3>1. op' = InsertOp(roots, DirTag) /\ IsOpen' /\ m_dirId' = 0
        BY <1>0, <1>4, <2>2 DEF SaveDirectoryOp, IsOpen
      <3>2. QED BY <1>5, <3>1, BeginInsert
    <2>3. CASE roots # m_roots /\ m_dirId # 0
      <3>1. m_dirId \in Ids /\ m_head[m_dirId] # NoHead
        BY <1>0, <2>3, DirectoryIsRecord
      <3>2. /\ m_dirId \in Heads(disk) /\ m_head[m_dirId].tag = disk[m_dirId].tag
            /\ disk[m_dirId].tag \in Tags \cup {DirTag}
        BY <1>0, <3>1, RecordIsHead
      <3>3. m_head[m_dirId].next = disk[m_dirId].next
        <4>1. m_head[m_dirId] = [tag |-> disk[m_dirId].tag, next |-> disk[m_dirId].next]
          BY <1>0, <3>1, <3>2 DEF IndexMatchesFile
        <4>2. QED BY <4>1
      <3>4. m_dirId \in Heads(disk') /\ disk'[m_dirId] = disk[m_dirId]
        BY <1>0, <1>7, <3>2
      <3>5. op' = OpOf("update", disk'[m_dirId].tag, roots, <<m_dirId>>, NumChunks(roots),
                       Continuations(disk', m_dirId))
        BY <1>4, <2>3, <3>2, <3>3, <3>4 DEF SaveDirectoryOp, UpdateOp, Continuations
      <3>6. IsOpen'
        BY <1>0, <1>4 DEF IsOpen
      <3>7. QED BY <1>3, <1>5, <3>1, <3>2, <3>4, <3>5, <3>6, BeginUpdate
    <2>4. QED BY <2>1, <2>2, <2>3
  <1>15. TypeOK'
    <2>1. m_head' \in [Ids -> HeadInfo \cup {NoHead}]
      BY <1>1, <1>4 DEF TypeOK
    <2>2. m_free' \in [Ids -> Nat]
      BY <1>4 DEF TypeOK
    <2>3. header' \in {"none", "short", "full"} /\ m_fd' \in {"closed", "open"}
          /\ m_nblocks' \in Ids0 /\ m_dirId' \in Ids0
      BY <1>3, <1>4 DEF TypeOK
    <2>4. QED BY <1>3, <1>4, <1>5, <1>14, <2>1, <2>2, <2>3 DEF TypeOK
  <1>16. BlockOwnership'
    <2>1. \A b \in Ids : b \in Live(disk') => b \in Live(disk) /\ b \notin freed
      <3>1. ASSUME NEW b \in Live(disk') PROVE b \in Live(disk) /\ b \notin freed
        <4>1. PICK g \in Heads(disk) \ {id} : b = g \/ b \in Continuations(disk, g)
          BY <1>7, <1>9, <3>1 DEF Live
        <4>2. b # id
          BY <1>6, <4>1
        <4>3. b \notin Continuations(disk, id)
          BY <1>0, <1>1, <4>1, HeadInNoChain DEF ChainsIntact, id
        <4>4. QED BY <1>0, <4>1, <4>2, <4>3 DEF Live
      <3>2. QED BY <3>1
    <2>2. \A b \in freed : b \in Live(disk)
      BY <1>0 DEF Live
    <2>3. ASSUME NEW b \in Ids
          PROVE  /\ m_free'[b] <= 1
                 /\ m_free'[b] = 1 => b \notin Live(disk')
                 /\ m_free'[b] = 1 \/ b \in Live(disk') => b <= m_nblocks
      <3>1. /\ m_free[b] <= 1 /\ m_free[b] \in Nat
            /\ m_free[b] = 1 => b \notin Live(disk)
            /\ m_free[b] = 1 \/ b \in Live(disk) => b <= m_nblocks
        BY <1>0 DEF BlockOwnership, TypeOK
      <3>2. m_free'[b] = IF b \in freed THEN m_free[b] + 1 ELSE m_free[b]
        BY <1>4
      <3> HIDE DEF freed
      <3>3. CASE b \in freed
        BY <2>1, <2>2, <3>1, <3>2, <3>3
      <3>4. CASE b \notin freed
        BY <2>1, <3>1, <3>2, <3>4
      <3>5. QED BY <3>3, <3>4
    <2>4. QED BY <1>4, <1>14, <2>3 DEF BlockOwnership
  <1>17. ClosedBlank'
    BY <1>0, <1>4 DEF ClosedBlank, IsOpen
  <1>18. Live(disk) \subseteq Live(disk') \cup {id} \cup op.old
    <2>1. ASSUME NEW b \in Live(disk) PROVE b \in Live(disk') \cup {id} \cup op.old
      <3>1. PICK g \in Heads(disk) : b = g \/ b \in Continuations(disk, g)
        BY <2>1 DEF Live
      <3>2. CASE g # id
        BY <1>7, <3>1, <3>2 DEF Live
      <3>3. CASE g = id
        BY <1>0, <3>1, <3>3 DEF id
      <3>4. QED BY <3>2, <3>3
    <2>2. QED BY <2>1
  <1>19. QED BY <1>7, <1>9, <1>10, <1>11, <1>13, <1>14, <1>15, <1>16, <1>17, <1>18 DEF id

\* The scan finds every record, and exactly the other blocks free.
LEMMA OpenStep ==
  ASSUME IInv, Open
  PROVE  /\ IInv'
         /\ SameRecords
         /\ Lost' = {}
  <1> USE DEF IInv
  <1>0. disk \in [Ids -> Blocks] /\ ChainsIntact(disk) /\ fsize \in Ids0
    BY DEF TypeOK, FileSound
  <1>1. PICK n \in 0..fsize :
          /\ \A b \in (n + 1)..fsize : b \in ScanFree(disk, fsize)
          /\ fsize' = n
          /\ m_nblocks' = n
          /\ disk' = [b \in Ids |-> IF b \in (n + 1)..fsize THEN Hole ELSE disk[b]]
          /\ m_free' = [b \in Ids |-> IF b <= n /\ b \in ScanFree(disk, fsize) THEN 1 ELSE 0]
    BY DEF Open
  <1>2. n \in Ids0 /\ n \in Nat /\ fsize \in Nat
    BY <1>0, ConstantsAssumption DEF Ids0
  <1>3. disk' \in [Ids -> Blocks]
    <2>1. Hole \in Blocks
      BY ConstantsAssumption DEF Hole, BlockOf, Blocks, Ids0
    <2>2. QED BY <1>0, <1>1, <2>1
  <1>4. \A b \in Live(disk) : /\ b \in Ids /\ disk[b].type \in {"head", "cont"}
                              /\ b \notin ScanFree(disk, fsize)
    <2>1. ASSUME NEW b \in Live(disk) PROVE b \in Ids /\ disk[b].type \in {"head", "cont"}
      <3>1. CASE b \in Heads(disk)
        BY <3>1 DEF Heads
      <3>2. CASE \E g \in Heads(disk) : b \in Continuations(disk, g)
        <4>1. PICK g \in Heads(disk) : b \in Continuations(disk, g)
          BY <3>2
        <4>2. g \in Ids /\ disk[g].next \in Ids0
          BY <1>0 DEF Heads, Blocks
        <4>3. QED BY <1>0, <4>1, <4>2, ReachClosed DEF ChainsIntact, ChainIntact, Continuations
      <3>3. QED BY <2>1, <3>1, <3>2 DEF Live
    <2>2. ASSUME NEW b \in Live(disk) PROVE b \notin ScanFree(disk, fsize)
      <3>1. disk[b].type \in {"head", "cont"}
        BY <2>1, <2>2
      <3>2. QED BY <3>1 DEF ScanFree, Live, Heads
    <2>3. QED BY <2>1, <2>2
  <1>5. \A b \in Live(disk) : b <= n /\ disk'[b] = disk[b]
    <2>1. ASSUME NEW b \in Live(disk) PROVE b <= n /\ disk'[b] = disk[b]
      <3>1. b \in Ids /\ disk[b] # Hole
        BY <1>4, <2>1 DEF Hole, BlockOf
      <3>2. b \in Nat /\ b >= 1 /\ ~(b > fsize)
        BY <3>1 DEF FileSound, Ids
      <3>3. b \notin (n + 1)..fsize
        BY <1>1, <1>4, <2>1
      <3>4. QED BY <1>1, <1>2, <3>1, <3>2, <3>3
    <2>2. QED BY <2>1
  <1>6. \A g \in Heads(disk) :
          /\ g \in Heads(disk') /\ disk'[g] = disk[g]
          /\ Continuations(disk', g) = Continuations(disk, g)
          /\ ChainIntact(disk', disk'[g].next)
          /\ Whole(disk, g) => Whole(disk', g)
    <2>1. ASSUME NEW g \in Heads(disk)
          PROVE  /\ g \in Heads(disk') /\ disk'[g] = disk[g]
                 /\ Continuations(disk', g) = Continuations(disk, g)
                 /\ ChainIntact(disk', disk'[g].next)
                 /\ Whole(disk, g) => Whole(disk', g)
      <3>1. disk'[g] = disk[g] /\ \A c \in Continuations(disk, g) : disk'[c] = disk[c]
        BY <1>5 DEF Live
      <3>2. ChainIntact(disk, disk[g].next)
        BY <1>0 DEF ChainsIntact
      <3>3. QED BY <1>0, <1>3, <3>1, <3>2, RecordFrame
    <2>2. QED BY <2>1
  <1>7. Heads(disk') = Heads(disk)
    <2>1. \A b \in Ids : disk'[b] = disk[b] \/ disk'[b] = Hole
      BY <1>1
    <2>2. QED BY <1>6, <2>1 DEF Heads, Hole, BlockOf
  <1>8. Live(disk') = Live(disk)
    BY <1>6, <1>7 DEF Live
  <1>9. /\ header' = header /\ header = "full" /\ op' = op /\ op = Idle /\ m_fd' = "open"
        /\ m_head' = [b \in Ids |-> IF b \in Heads(disk)
                                    THEN [tag |-> disk[b].tag, next |-> disk[b].next]
                                    ELSE NoHead]
    BY DEF Open
  <1>10. op' \in Ops /\ op'.kind = "none" /\ op'.old = {} /\ IsOpen' /\ Reserved' = {}
    BY <1>9 DEF Idle, OpOf, Ops, IsOpen, Reserved, Writing
  <1>11. FileSound'
    <2>1. ChainsIntact(disk')
      BY <1>0, <1>6, <1>7 DEF ChainsIntact
    <2>2. \A g \in Heads(disk') :
            /\ Whole(disk', g) /\ disk'[g].tag \in Tags \cup {DirTag}
            /\ disk'[g].data \in Payloads
            /\ disk'[g].tag = DirTag => disk'[g].data \in Directories
      BY <1>6, <1>7 DEF FileSound
    <2>3. \A b \in Ids : b > fsize' => disk'[b] = Hole
      BY <1>1, <1>2 DEF FileSound, Ids
    <2>4. QED BY <1>9, <2>1, <2>2, <2>3 DEF FileSound
  <1>12. IndexMatchesFile' /\ ClosedBlank' /\ OpSound'
    BY <1>6, <1>7, <1>9, <1>10 DEF IndexMatchesFile, ClosedBlank, OpSound
  <1>13. BlockOwnership'
    <2>1. ASSUME NEW b \in Ids
          PROVE  /\ m_free'[b] <= 1
                 /\ m_free'[b] = 1 => b \notin Live(disk')
                 /\ m_free'[b] = 1 \/ b \in Live(disk') => b <= m_nblocks'
      BY <1>1, <1>4, <1>5, <1>8
    <2>2. QED BY <1>10, <2>1 DEF BlockOwnership
  <1>14. m_dirId' \in Ids0 /\ m_roots' \in Directories /\ OneDirectory'
    <2> DEFINE dirs == {h \in Heads(disk) : disk[h].tag = DirTag}
    <2>1. dirs = {h \in Heads(disk') : disk'[h].tag = DirTag}
      BY <1>6, <1>7
    <2>2. \A g, h \in dirs : g = h
      BY DEF OneDirectory
    <2>3. CASE dirs = {} /\ m_dirId' = 0 /\ m_roots' = [x \in Names |-> 0]
      <3>1. m_dirId' \in Ids0 /\ m_roots' \in Directories
        BY <2>3, ConstantsAssumption DEF Directories, Ids0
      <3>2. QED BY <2>1, <2>3, <3>1 DEF OneDirectory
    <2>4. CASE m_dirId' \in dirs /\ m_roots' = disk[m_dirId'].data
      <3>1. m_dirId' \in Ids /\ m_roots' \in Directories
        BY <2>4 DEF FileSound, Heads
      <3>2. m_dirId' \in Ids0 /\ m_dirId' # 0
        BY <3>1 DEF Ids, Ids0
      <3>3. QED BY <2>1, <2>2, <2>4, <3>1, <3>2 DEF OneDirectory
    <2>5. QED BY <2>3, <2>4 DEF Open
  <1>15. TypeOK'
    <2>1. m_head' \in [Ids -> HeadInfo \cup {NoHead}]
      <3>1. \A b \in Heads(disk) : b \in Ids /\ disk[b].tag \in Tags \cup {DirTag} /\ disk[b].next \in Ids0
        BY <1>0 DEF FileSound, Heads, Blocks
      <3>2. QED BY <1>9, <3>1 DEF HeadInfo
    <2>2. m_free' \in [Ids -> Nat]
      BY <1>1
    <2>3. QED BY <1>1, <1>2, <1>3, <1>9, <1>10, <1>14, <2>1, <2>2 DEF TypeOK
  <1>16. SameRecords
    BY <1>6, <1>7, <1>8 DEF SameRecords
  <1>17. Lost' = {}
    <2>1. ASSUME NEW b \in 1..n PROVE b \in Live(disk) \/ m_free'[b] = 1
      <3>1. b \in Ids /\ b \in 1..fsize /\ b <= n
        <4>1. fsize <= MaxBlocks /\ n <= fsize
          BY <1>0, <1>1, <1>2, ConstantsAssumption DEF Ids0
        <4>2. QED BY <1>2, <2>1, <4>1, ConstantsAssumption DEF Ids
      <3>2. disk[b].type \in {"free", "head", "cont"}
        <4>1. disk[b].type # "hole" /\ disk[b] \in Blocks
          BY <1>0, <3>1 DEF Open, Readable
        <4>2. QED BY <4>1 DEF Blocks
      <3>3. disk[b].type = "head" => b \in Live(disk)
        BY <3>1 DEF Live, Heads
      <3>4. b \in Live(disk) \/ b \in ScanFree(disk, fsize)
        BY <3>1, <3>2, <3>3 DEF ScanFree
      <3>5. QED BY <1>1, <3>1, <3>4
    <2>2. \A b \in 1..m_nblocks' : b \in Live(disk') \/ m_free'[b] # 0
      BY <1>1, <1>8, <2>1
    <2>3. QED BY <2>2 DEF Lost
  <1>18. QED BY <1>11, <1>12, <1>13, <1>14, <1>15, <1>16, <1>17

\* Every step of every operation, failures and crashes included, keeps IInv.
LEMMA NextIInv == IInv /\ [Next]_vars => IInv'
  <1> SUFFICES ASSUME IInv, [Next]_vars PROVE IInv'
    OBVIOUS
  <1>1. CASE UNCHANGED vars
    BY <1>1 DEF vars, IInv, TypeOK, FileSound, BlockOwnership, IndexMatchesFile, OneDirectory,
                OpSound, ChainInProgress, TargetSound, ClosedBlank, IsOpen, NextOf, Reserved,
                Writing
  <1>2. CASE Next
    BY <1>2, HeaderSteps, OpenStep, ForgetStep, BeginOperation, AllocSteps, ContinuationStep,
       HeadStep, FreeStep, FailStep DEF Next
  <1>3. QED BY <1>1, <1>2

\* IInv holds in every reachable state.
THEOREM Inductive == Spec => []IInv
  BY InitIInv, NextIInv, PTL DEF Spec

\* Every variable keeps its type, for every instance of the store.
THEOREM TypeCorrect == Spec => []TypeOK
  <1>1. IInv => TypeOK BY DEF IInv
  <1>2. QED BY <1>1, Inductive, PTL

\* No block is ever owned twice: alloc(), writeChain(), updateLocked(),
\* removeLocked(), a failed write, a crash and scan() all keep the free stack,
\* the records and the operation in progress apart.
THEOREM OwnershipSafe == Spec => []BlockOwnership
  <1>1. IInv => BlockOwnership BY DEF IInv
  <1>2. QED BY <1>1, Inductive, PTL

\* Whenever the process dies, the chains in the file are intact: scan() never
\* throws "broken block chain".
THEOREM ChainsSafe == Spec => []ChainsAlwaysIntact
  <1>1. IInv => ChainsAlwaysIntact BY DEF IInv, FileSound, ChainsAlwaysIntact
  <1>2. QED BY <1>1, Inductive, PTL

\* m_head and the head blocks of the file agree at every step of every operation.
THEOREM IndexSafe == Spec => []IndexMatchesFile
  <1>1. IInv => IndexMatchesFile BY DEF IInv
  <1>2. QED BY <1>1, Inductive, PTL

\* saveDirectoryLocked() never leaves two directory records behind.
THEOREM DirectorySafe == Spec => []OneDirectory
  <1>1. IInv => OneDirectory BY DEF IInv
  <1>2. QED BY <1>1, Inductive, PTL

\* The store keeps its integrity for every file size, payload and name: after every
\* step of every operation, after a failed write and after a crash at any instant.
THEOREM IntegrityHolds == Spec => []Integrity
  <1>1. IInv => Integrity BY DEF IInv, FileSound, ChainsAlwaysIntact, Integrity
  <1>2. QED BY <1>1, Inductive, PTL

-----------------------------------------------------------------------------
(* Space                                                                   *)

\* When every block that leaves the records is pushed on the free stack, none is lost.
LEMMA FreedKept ==
  ASSUME IInv, NEW freed, m_nblocks' = m_nblocks,
         m_free' = [b \in Ids |-> IF b \in freed THEN m_free[b] + 1 ELSE m_free[b]],
         Live(disk) \cup Reserved \subseteq Live(disk') \cup freed
  PROVE  Lost' \subseteq Lost
  <1>1. ASSUME NEW b \in Lost' PROVE b \in Lost
    <2>1. b \in 1..m_nblocks /\ b \notin Live(disk') /\ m_free'[b] = 0
      BY <1>1 DEF Lost
    <2>2. b \in Ids /\ m_free[b] \in Nat
      <3>1. m_nblocks \in 0..MaxBlocks /\ m_free \in [Ids -> Nat]
        BY DEF IInv, TypeOK, Ids0
      <3>2. b \in Ids
        BY <2>1, <3>1, ConstantsAssumption DEF Ids
      <3>3. QED BY <3>1, <3>2
    <2>3. b \notin freed /\ m_free[b] = 0
      BY <2>1, <2>2
    <2>4. QED BY <2>1, <2>3 DEF Lost
  <1>2. QED BY <1>1

\* A step of an operation that is not a failed write loses no block.
LEMMA StepKeeps ==
  ASSUME IInv, Next, IsOpen'
  PROVE  Lost' \subseteq Lost \/ WriteFails
  <1> USE DEF IInv
  <1>1. CASE CreateHeader \/ ExtendHeader \/ Open \/ Close \/ Crash
    <2>1. CASE ExtendHeader
      <3>1. m_nblocks' = 0
        BY <2>1 DEF ExtendHeader, OpSound, ClosedBlank
      <3>2. QED BY <3>1 DEF Lost
    <2>2. CASE Open
      BY <2>2, OpenStep
    <2>3. ~(CreateHeader \/ Close \/ Crash)
      BY DEF CreateHeader, Close, Crash, ForgetMemory, memVars, IsOpen
    <2>4. QED BY <1>1, <2>1, <2>2, <2>3
  <1>2. CASE \/ \E v \in Values : \/ \E t \in Tags : Insert(v, t)
                                  \/ \E id \in Ids : Update(id, v)
             \/ \E id \in Ids : Remove(id)
             \/ \E n \in Names : RemoveRoot(n) \/ \E id \in Ids : SetRoot(n, id)
    <2>1. op = Idle /\ UNCHANGED <<disk, m_nblocks, m_free>>
      BY <1>2 DEF Insert, Update, Remove, RemoveRoot, SetRoot, fileVars, memVars
    <2>2. Reserved = {}
      BY <2>1 DEF Reserved, Writing, Idle, OpOf
    <2>3. QED BY <2>1, <2>2 DEF Lost
  <1>3. CASE AllocGrow \/ \E b \in Ids : AllocFree(b)
    BY <1>3, AllocSteps
  <1>4. CASE WriteContinuation
    <2>1. UNCHANGED <<m_nblocks, m_free>> /\ Live(disk') = Live(disk) /\ Reserved' = Reserved
      BY <1>4, ContinuationStep DEF WriteContinuation, memVars, SameRecords
    <2>2. QED BY <2>1 DEF Lost
  <1>5. CASE WriteHead
    <2>1. /\ m_nblocks' = m_nblocks
          /\ m_free' = [b \in Ids |-> IF b \in op.old THEN m_free[b] + 1 ELSE m_free[b]]
      BY <1>5 DEF WriteHead
    <2>2. Live(disk) \cup Reserved \subseteq Live(disk') \cup op.old
      BY <1>5, HeadStep
    <2>3. QED BY <2>1, <2>2, FreedKept
  <1>6. CASE FreeHead
    <2>1. /\ m_nblocks' = m_nblocks
          /\ m_free' = [b \in Ids |-> IF b \in {op.ids[1]} \cup op.old
                                      THEN m_free[b] + 1 ELSE m_free[b]]
      BY <1>6 DEF FreeHead
    <2>2. Live(disk) \subseteq Live(disk') \cup ({op.ids[1]} \cup op.old)
      BY <1>6, FreeStep
    <2>3. Reserved = {}
      BY <1>6 DEF FreeHead, Reserved, Writing
    <2>4. Live(disk) \cup Reserved \subseteq Live(disk') \cup ({op.ids[1]} \cup op.old)
      BY <2>2, <2>3
    <2>5. QED BY <2>1, <2>4, FreedKept
  <1>7. QED BY <1>1, <1>2, <1>3, <1>4, <1>5, <1>6 DEF Next

\* Only an Open or the creation of the file opens the store, and then every block
\* below m_nblocks is in a record or on the free stack.
LEMMA OpeningFindsAll ==
  ASSUME IInv, Next, ~IsOpen, IsOpen'
  PROVE  Lost' = {}
  <1> USE DEF IInv
  <1>1. CASE Open
    BY <1>1, OpenStep
  <1>2. CASE ExtendHeader
    <2>1. m_nblocks' = 0
      BY <1>2 DEF ExtendHeader, ClosedBlank
    <2>2. QED BY <2>1 DEF Lost
  <1>3. QED
    <2>1. ~(CreateHeader \/ Close \/ Crash \/ WriteFails)
      BY DEF CreateHeader, Close, Crash, ForgetMemory, WriteFails, memVars, IsOpen
    <2>2. ~(AllocGrow \/ (\E b \in Ids : AllocFree(b)) \/ WriteContinuation \/ WriteHead \/ FreeHead)
      BY DEF AllocGrow, AllocFree, WriteContinuation, WriteHead, FreeHead, memVars, IsOpen
    <2>3. ~ \/ \E v \in Values : \/ \E t \in Tags : Insert(v, t)
                                 \/ \E id \in Ids : Update(id, v)
            \/ \E id \in Ids : Remove(id)
            \/ \E n \in Names : RemoveRoot(n) \/ \E id \in Ids : SetRoot(n, id)
      BY DEF Insert, Update, Remove, RemoveRoot, SetRoot
    <2>4. QED BY <1>1, <1>2, <2>1, <2>2, <2>3 DEF Next

\* Space is lost only by a failed write and only until the store is opened again,
\* for every file size, payload and name (alloc(), updateLocked(), removeLocked()
\* and scan() account for every block).
THEOREM NothingEverLeaks == Spec => NothingLeaks
  <1>1. IInv /\ [Next]_vars =>
          [/\ IsOpen' => Lost' \subseteq Lost \/ WriteFails
           /\ ~IsOpen /\ IsOpen' => Lost' = {}]_vars
    BY StepKeeps, OpeningFindsAll
  <1>2. QED BY <1>1, Inductive, PTL DEF Spec, NothingLeaks

-----------------------------------------------------------------------------
(* The store implements RecordStore                                        *)

\* What is asked for, and what a record reads as, is never "nothing".
LEMMA Something ==
  /\ \A k \in {"insert", "update", "remove"}, t \in Tags \cup {DirTag, NoData},
        d \in Payloads \cup {NoData}, i \in Ids0 :
       [kind |-> k, tag |-> t, data |-> d, id |-> i] # NoData
  /\ \A t \in Tags \cup {DirTag}, d \in Payloads :
       [tag |-> t, data |-> d] \in Contents /\ [tag |-> t, data |-> d] # NoData
  <1>1. NoData \notin Contents /\ NoData \notin Requests
    BY ConstantsAssumption
  <1>2. QED BY <1>1 DEF Contents, Requests

\* Every record reads as what its head block says: it is whole.
LEMMA RecordsRead ==
  ASSUME IInv
  PROVE  /\ Records = [b \in Ids |-> IF b \in Heads(disk)
                                     THEN [tag |-> disk[b].tag, data |-> disk[b].data]
                                     ELSE NoData]
         /\ \A b \in Heads(disk) : b \in Ids /\ Records[b] \in Contents /\ Records[b] # NoData
  <1>1. \A b \in Heads(disk) : /\ b \in Ids /\ Whole(disk, b)
                               /\ disk[b].tag \in Tags \cup {DirTag} /\ disk[b].data \in Payloads
    BY DEF IInv, FileSound, Heads
  <1>2. Records = [b \in Ids |-> IF b \in Heads(disk)
                                 THEN [tag |-> disk[b].tag, data |-> disk[b].data]
                                 ELSE NoData]
    BY <1>1 DEF Records
  <1>3. QED BY <1>1, <1>2, Something

\* The same of the state a step leads to.
LEMMA RecordsReadNext ==
  ASSUME IInv'
  PROVE  Records' = [b \in Ids |-> IF b \in Heads(disk')
                                   THEN [tag |-> disk'[b].tag, data |-> disk'[b].data]
                                   ELSE NoData]
  <1>1. \A b \in Heads(disk') : b \in Ids /\ Whole(disk', b)
    BY DEF IInv, FileSound, Heads
  <1>2. QED BY <1>1 DEF Records

\* The operation in progress as the caller's request.
LEMMA RequestRead ==
  ASSUME IInv, op.kind \in {"insert", "update", "remove"}
  PROVE  /\ Request = [kind |-> op.kind, tag |-> op.tag, data |-> op.data,
                       id |-> IF op.kind = "insert" THEN 0 ELSE op.ids[1]]
         /\ Request # NoData
  <1>1. /\ op.tag \in Tags \cup {DirTag, NoData} /\ op.data \in Payloads \cup {NoData}
        /\ (IF op.kind = "insert" THEN 0 ELSE op.ids[1]) \in Ids0
    <2>1. op.kind # "insert" => op.ids[1] \in Ids
      BY DEF IInv, OpSound, TargetSound, Heads
    <2>2. QED BY <2>1, ConstantsAssumption DEF IInv, TypeOK, Ops, Ids, Ids0
  <1>2. Request = [kind |-> op.kind, tag |-> op.tag, data |-> op.data,
                   id |-> IF op.kind = "insert" THEN 0 ELSE op.ids[1]]
    BY DEF Request
  <1>3. QED BY <1>1, <1>2, Something

\* An operation begins: the request is about a record that exists.
LEMMA BeginRefines ==
  ASSUME IInv, IInv', op = Idle, op'.kind \in {"insert", "update", "remove"}, disk' = disk
  PROVE  Abstract!Next
  <1>1. Request = NoData
    BY DEF Request, Idle, OpOf
  <1>2. Records' = Records
    BY DEF Records
  <1>3. op'.kind # "insert" => op'.ids[1] \in Heads(disk)
    BY DEF IInv, OpSound, TargetSound
  <1>4. Request' = [kind |-> op'.kind, tag |-> op'.tag, data |-> op'.data,
                    id |-> IF op'.kind = "insert" THEN 0 ELSE op'.ids[1]]
    BY DEF Request
  <1>5. Request' # NoData
    <2>1. /\ op'.tag \in Tags \cup {DirTag, NoData} /\ op'.data \in Payloads \cup {NoData}
          /\ (IF op'.kind = "insert" THEN 0 ELSE op'.ids[1]) \in Ids0
      BY <1>3, ConstantsAssumption DEF IInv, TypeOK, Ops, Heads, Ids, Ids0
    <2>2. QED BY <1>4, <2>1, Something
  <1>6. Request'.kind \in {"update", "remove"} => Records[Request'.id] # NoData
    <2>1. Request'.kind = op'.kind
      BY <1>4
    <2>2. op'.kind # "insert" => Request'.id = op'.ids[1]
      BY <1>4
    <2>3. QED BY <1>3, <2>1, <2>2, RecordsRead
  <1>7. QED BY <1>1, <1>2, <1>5, <1>6 DEF Abstract!Next, Abstract!Begin, Abstract!Sensible

\* The head block is the instant at which an insert or an update takes effect.
LEMMA HeadRefines ==
  ASSUME IInv, WriteHead
  PROVE  Abstract!Next
  <1> DEFINE h == op.ids[1]
             c == [tag |-> op.tag, data |-> op.data]
  <1>1. /\ IInv' /\ Heads(disk') = Heads(disk) \cup {h}
        /\ disk'[h] = BlockOf("head", op.tag, NextOf(1), op.data, 1)
        /\ \A g \in Heads(disk) \ {h} : disk'[g] = disk[g]
    BY HeadStep
  <1>2. op.kind \in {"insert", "update"} /\ ChainInProgress /\ op' = Idle
    BY DEF IInv, OpSound, WriteHead, ReadyToWrite, Writing
  <1>3. disk'[h].tag = op.tag /\ disk'[h].data = op.data /\ h \in Ids
    BY <1>1 DEF BlockOf, Heads
  <1>4. c \in Contents
    BY <1>2, Something DEF ChainInProgress
  <1>5. /\ Request # NoData /\ Request.kind = op.kind /\ Request.tag = op.tag
        /\ Request.data = op.data /\ (op.kind = "update" => Request.id = h)
    BY <1>2, RequestRead
  <1>6. Request' = NoData
    BY <1>2 DEF Request, Idle, OpOf
  <1>7. Records' = [Records EXCEPT ![h] = c]
    <2> HIDE DEF h, c
    <2>1. \A b \in Ids \ {h} : (b \in Heads(disk') <=> b \in Heads(disk))
      BY <1>1
    <2>2. Records' = [b \in Ids |-> IF b = h THEN c ELSE Records[b]]
      BY <1>1, <1>3, <2>1, RecordsRead, RecordsReadNext DEF c
    <2>3. QED BY <2>2, RecordsRead
  <1>8. CASE op.kind = "insert"
    <2>1. Len(op.ids) >= 1 /\ Len(op.ids) \in Nat
      BY <1>2, ChunksPositive DEF WriteHead, ReadyToWrite, ChainInProgress
    <2>2. h \in Reserved
      BY <1>8, <2>1 DEF Reserved, Writing
    <2>3. h \notin Heads(disk)
      BY <1>2, <1>3, <2>2 DEF IInv, BlockOwnership, Live, ChainInProgress
    <2>4. Records[h] = NoData
      BY <1>3, <2>3, RecordsRead
    <2>5. Abstract!Insert(h)
      BY <1>4, <1>5, <1>7, <1>8, <2>4 DEF Abstract!Insert, Abstract!Content
    <2>6. QED BY <1>3, <1>5, <1>6, <2>5 DEF Abstract!Next, Abstract!Apply
  <1>9. CASE op.kind = "update"
    <2>1. h \in Heads(disk) /\ op.tag = disk[h].tag
      BY <1>9 DEF IInv, OpSound, TargetSound
    <2>2. Records[h].tag = op.tag
      BY <1>3, <2>1, RecordsRead
    <2>3. Abstract!Update(h)
      BY <1>5, <1>7, <1>9, <2>2 DEF Abstract!Update, Abstract!Content
    <2>4. QED BY <1>3, <1>5, <1>6, <2>3 DEF Abstract!Next, Abstract!Apply
  <1>10. QED BY <1>2, <1>8, <1>9

\* Overwriting the head block is the instant at which a removal takes effect; the
\* save of the directory may be the next request.
LEMMA FreeRefines ==
  ASSUME IInv, FreeHead
  PROVE  Abstract!Next
  <1> DEFINE h == op.ids[1]
  <1>1. /\ IInv' /\ Heads(disk') = Heads(disk) \ {h}
        /\ \A g \in Heads(disk) \ {h} : disk'[g] = disk[g]
    BY FreeStep
  <1>2. op.kind = "remove" /\ h \in Heads(disk) /\ h \in Ids
    BY DEF IInv, OpSound, TargetSound, FreeHead, Heads
  <1>3. Request # NoData /\ Request.kind = "remove" /\ Request.id = h
    BY <1>2, RequestRead
  <1>4. Records' = [Records EXCEPT ![h] = NoData]
    <2> HIDE DEF h
    <2>1. Records' = [b \in Ids |-> IF b = h THEN NoData ELSE Records[b]]
      BY <1>1, <1>2, RecordsRead, RecordsReadNext
    <2>2. QED BY <2>1, RecordsRead
  <1>5. op'.kind \in {"none", "insert", "update"}
    BY DEF FreeHead, SaveDirectoryOp, InsertOp, UpdateOp, OpOf, Idle
  <1>6. Request' = NoData \/ Request'.kind \in {"insert", "update"}
    <2>1. CASE op'.kind = "none"
      BY <2>1 DEF Request
    <2>2. CASE op'.kind # "none"
      BY <1>5, <2>2 DEF Request
    <2>3. QED BY <2>1, <2>2
  <1>7. Abstract!Remove(h)
    BY <1>3, <1>4 DEF Abstract!Remove
  <1>8. QED BY <1>2, <1>3, <1>6, <1>7 DEF Abstract!Next, Abstract!Apply

\* An operation that ends without its last write is abandoned without a trace.
LEMMA EndRefines ==
  ASSUME IInv, op'.kind = "none", disk' = disk
  PROVE  [Abstract!Next]_(Abstract!vars)
  <1>1. Records' = Records /\ Request' = NoData
    BY DEF Records, Request
  <1>2. CASE op.kind \in {"none", "create"}
    BY <1>1, <1>2 DEF Request, Abstract!vars
  <1>3. CASE op.kind \in {"insert", "update", "remove"}
    BY <1>1, <1>3, RequestRead DEF Abstract!Next, Abstract!Abandon
  <1>4. QED BY <1>2, <1>3 DEF IInv, TypeOK, Ops

\* A step that leaves the records and the request alone is none of the caller's.
LEMMA SameRefines ==
  ASSUME IInv, IInv', SameRecords, Request' = Request
  PROVE  UNCHANGED Abstract!vars
  <1>1. Records' = Records
    BY RecordsRead, RecordsReadNext DEF SameRecords
  <1>2. QED BY <1>1 DEF Abstract!vars

\* Callers see records that change by whole inserts, updates and removals, each at
\* one instant, for every file size, payload and name, and whenever a write fails
\* or the process dies (insertLocked(), updateLocked(), removeLocked(), scan()).
THEOREM RefinesRecordStore == Spec => ImplementsRecordStore
  <1>1. Init => Abstract!Init
    <2> SUFFICES ASSUME Init PROVE Abstract!Init
      OBVIOUS
    <2>1. Heads(disk) = {}
      BY DEF Init, Heads, Hole, BlockOf
    <2>2. Records = [b \in Ids |-> NoData] /\ Request = NoData
      BY <2>1 DEF Init, Records, Request, Idle, OpOf
    <2>3. QED BY <2>2 DEF Abstract!Init
  <1>2. IInv /\ IInv' /\ [Next]_vars => [Abstract!Next]_(Abstract!vars)
    <2> SUFFICES ASSUME IInv, IInv', [Next]_vars PROVE [Abstract!Next]_(Abstract!vars)
      OBVIOUS
    <2>1. CASE UNCHANGED vars
      BY <2>1 DEF vars, Records, Request, Abstract!vars
    <2>2. CASE CreateHeader \/ ExtendHeader
      <3>1. disk' = disk /\ op.kind \in {"none", "create"} /\ op'.kind \in {"none", "create"}
        BY <2>2 DEF CreateHeader, ExtendHeader, Idle, OpOf
      <3>2. QED BY <3>1 DEF Records, Request, Abstract!vars
    <2>3. CASE Open
      <3>1. SameRecords /\ op' = op
        BY <2>3, OpenStep DEF Open
      <3>2. QED BY <3>1, SameRefines DEF Request
    <2>4. CASE Close \/ Crash \/ WriteFails
      <3>1. op'.kind = "none" /\ disk' = disk
        BY <2>4 DEF Close, Crash, WriteFails, ForgetMemory, fileVars, Idle, OpOf
      <3>2. QED BY <3>1, EndRefines
    <2>5. CASE \/ \E v \in Values : \/ \E t \in Tags : Insert(v, t)
                                    \/ \E id \in Ids : Update(id, v)
               \/ \E id \in Ids : Remove(id)
               \/ \E n \in Names : RemoveRoot(n) \/ \E id \in Ids : SetRoot(n, id)
      <3>1. op = Idle /\ disk' = disk /\ op'.kind \in {"insert", "update", "remove"}
        BY <2>5 DEF Insert, Update, Remove, RemoveRoot, SetRoot, fileVars, SaveDirectoryOp,
                    InsertOp, UpdateOp, OpOf
      <3>2. QED BY <3>1, BeginRefines
    <2>6. CASE AllocGrow \/ \E b \in Ids : AllocFree(b)
      BY <2>6, AllocSteps DEF Records, Abstract!vars
    <2>7. CASE WriteContinuation
      <3>1. SameRecords
        BY <2>7, ContinuationStep
      <3>2. op \in Ops /\ op' = [op EXCEPT !.piece = @ - 1]
        BY <2>7 DEF WriteContinuation, IInv, TypeOK
      <3>3. Request' = Request
        BY <3>2 DEF Request, Ops
      <3>4. QED BY <3>1, <3>3, SameRefines
    <2>8. CASE WriteHead
      BY <2>8, HeadRefines
    <2>9. CASE FreeHead
      BY <2>9, FreeRefines
    <2>10. QED BY <2>1, <2>2, <2>3, <2>4, <2>5, <2>6, <2>7, <2>8, <2>9 DEF Next
  <1>3. QED BY <1>1, <1>2, Inductive, PTL DEF Spec, Abstract!Spec, ImplementsRecordStore
=============================================================================
