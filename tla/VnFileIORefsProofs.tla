------------------------- MODULE VnFileIORefsProofs -------------------------
(***************************************************************************)
(* Proofs about VnFileIO, for any threads, files, inodes and bounds: the   *)
(* types, the room that the bound on versions leaves, and that references  *)
(* to the inodes in memory are counted.                                    *)
(***************************************************************************)
EXTENDS VnFileIO, FiniteSetTheorems, TLAPS

----------------------------------------------------------------------------
(* Types *)

\* The locals of a call in progress are those of its kind.
LocalsOK(p, r) ==
    /\ p = "idle" => r = Reg0
    /\ p # "idle" => r.c \in Copy
    /\ p \in InWrite \cup InSync \cup InTrunc => r.h \in Handle
    /\ p \in InWrite \cup InTrunc => r.next <= r.to
    /\ p = "t_get" => r.next = 0
    /\ p \in InPersist => r.mode = "shared"
    /\ p \in InWrite => r.mode = "none"
    /\ p \in InSync => r.mode \in {"sync", "close"}
    /\ p \in InTrunc => r.mode \in {"own", "shared"}

\* TypeOK in parts, with ref_cnt any number.
DbTyped == db \in Database /\ recoverable \subseteq Database /\ db \in recoverable

InodesTyped ==
    memSize \in [Copy -> 0 .. MaxExt] /\ refCnt \in [Copy -> Int] /\ held \subseteq Copy

FilesTyped ==
    /\ copyOf \in [Handle -> Copy \cup {NoCopy}] /\ dirty \in [Handle -> BOOLEAN]
    /\ through \in [Handle -> SUBSET Ext]

CallsTyped ==
    /\ pc \in [Thread -> PC] /\ reg \in [Thread -> Register]
    /\ \A t \in Thread : LocalsOK(pc[t], reg[t])

LocksTyped ==
    extLock \in [Ext -> Thread \cup {NoThread}] /\ inoLock \in Thread \cup {NoThread}

HistoryTyped ==
    ver \in 0 .. MaxVer /\ wrote \in [1 .. MaxVer -> SUBSET Ext] /\ synced \subseteq Ext

Typed ==
    /\ DbTyped /\ InodesTyped /\ FilesTyped /\ CallsTyped /\ LocksTyped /\ HistoryTyped
    /\ ret \in {"none", "ok", "fail"}

\* Each write in progress has a number left.
Room == ver + Cardinality(Writers) <= MaxVer

\* The bounds are integers.
LEMMA Bounds ==
    MaxExt \in Int /\ MaxExt >= 1 /\ MaxVer \in Int /\ MaxVer >= 0
  BY ConstantsAssumption

\* What the calls do to their locals.
LEMMA RegisterUpdate ==
    ASSUME NEW r \in Register
    PROVE  /\ \A s \in -1 .. MaxExt : [r EXCEPT !.size = s] \in Register
           /\ \A n \in 0 .. MaxExt, p \in SUBSET Ext :
                [r EXCEPT !.next = n, !.put = p] \in Register
           /\ \A n \in 0 .. MaxExt : [r EXCEPT !.next = n] \in Register
           /\ \A n \in 0 .. MaxExt : [r EXCEPT !.to = n] \in Register
<1>1. \A s \in -1 .. MaxExt : [r EXCEPT !.size = s] \in Register
  BY DEF Register
<1>2. \A n \in 0 .. MaxExt, p \in SUBSET Ext : [r EXCEPT !.next = n, !.put = p] \in Register
  BY Zenon DEF Register
<1>3. \A n \in 0 .. MaxExt : [r EXCEPT !.next = n] \in Register
  BY DEF Register
<1>4. \A n \in 0 .. MaxExt : [r EXCEPT !.to = n] \in Register
  BY DEF Register
<1> QED  BY <1>1, <1>2, <1>3, <1>4, Zenon

\* A thread goes to another step with other locals.
LEMMA CallMoves ==
    ASSUME CallsTyped, NEW t \in Thread, NEW l \in PC, NEW r \in Register, LocalsOK(l, r),
           Goto(t, l), Set(t, r)
    PROVE  CallsTyped'
  BY DEF CallsTyped, Goto, Set

\* The parts that a step does not touch.
LEMMA Untouched ==
    /\ DbTyped /\ UNCHANGED db_ => DbTyped'
    /\ InodesTyped /\ UNCHANGED inodes => InodesTyped'
    /\ FilesTyped /\ UNCHANGED files => FilesTyped'
    /\ CallsTyped /\ UNCHANGED <<pc, reg>> => CallsTyped'
    /\ LocksTyped /\ UNCHANGED locks => LocksTyped'
    /\ HistoryTyped /\ UNCHANGED history => HistoryTyped'
  BY DEF DbTyped, InodesTyped, FilesTyped, CallsTyped, LocksTyped, HistoryTyped, db_,
         inodes, files, locks, history

\* The locals that a call starts with.
LEMMA FreshLocals ==
    ASSUME NEW h \in Handle \cup {NoHandle}, NEW c \in Copy \cup {NoCopy},
           NEW from \in 0 .. MaxExt, NEW to \in 0 .. MaxExt, NEW goal \in SUBSET Ext,
           NEW mode \in {"none", "own", "shared", "sync", "close"}
    PROVE  Locals(h, c, from, to, goal, mode) \in Register
  BY Bounds DEF Locals, Register, NoSize

\* The end of a call releases its locks and forgets its locals.
LEMMA CallReturns ==
    ASSUME CallsTyped, LocksTyped, NEW t \in Thread, NEW value \in {"ok", "fail"},
           Return(t, value)
    PROVE  CallsTyped' /\ LocksTyped' /\ ret' \in {"none", "ok", "fail"}
<1>1. Reg0 \in Register
  BY FreshLocals, Bounds DEF Reg0
<1>2. LocalsOK("idle", Reg0)
  BY DEF LocalsOK, InWrite, InSync, InTrunc, InPersist
<1>3. CallsTyped'
  BY <1>1, <1>2, CallMoves, Zenon DEF Return, Set, PC
<1>4. LocksTyped'
  BY DEF LocksTyped, Return, Unlocked
<1> QED  BY <1>3, <1>4 DEF Return

\* A range of extents.
LEMMA ExtentRange ==
    ASSUME NEW from \in 0 .. MaxExt, NEW to \in 0 .. MaxExt
    PROVE  from .. to - 1 \subseteq Ext
<1>1. from \in Int /\ to \in Int /\ 0 <= from /\ to <= MaxExt
  BY Bounds
<1>2. ASSUME NEW e \in from .. to - 1 PROVE e \in 0 .. MaxExt - 1
  BY <1>1, Bounds
<1> QED  BY <1>2 DEF Ext

\* A commit, synced or not, of a state of the file.
LEMMA Commits ==
    ASSUME DbTyped, NEW d \in [Ext -> 0 .. MaxVer], NEW s \in 0 .. MaxExt
    PROVE  CommitNoSync(Stored(d, s)) \/ CommitSync(Stored(d, s)) => DbTyped'
  BY DEF DbTyped, CommitNoSync, CommitSync, Stored, Database

\* The size that a commit records is one the inode can have.
LEMMA SizeAfterTyped ==
    ASSUME DbTyped, NEW r \in Register
    PROVE  SizeAfter(r) \in 0 .. MaxExt
  BY Bounds DEF DbTyped, Database, SizeAfter, Register, NoSize

\* _vn_persist_inode puts the size into the batch and changes nothing else.
LEMMA SizePut ==
    ASSUME Typed, NEW t \in Thread, reg[t].c \in Copy, NEW l \in PC,
           Goto(t, l), Set(t, [reg[t] EXCEPT !.size = memSize[reg[t].c]]),
           LocalsOK(pc[t], reg[t]) => LocalsOK(l, reg[t]), l # "idle"
    PROVE  CallsTyped'
<1> DEFINE r == [reg[t] EXCEPT !.size = memSize[reg[t].c]]
<1>1. reg[t] \in Register /\ LocalsOK(pc[t], reg[t])
  BY DEF Typed, CallsTyped
<1>2. memSize[reg[t].c] \in -1 .. MaxExt
  BY DEF Typed, InodesTyped
<1>3. r \in Register
  BY <1>1, <1>2, RegisterUpdate, Zenon
<1>4. /\ r.c = reg[t].c /\ r.mode = reg[t].mode /\ r.h = reg[t].h
      /\ r.next = reg[t].next /\ r.to = reg[t].to
  BY <1>1 DEF Register
<1>5. LocalsOK(l, r)
  BY <1>1, <1>4 DEF LocalsOK
<1> QED  BY <1>3, <1>5, CallMoves DEF Typed

\* One turn of the loops over extents: the lock is obtained, or the wait for it
\* has timed out and the extent is left out.
LEMMA ExtentStep ==
    ASSUME Typed, NEW t \in Thread, pc[t] \in InWrite \cup InTrunc, pc[t] # "t_get",
           reg[t].next < reg[t].to,
           \/ /\ extLock' = [extLock EXCEPT ![reg[t].next] = t]
              /\ Set(t, [reg[t] EXCEPT !.next = reg[t].next + 1,
                                       !.put = reg[t].put \cup {reg[t].next}])
           \/ /\ Set(t, [reg[t] EXCEPT !.next = reg[t].next + 1])
              /\ UNCHANGED extLock,
           UNCHANGED <<db_, inodes, files, pc, ret, inoLock, history>>
    PROVE  Typed'
<1> DEFINE n == reg[t].next + 1
           r1 == [reg[t] EXCEPT !.next = n, !.put = reg[t].put \cup {reg[t].next}]
           r2 == [reg[t] EXCEPT !.next = n]
<1>1. reg[t] \in Register /\ LocalsOK(pc[t], reg[t]) /\ pc[t] \in PC
  BY DEF Typed, CallsTyped
<1>2. /\ reg[t].next \in Int /\ reg[t].to \in Int /\ 0 <= reg[t].next
      /\ reg[t].to <= MaxExt /\ reg[t].put \subseteq Ext
  BY <1>1, Bounds DEF Register
<1>3. n \in 0 .. MaxExt /\ reg[t].next \in Ext /\ n <= reg[t].to
  BY <1>2, Bounds DEF Ext
<1>4. r1 \in Register /\ r2 \in Register
  BY <1>1, <1>2, <1>3, RegisterUpdate, Zenon
<1>5. /\ r1.c = reg[t].c /\ r1.mode = reg[t].mode /\ r1.h = reg[t].h
      /\ r1.next = n /\ r1.to = reg[t].to
  BY <1>1 DEF Register
<1>6. /\ r2.c = reg[t].c /\ r2.mode = reg[t].mode /\ r2.h = reg[t].h
      /\ r2.next = n /\ r2.to = reg[t].to
  BY <1>1 DEF Register
<1> HIDE DEF n, r1, r2
<1>7. LocalsOK(pc[t], r1) /\ LocalsOK(pc[t], r2)
  BY <1>1, <1>3, <1>5, <1>6 DEF LocalsOK, InWrite, InTrunc
<1>8. Set(t, r1) \/ Set(t, r2)
  BY DEF r1, r2, n
<1>9. Goto(t, pc[t])
  BY DEF Typed, CallsTyped, Goto
<1>10. CallsTyped'
  BY <1>1, <1>4, <1>7, <1>8, <1>9, CallMoves DEF Typed
<1>11. LocksTyped'
  BY <1>3 DEF Typed, LocksTyped
<1> QED  BY <1>10, <1>11, Untouched DEF Typed

\* A write in progress has a number to commit with.
LEMMA RoomForWrite ==
    ASSUME Typed, Room, NEW t \in Thread, pc[t] \in InWrite
    PROVE  ver + 1 \in 0 .. MaxVer /\ ver + 1 \in 1 .. MaxVer
<1>1. IsFiniteSet(Writers)
  BY FS_Subset, ConstantsAssumption DEF Writers
<1>2. Cardinality(Writers) \in Nat /\ Cardinality(Writers) # 0
  BY <1>1, FS_CardinalityType, FS_EmptySet DEF Writers
<1>3. ver \in Int /\ 0 <= ver
  BY Bounds DEF Typed, HistoryTyped
<1> QED  BY <1>2, <1>3, Bounds DEF Room

\* vn_lookup_inode_no and vn_dec_inode_ref keep the types.
LEMMA TypedMemory ==
    ASSUME Typed, NEW c \in Copy, Lookup(c) \/ Release(c)
    PROVE  Typed'
<1>1. InodesTyped'
  BY DEF Typed, InodesTyped, DbTyped, Database, Lookup, Release
<1> QED  BY <1>1, Untouched DEF Typed, Lookup, Release

\* vn_persist_inode keeps the types.
LEMMA TypedPersist ==
    ASSUME Typed, NEW t \in Thread,
           PersistInode(t) \/ \E c \in Copy : PersistBegin(t, c)
    PROVE  Typed'
<1> USE DEF Typed
<1>0. reg[t] \in Register /\ pc[t] \in PC /\ LocalsOK(pc[t], reg[t])
  BY DEF CallsTyped
<1>1. ASSUME NEW c \in Copy, PersistBegin(t, c) PROVE Typed'
  <2> DEFINE r == Locals(NoHandle, c, 0, 0, {}, "shared")
  <2>1. r \in Register
    BY FreshLocals, Bounds
  <2>2. LocalsOK("p_put", r)
    BY DEF LocalsOK, Locals, InWrite, InSync, InTrunc, InPersist
  <2>3. CallsTyped'
    BY <1>1, <2>1, <2>2, CallMoves DEF PersistBegin, PC, InPersist
  <2> QED  BY <1>1, <2>3, Untouched DEF PersistBegin
<1>2. ASSUME PersistPut(t) PROVE Typed'
  <2>1. reg[t].c \in Copy
    BY <1>0, <1>2 DEF PersistPut, LocalsOK, InPersist
  <2>5. LocalsOK(pc[t], reg[t]) => LocalsOK("p_commit", reg[t])
    BY <1>2 DEF PersistPut, LocalsOK, InWrite, InSync, InTrunc, InPersist
  <2>6. CallsTyped'
    BY <1>2, <2>1, <2>5, SizePut DEF PersistPut, PC, InPersist
  <2>7. LocksTyped'
    BY <1>2 DEF PersistPut, LocksTyped
  <2> QED  BY <1>2, <2>6, <2>7, Untouched DEF PersistPut
<1>3. ASSUME PersistCommit(t) PROVE Typed'
  <2>1. DbTyped'
    BY <1>0, <1>3, Commits, SizeAfterTyped DEF PersistCommit, DbTyped, Database
  <2> QED  BY <1>3, <2>1, Untouched, CallReturns DEF PersistCommit
<1>4. ASSUME PersistFail(t) PROVE Typed'
  BY <1>4, Untouched, CallReturns DEF PersistFail
<1> QED  BY <1>1, <1>2, <1>3, <1>4 DEF PersistInode

\* The opens without O_TRUNC keep the types.
LEMMA TypedOpen ==
    ASSUME Typed, NEW t \in Thread, NEW h \in Handle, NEW c \in Copy,
           OpenByInode(t, h, c) \/ Open(t, h, c)
    PROVE  Typed'
<1>1. InodesTyped'
  BY DEF Typed, InodesTyped, DbTyped, Database, OpenByInode, Open
<1>2. FilesTyped'
  BY Zenon DEF Typed, FilesTyped, OpenByInode, Open, Opened
<1> QED  BY <1>1, <1>2, Untouched DEF Typed, OpenByInode, Open

\* A truncating open starts with an inode and a closed file.
LEMMA TypedTruncBegin ==
    ASSUME Typed, NEW t \in Thread, NEW h \in Handle, NEW c \in Copy, TruncBegin(t, h, c)
    PROVE  Typed'
<1>1. \E mode \in {"own", "shared"} : Set(t, Locals(h, c, 0, 0, {}, mode))
  BY DEF TruncBegin
<1>2. PICK mode \in {"own", "shared"} : Set(t, Locals(h, c, 0, 0, {}, mode))
  BY <1>1
<1>3. Locals(h, c, 0, 0, {}, mode) \in Register
  BY FreshLocals, Bounds
<1>4. LocalsOK("t_get", Locals(h, c, 0, 0, {}, mode))
  BY DEF LocalsOK, Locals, InWrite, InSync, InTrunc, InPersist
<1>5. CallsTyped'
  BY <1>2, <1>3, <1>4, CallMoves DEF Typed, TruncBegin, PC, InTrunc
<1>6. InodesTyped'
  BY DEF Typed, InodesTyped, DbTyped, Database, TruncBegin
<1> QED  BY <1>5, <1>6, Untouched DEF Typed, TruncBegin

\* Every step of a truncating open keeps the types.
LEMMA TypedTruncate ==
    ASSUME Typed, NEW t \in Thread, Truncate(t)
    PROVE  Typed'
<1> USE DEF Typed
<1>0. reg[t] \in Register /\ pc[t] \in PC /\ LocalsOK(pc[t], reg[t])
  BY DEF CallsTyped
<1>c. pc[t] \in InTrunc
  BY DEF Truncate, TruncGet, TruncDelete, TruncSize, TruncPutInode, TruncCommit, TruncFail,
         InTrunc
<1>d. reg[t].c \in Copy /\ reg[t].h \in Handle /\ reg[t].next <= reg[t].to
  BY <1>0, <1>c DEF LocalsOK, InTrunc
<1>e. memSize[reg[t].c] \in 0 .. MaxExt
  BY <1>d DEF InodesTyped
<1>1. ASSUME TruncGet(t) PROVE Typed'
  <2> DEFINE r == [reg[t] EXCEPT !.to = memSize[reg[t].c]]
  <2>1. r \in Register
    BY <1>0, <1>e, RegisterUpdate, Zenon
  <2>2. /\ r.c = reg[t].c /\ r.mode = reg[t].mode /\ r.h = reg[t].h
        /\ r.next = reg[t].next /\ r.to = memSize[reg[t].c]
    BY <1>0 DEF Register
  <2>3. reg[t].next = 0 /\ 0 <= memSize[reg[t].c]
    BY <1>0, <1>1, <1>e DEF TruncGet, LocalsOK
  <2>4. LocalsOK("t_del", r)
    BY <1>0, <1>c, <2>2, <2>3 DEF LocalsOK, InWrite, InSync, InTrunc, InPersist
  <2>5. CallsTyped'
    BY <1>1, <2>1, <2>4, CallMoves DEF TruncGet, PC, InTrunc
  <2>6. LocksTyped'
    BY <1>1 DEF TruncGet, LocksTyped
  <2> QED  BY <1>1, <2>5, <2>6, Untouched DEF TruncGet
<1>2. ASSUME TruncDelete(t) PROVE Typed'
  BY <1>2, <1>c, <1>d, ExtentStep, Zenon DEF TruncDelete, InTrunc, InWrite
<1>3. ASSUME TruncSize(t) PROVE Typed'
  <2>1. LocalsOK("t_put", reg[t])
    BY <1>0, <1>c, <1>3 DEF TruncSize, LocalsOK, InWrite, InSync, InTrunc, InPersist
  <2>2. CallsTyped'
    BY <1>3, <2>1 DEF CallsTyped, TruncSize, Goto, PC, InTrunc
  <2>3. 0 \in 0 .. MaxExt
    BY Bounds
  <2>4. InodesTyped'
    BY <1>3, <2>3, Zenon DEF TruncSize, InodesTyped
  <2> QED  BY <1>3, <2>2, <2>4, Untouched DEF TruncSize
<1>4. ASSUME TruncPutInode(t) PROVE Typed'
  <2>1. LocalsOK(pc[t], reg[t]) => LocalsOK("t_commit", reg[t])
    BY <1>4 DEF TruncPutInode, LocalsOK, InWrite, InSync, InTrunc, InPersist
  <2>2. CallsTyped'
    BY <1>4, <1>d, <2>1, SizePut DEF TruncPutInode, PC, InTrunc
  <2> QED  BY <1>4, <2>2, Untouched DEF TruncPutInode
<1>5. ASSUME TruncCommit(t) PROVE Typed'
  <2> DEFINE d == [e \in Ext |-> IF e \in reg[t].put THEN 0 ELSE db.data[e]]
  <2>1. d \in [Ext -> 0 .. MaxVer]
    BY Bounds DEF DbTyped, Database
  <2>2. SizeAfter(reg[t]) \in 0 .. MaxExt
    BY <1>0, SizeAfterTyped
  <2>3. DbTyped'
    BY <1>5, <2>1, <2>2, Commits DEF TruncCommit
  <2>4. InodesTyped'
    BY <1>5, <1>d DEF TruncCommit, InodesTyped
  <2>5. FilesTyped'
    BY <1>5, <1>d DEF TruncCommit, FilesTyped
  <2>6. HistoryTyped'
    BY <1>5 DEF TruncCommit, HistoryTyped
  <2> QED  BY <1>5, <2>3, <2>4, <2>5, <2>6, CallReturns DEF TruncCommit
<1>6. ASSUME TruncFail(t) PROVE Typed'
  <2>1. InodesTyped'
    BY <1>6, <1>d DEF TruncFail, InodesTyped
  <2> QED  BY <1>6, <2>1, Untouched, CallReturns DEF TruncFail, inodes
<1> QED  BY <1>1, <1>2, <1>3, <1>4, <1>5, <1>6 DEF Truncate

\* A call on an open file.
LEMMA MayCallOpen ==
    ASSUME Typed, NEW t \in Thread, NEW h \in Handle, MayCall(t, h)
    PROVE  pc[t] = "idle" /\ copyOf[h] \in Copy
  BY DEF Typed, FilesTyped, MayCall, Idle

\* vn_write starts on the inode of an open file.
LEMMA TypedWriteBegin ==
    ASSUME Typed, NEW t \in Thread, NEW h \in Handle,
           NEW from \in 0 .. MaxExt, NEW to \in 0 .. MaxExt, WriteBegin(t, h, from, to)
    PROVE  Typed'
<1> DEFINE r == Locals(h, copyOf[h], from, to, {}, "none")
<1>1. copyOf[h] \in Copy
  BY MayCallOpen DEF WriteBegin
<1>2. r \in Register
  BY <1>1, FreshLocals
<1>3. from <= to
  BY Bounds DEF WriteBegin
<1>4. LocalsOK("w_ext", r)
  BY <1>1, <1>3 DEF LocalsOK, Locals, InWrite, InSync, InTrunc, InPersist
<1>5. CallsTyped'
  BY <1>2, <1>4, CallMoves DEF Typed, WriteBegin, PC, InWrite
<1> QED  BY <1>5, Untouched DEF Typed, WriteBegin

\* Every step of vn_write keeps the types; there is room for the version
\* that its commit adds.
LEMMA TypedWrite ==
    ASSUME Typed, Room, NEW t \in Thread, Write(t)
    PROVE  Typed'
<1> USE DEF Typed
<1>0. reg[t] \in Register /\ pc[t] \in PC /\ LocalsOK(pc[t], reg[t])
  BY DEF CallsTyped
<1>c. pc[t] \in InWrite
  BY DEF Write, WriteExtent, WriteCheckSize, WriteStoreSize, WritePutInode, WriteCommit,
         WriteFail, InWrite
<1>d. reg[t].c \in Copy /\ reg[t].h \in Handle /\ reg[t].next <= reg[t].to
  BY <1>0, <1>c DEF LocalsOK, InWrite
<1>1. ASSUME WriteExtent(t) PROVE Typed'
  BY <1>1, <1>c, <1>d, ExtentStep, Zenon DEF WriteExtent, InWrite
<1>2. ASSUME NEW l \in InWrite PROVE LocalsOK(l, reg[t])
  BY <1>0, <1>c DEF LocalsOK, InWrite, InSync, InTrunc, InPersist
<1>3. ASSUME NEW l \in InWrite, Goto(t, l), UNCHANGED reg PROVE CallsTyped'
  BY <1>2, <1>3 DEF CallsTyped, Goto, PC
<1>4. ASSUME WriteCheckSize(t) PROVE Typed'
  <2>1. CallsTyped'
    BY <1>3, <1>4 DEF WriteCheckSize, InWrite
  <2>2. FilesTyped'
    BY <1>4, Zenon DEF WriteCheckSize, FilesTyped
  <2> QED  BY <1>4, <2>1, <2>2, Untouched DEF WriteCheckSize
<1>5. ASSUME WriteStoreSize(t) PROVE Typed'
  <2>1. CallsTyped'
    BY <1>3, <1>5 DEF WriteStoreSize, InWrite
  <2>2. reg[t].to \in 0 .. MaxExt
    BY <1>0 DEF Register
  <2>3. InodesTyped'
    BY <1>5, <2>2, Zenon DEF WriteStoreSize, InodesTyped
  <2> QED  BY <1>5, <2>1, <2>3, Untouched DEF WriteStoreSize
<1>6. ASSUME WritePutInode(t) PROVE Typed'
  <2>1. LocalsOK("w_commit", reg[t])
    BY <1>2 DEF InWrite
  <2>2. CallsTyped'
    BY <1>6, <1>d, <2>1, SizePut DEF WritePutInode, PC, InWrite
  <2>3. FilesTyped'
    BY <1>6, Zenon DEF WritePutInode, FilesTyped
  <2>4. LocksTyped'
    BY <1>6 DEF WritePutInode, LocksTyped
  <2> QED  BY <1>6, <2>2, <2>3, <2>4, Untouched DEF WritePutInode
<1>7. ASSUME WriteCommit(t) PROVE Typed'
  <2> DEFINE d == [e \in Ext |-> IF e \in reg[t].put THEN ver + 1 ELSE db.data[e]]
  <2>1. ver + 1 \in 0 .. MaxVer /\ ver + 1 \in 1 .. MaxVer
    BY <1>c, RoomForWrite
  <2>2. d \in [Ext -> 0 .. MaxVer]
    BY <2>1 DEF DbTyped, Database
  <2>3. SizeAfter(reg[t]) \in 0 .. MaxExt
    BY <1>0, SizeAfterTyped
  <2>4. DbTyped'
    BY <1>7, <2>2, <2>3, Commits DEF WriteCommit
  <2>5. reg[t].from .. reg[t].to - 1 \in SUBSET Ext
    BY <1>0, ExtentRange DEF Register
  <2>6. FilesTyped'
    BY <1>7, <2>5, Zenon DEF WriteCommit, FilesTyped
  <2>7. HistoryTyped'
    BY <1>7, <2>1, <2>5 DEF WriteCommit, HistoryTyped
  <2> QED  BY <1>7, <2>4, <2>6, <2>7, Untouched, CallReturns DEF WriteCommit
<1>8. ASSUME WriteFail(t) PROVE Typed'
  BY <1>8, Untouched, CallReturns DEF WriteFail
<1> QED  BY <1>1, <1>4, <1>5, <1>6, <1>7, <1>8 DEF Write

\* vn_read at most marks its file dirty.
LEMMA TypedRead ==
    ASSUME Typed, NEW t \in Thread, NEW h \in Handle, Read(t, h)
    PROVE  Typed'
<1>1. FilesTyped'
  BY DEF Typed, FilesTyped, Read
<1> QED  BY <1>1, Untouched DEF Typed, Read

\* vn_fsync and vn_close_file start on the inode of an open file.
LEMMA TypedSyncBegin ==
    ASSUME Typed, NEW t \in Thread, NEW h \in Handle, NEW mode \in {"sync", "close"},
           SyncBegin(t, h, mode)
    PROVE  Typed'
<1> DEFINE r == Locals(h, copyOf[h], 0, 0, through[h], mode)
<1>1. copyOf[h] \in Copy
  BY MayCallOpen, Zenon DEF SyncBegin
<1>2. through[h] \in SUBSET Ext
  BY DEF Typed, FilesTyped
<1>3. r \in Register
  BY <1>1, <1>2, FreshLocals, Bounds
<1>4. LocalsOK("f_put", r) /\ LocalsOK("f_commit", r)
  BY <1>1, Zenon DEF LocalsOK, Locals, InWrite, InSync, InTrunc, InPersist
<1>5. CallsTyped'
  BY <1>3, <1>4, CallMoves DEF Typed, SyncBegin, PC, InSync
<1> QED  BY <1>5, Untouched, Zenon DEF Typed, SyncBegin

\* Every step of vn_fsync and vn_close_file keeps the types.
LEMMA TypedSync ==
    ASSUME Typed, NEW t \in Thread, Sync(t)
    PROVE  Typed'
<1> USE DEF Typed
<1>0. reg[t] \in Register /\ pc[t] \in PC /\ LocalsOK(pc[t], reg[t])
  BY DEF CallsTyped
<1>c. pc[t] \in InSync
  BY DEF Sync, SyncPutInode, SyncCommit, SyncFail, SyncFlush, InSync
<1>d. reg[t].c \in Copy /\ reg[t].h \in Handle
  BY <1>0, <1>c DEF LocalsOK, InSync
<1>e. ASSUME NEW l \in InSync PROVE LocalsOK(l, reg[t])
  BY <1>0, <1>c DEF LocalsOK, InWrite, InSync, InTrunc, InPersist
<1>1. ASSUME SyncPutInode(t) PROVE Typed'
  <2>1. LocalsOK("f_commit", reg[t])
    BY <1>e DEF InSync
  <2>2. CallsTyped'
    BY <1>1, <1>d, <2>1, SizePut DEF SyncPutInode, PC, InSync
  <2>3. FilesTyped'
    BY <1>1, Zenon DEF SyncPutInode, FilesTyped
  <2>4. LocksTyped'
    BY <1>1 DEF SyncPutInode, LocksTyped
  <2> QED  BY <1>1, <2>2, <2>3, <2>4, Untouched DEF SyncPutInode
<1>2. ASSUME SyncCommit(t) PROVE Typed'
  <2>1. DbTyped'
    BY <1>0, <1>2, Commits, SizeAfterTyped DEF SyncCommit, DbTyped, Database
  <2>2. CallsTyped'
    BY <1>2, <1>e DEF SyncCommit, CallsTyped, Goto, PC, InSync
  <2>3. LocksTyped'
    BY <1>2 DEF SyncCommit, LocksTyped, Unlocked
  <2> QED  BY <1>2, <2>1, <2>2, <2>3, Untouched DEF SyncCommit
<1>3. ASSUME SyncReturn(t, "fail")
      PROVE  /\ FilesTyped' /\ InodesTyped' /\ CallsTyped' /\ LocksTyped'
             /\ ret' \in {"none", "ok", "fail"}
  <2>1. FilesTyped'
    BY <1>3, <1>d, Zenon DEF SyncReturn, FilesTyped, files
  <2>2. InodesTyped'
    BY <1>3, <1>d DEF SyncReturn, InodesTyped
  <2> QED  BY <1>3, <2>1, <2>2, CallReturns DEF SyncReturn
<1>4. ASSUME SyncFail(t) PROVE Typed'
  <2>1. HistoryTyped'
    BY <1>4 DEF SyncFail, SyncReturn, HistoryTyped
  <2> QED  BY <1>3, <1>4, <2>1, Untouched DEF SyncFail
<1>5. ASSUME SyncFlush(t) PROVE Typed'
  <2>1. HistoryTyped'
    BY <1>0, <1>5 DEF SyncFlush, SyncReturn, HistoryTyped, Register
  <2>2. DbTyped'
    BY <1>5 DEF SyncFlush, DbTyped
  <2> QED  BY <1>3, <1>5, <2>1, <2>2 DEF SyncFlush
<1> QED  BY <1>1, <1>2, <1>4, <1>5 DEF Sync

\* What a crash leaves is typed.
LEMMA TypedCrash ==
    ASSUME Typed, Crash
    PROVE  Typed'
<1>1. DbTyped'
  BY DEF Typed, DbTyped, Crash
<1>2. 0 \in 0 .. MaxExt
  BY Bounds
<1>3. InodesTyped'
  BY <1>2 DEF InodesTyped, Crash
<1>4. FilesTyped'
  BY DEF FilesTyped, Crash
<1>5. Reg0 \in Register
  BY FreshLocals, Bounds DEF Reg0
<1>6. LocalsOK("idle", Reg0)
  BY DEF LocalsOK, InWrite, InSync, InTrunc, InPersist
<1>7. CallsTyped'
  BY <1>5, <1>6 DEF CallsTyped, Crash, PC
<1>8. LocksTyped'
  BY DEF LocksTyped, Crash
<1> QED  BY <1>1, <1>3, <1>4, <1>7, <1>8, Untouched DEF Typed, Crash

\* The number of writes in progress.
LEMMA WritersFinite ==
    IsFiniteSet(Writers) /\ IsFiniteSet(Writers') /\ Cardinality(Writers) \in Int
    /\ Cardinality(Writers') \in Int
<1>1. IsFiniteSet(Writers) /\ IsFiniteSet(Writers')
  BY FS_Subset, ConstantsAssumption DEF Writers
<1> QED  BY <1>1, FS_CardinalityType

\* Steps that begin no write and commit none.
LEMMA RoomKept ==
    ASSUME Typed, Room, ver' = ver,
           \A u \in Thread : pc'[u] \in InWrite => pc[u] \in InWrite
    PROVE  Room'
<1>1. Writers' \in SUBSET Writers
  BY DEF Writers
<1>2. Cardinality(Writers') <= Cardinality(Writers)
  BY <1>1, WritersFinite, FS_Subset
<1>3. ver \in Int
  BY Bounds DEF Typed, HistoryTyped
<1> QED  BY <1>2, <1>3, WritersFinite, Bounds DEF Room

\* Each write that begins reserves a number and each commit uses its own.
LEMMA RoomNext ==
    ASSUME Typed, Room, [Next]_vars
    PROVE  Room'
<1>0. ver \in Int /\ pc \in [Thread -> PC]
  BY Bounds DEF Typed, HistoryTyped, CallsTyped
<1>1. ASSUME NEW t \in Thread, NEW h \in Handle, NEW from \in 0 .. MaxExt,
             NEW to \in 0 .. MaxExt, WriteBegin(t, h, from, to)
      PROVE  Room'
  <2>1. pc[t] = "idle"
    BY <1>1, MayCallOpen DEF WriteBegin
  <2>2. Writers' = Writers \cup {t} /\ t \notin Writers
    BY <1>0, <1>1, <2>1 DEF WriteBegin, Goto, Writers, InWrite
  <2>3. Cardinality(Writers') = Cardinality(Writers) + 1
    BY <2>2, WritersFinite, FS_AddElement
  <2>4. ver' = ver /\ ver + Cardinality(Writers) < MaxVer
    BY <1>1 DEF WriteBegin, history
  <2> QED  BY <1>0, <2>3, <2>4, WritersFinite, Bounds DEF Room
<1>2. ASSUME NEW t \in Thread, WriteCommit(t) PROVE Room'
  <2>1. Writers' = Writers \ {t} /\ t \in Writers
    BY <1>0, <1>2 DEF WriteCommit, Return, Goto, Writers, InWrite
  <2>2. Cardinality(Writers') = Cardinality(Writers) - 1
    BY <2>1, WritersFinite, FS_RemoveElement
  <2>3. ver' = ver + 1
    BY <1>2 DEF WriteCommit
  <2> QED  BY <1>0, <2>2, <2>3, WritersFinite, Bounds DEF Room
<1>3. ASSUME NEW t \in Thread, NEW l, Goto(t, l), ver' = ver,
             l \in InWrite => pc[t] \in InWrite
      PROVE  Room'
  BY <1>0, <1>3, RoomKept DEF Goto
<1>4. ASSUME UNCHANGED <<pc, ver>> PROVE Room'
  BY <1>4, RoomKept
<1>5. ASSUME NEW t \in Thread, PersistInode(t) PROVE Room'
  BY <1>3, <1>5 DEF PersistInode, PersistPut, PersistCommit, PersistFail, Return, history,
                    InWrite
<1>6. ASSUME NEW t \in Thread, Truncate(t) PROVE Room'
  <2>1. ver' = ver
    BY <1>6 DEF Truncate, TruncGet, TruncDelete, TruncSize, TruncPutInode, TruncCommit,
                TruncFail, history
  <2>2. pc' = pc \/ \E l \in {"idle", "t_del", "t_put", "t_commit"} : Goto(t, l)
    BY <1>6 DEF Truncate, TruncGet, TruncDelete, TruncSize, TruncPutInode, TruncCommit,
                TruncFail, Return
  <2> QED  BY <2>1, <2>2, <1>3, <1>4 DEF InWrite
<1>7. ASSUME NEW t \in Thread, Write(t), ~WriteCommit(t) PROVE Room'
  <2>1. ver' = ver /\ pc[t] \in InWrite
    BY <1>7 DEF Write, WriteExtent, WriteCheckSize, WriteStoreSize, WritePutInode,
                WriteFail, history, InWrite
  <2>2. pc' = pc \/ \E l : Goto(t, l)
    BY <1>7 DEF Write, WriteExtent, WriteCheckSize, WriteStoreSize, WritePutInode,
                WriteFail, Return
  <2> QED  BY <2>1, <2>2, <1>3, <1>4
<1>8. ASSUME NEW t \in Thread, Sync(t) PROVE Room'
  <2>1. ver' = ver
    BY <1>8 DEF Sync, SyncPutInode, SyncCommit, SyncFail, SyncFlush, SyncReturn, history
  <2>2. \E l \in {"idle", "f_commit", "f_flush"} : Goto(t, l)
    BY <1>8 DEF Sync, SyncPutInode, SyncCommit, SyncFail, SyncFlush, SyncReturn, Return
  <2> QED  BY <2>1, <2>2, <1>3 DEF InWrite
<1>9. ASSUME NEW t \in Thread, NEW h \in Handle, NEW c \in Copy,
             OpenByInode(t, h, c) \/ Open(t, h, c) \/ TruncBegin(t, h, c)
      PROVE  Room'
  <2>1. ver' = ver
    BY <1>9 DEF OpenByInode, Open, TruncBegin, history
  <2>2. pc' = pc \/ Goto(t, "t_get")
    BY <1>9 DEF OpenByInode, Open, TruncBegin
  <2> QED  BY <2>1, <2>2, <1>3, <1>4 DEF InWrite
<1>14. ASSUME NEW t \in Thread, NEW h \in Handle,
              Read(t, h) \/ \E mode \in {"sync", "close"} : SyncBegin(t, h, mode)
       PROVE  Room'
  <2>1. ver' = ver
    BY <1>14, Zenon DEF Read, SyncBegin, history
  <2>2. pc' = pc \/ \E l \in {"f_put", "f_commit"} : Goto(t, l)
    BY <1>14, Zenon DEF Read, SyncBegin
  <2> QED  BY <2>1, <2>2, <1>3, <1>4 DEF InWrite
<1>10. ASSUME NEW c \in Copy, Lookup(c) \/ Release(c) PROVE Room'
  BY <1>4, <1>10 DEF Lookup, Release, history
<1>11. ASSUME Crash PROVE Room'
  BY <1>11, RoomKept DEF Crash, history, InWrite
<1>12. ASSUME UNCHANGED vars PROVE Room'
  BY <1>4, <1>12 DEF vars, history
<1>13. ASSUME NEW t \in Thread, NEW c \in Copy, PersistBegin(t, c) PROVE Room'
  BY <1>3, <1>13 DEF PersistBegin, history, InWrite
<1> QED
  BY <1>1, <1>2, <1>5, <1>6, <1>7, <1>8, <1>9, <1>10, <1>11, <1>12, <1>13, <1>14
     DEF Next, Step

\* Types are kept by every step.
LEMMA TypedNext ==
    ASSUME Typed, Room, [Next]_vars
    PROVE  Typed'
<1>1. ASSUME UNCHANGED vars PROVE Typed'
  BY <1>1, Untouched DEF Typed, vars
<1> QED
  BY <1>1, TypedMemory, TypedPersist, TypedOpen, TypedTruncBegin, TypedTruncate,
     TypedWriteBegin, TypedWrite, TypedRead, TypedSyncBegin, TypedSync, TypedCrash
     DEF Next, Step

\* A thread's step is its own.
LEMMA OtherThreads ==
    ASSUME Typed, NEW t \in Thread, Step(t)
    PROVE  \A u \in Thread \ {t} : pc'[u] = pc[u] /\ reg'[u] = reg[u]
<1>0. pc \in [Thread -> PC] /\ reg \in [Thread -> Register]
  BY DEF Typed, CallsTyped
<1>1. pc' = pc \/ \E l : Goto(t, l)
  <2>1. CASE PersistInode(t)
    BY <2>1 DEF PersistInode, PersistPut, PersistCommit, PersistFail, Return
  <2>2. CASE Truncate(t)
    BY <2>2 DEF Truncate, TruncGet, TruncDelete, TruncSize, TruncPutInode, TruncCommit,
                TruncFail, Return
  <2>3. CASE Write(t)
    BY <2>3 DEF Write, WriteExtent, WriteCheckSize, WriteStoreSize, WritePutInode,
                WriteCommit, WriteFail, Return
  <2>4. CASE Sync(t)
    BY <2>4 DEF Sync, SyncPutInode, SyncCommit, SyncFail, SyncFlush, SyncReturn, Return
  <2> QED  BY <2>1, <2>2, <2>3, <2>4 DEF Step
<1>2. reg' = reg \/ \E r : Set(t, r)
  <2>0. ASSUME NEW v, Return(t, v) PROVE Set(t, Reg0)
    BY <2>0 DEF Return, Set
  <2>1. CASE PersistInode(t)
    BY <2>0, <2>1 DEF PersistInode, PersistPut, PersistCommit, PersistFail
  <2>2. CASE Truncate(t)
    BY <2>0, <2>2 DEF Truncate, TruncGet, TruncDelete, TruncSize, TruncPutInode,
                      TruncCommit, TruncFail
  <2>3. CASE Write(t)
    BY <2>0, <2>3 DEF Write, WriteExtent, WriteCheckSize, WriteStoreSize, WritePutInode,
                      WriteCommit, WriteFail
  <2>4. CASE Sync(t)
    BY <2>0, <2>4 DEF Sync, SyncPutInode, SyncCommit, SyncFail, SyncFlush, SyncReturn
  <2> QED  BY <2>1, <2>2, <2>3, <2>4 DEF Step
<1> QED  BY <1>0, <1>1, <1>2 DEF Goto, Set

\* The empty set and sets with one element.
LEMMA SmallSets ==
    ASSUME NEW x
    PROVE  Cardinality({}) = 0 /\ Cardinality({x}) = 1
<1>1. Cardinality({}) = 0
  BY FS_EmptySet
<1>2. Cardinality({x}) = 1
  BY FS_Singleton
<1> QED  BY <1>1, <1>2

\* A file just created, with nothing in memory.
LEMMA TypedInit ==
    ASSUME Init
    PROVE  Typed /\ Room
<1>1. Reg0 \in Register /\ LocalsOK("idle", Reg0)
  <2>1. Reg0 \in Register
    BY FreshLocals, Bounds DEF Reg0
  <2> QED  BY <2>1 DEF LocalsOK, InWrite, InSync, InTrunc, InPersist
<1>2. DbTyped
  <2>1. [e \in Ext |-> 0] \in [Ext -> 0 .. MaxVer] /\ 0 \in 0 .. MaxExt
    BY Bounds
  <2>2. EmptyFile \in Database
    BY <2>1 DEF EmptyFile, Stored, Database
  <2> QED  BY <2>2 DEF Init, DbTyped
<1>3. InodesTyped /\ FilesTyped /\ LocksTyped /\ HistoryTyped
  BY Bounds DEF Init, InodesTyped, FilesTyped, LocksTyped, HistoryTyped
<1>4. CallsTyped
  BY <1>1 DEF Init, CallsTyped, PC
<1>5. Typed
  BY <1>2, <1>3, <1>4 DEF Typed, Init
<1>6. Room
  <2>1. Writers = {} /\ Cardinality({}) = 0
    BY SmallSets, Zenon DEF Init, Writers, InWrite
  <2> QED  BY <2>1, Bounds DEF Room, Init
<1> QED  BY <1>5, <1>6

----------------------------------------------------------------------------
(* Users of files and inodes *)

\* The file a truncating open is for is closed and in no other call; the file
\* being closed is open and nobody else closes it.
Truncating(t) == pc[t] \in InTrunc
Closing(t) == reg[t].mode = "close"

Uses ==
    /\ \A t \in Thread : Truncating(t) =>
         copyOf[reg[t].h] = NoCopy /\ \A u \in Thread \ {t} : reg[u].h # reg[t].h
    /\ \A t \in Thread : Closing(t) =>
         /\ copyOf[reg[t].h] = reg[t].c
         /\ \A u \in Thread \ {t} : Closing(u) => reg[u].h # reg[t].h

\* What a call has for locals at each of its steps.
LEMMA LocalsAt ==
    ASSUME NEW p \in PC, NEW r, LocalsOK(p, r)
    PROVE  /\ p = "idle" => r.h = NoHandle /\ r.mode = "none"
           /\ p \in InTrunc => r.h \in Handle /\ r.c \in Copy /\ r.mode \in {"own", "shared"}
           /\ r.mode = "close" => r.h \in Handle /\ r.c \in Copy /\ p \in InSync
           /\ p \notin InTrunc => r.mode # "own"
           /\ p \in InSync => r.mode \in {"sync", "close"}
<1>1. CASE p = "idle"
  <2>1. r.h = NoHandle /\ r.mode = "none"
    BY <1>1 DEF LocalsOK, Reg0, Locals
  <2> QED  BY <1>1, <2>1 DEF InTrunc, InSync
<1>2. CASE p \in InPersist
  <2>1. p # "idle" /\ p \notin InTrunc /\ p \notin InSync
    BY <1>2 DEF InPersist, InTrunc, InSync
  <2>2. r.mode = "shared"
    BY <1>2 DEF LocalsOK
  <2> QED  BY <2>1, <2>2
<1>3. CASE p \in InWrite
  <2>1. p # "idle" /\ p \notin InTrunc /\ p \notin InSync
    BY <1>3 DEF InWrite, InTrunc, InSync
  <2>2. r.mode = "none"
    BY <1>3 DEF LocalsOK
  <2> QED  BY <2>1, <2>2
<1>4. CASE p \in InSync
  <2>1. p # "idle" /\ p \notin InTrunc
    BY <1>4 DEF InSync, InTrunc
  <2>2. r.h \in Handle /\ r.c \in Copy /\ r.mode \in {"sync", "close"}
    BY <1>4, <2>1 DEF LocalsOK
  <2> QED  BY <1>4, <2>1, <2>2
<1>5. CASE p \in InTrunc
  <2>1. p # "idle" /\ p \notin InSync
    BY <1>5 DEF InSync, InTrunc
  <2>2. r.h \in Handle /\ r.c \in Copy /\ r.mode \in {"own", "shared"}
    BY <1>5, <2>1 DEF LocalsOK
  <2> QED  BY <1>5, <2>1, <2>2
<1> QED  BY <1>1, <1>2, <1>3, <1>4, <1>5 DEF PC

\* What a call in progress has for locals.
LEMMA LocalsOf ==
    ASSUME Typed, NEW t \in Thread
    PROVE  /\ pc[t] = "idle" => reg[t].h = NoHandle /\ reg[t].mode = "none"
           /\ Truncating(t) => reg[t].h \in Handle /\ reg[t].c \in Copy
                              /\ reg[t].mode \in {"own", "shared"}
           /\ Closing(t) => reg[t].h \in Handle /\ reg[t].c \in Copy /\ pc[t] \in InSync
           /\ pc[t] \notin InTrunc => reg[t].mode # "own"
           /\ pc[t] \in InSync => reg[t].mode \in {"sync", "close"}
           /\ reg[t] \in Register
<1>1. LocalsOK(pc[t], reg[t]) /\ pc[t] \in PC /\ reg[t] \in Register
  BY DEF Typed, CallsTyped
<1> QED  BY <1>1, LocalsAt DEF Truncating, Closing

\* Locals of one call at two of its steps.
SameCall(q, r) == q.h = r.h /\ q.c = r.c /\ q.mode = r.mode

\* A call goes on with the same file, inode and mode.
LEMMA UsesGoesOn ==
    ASSUME Typed, Uses, copyOf' = copyOf,
           \A u \in Thread : pc'[u] \in InTrunc => pc[u] \in InTrunc,
           \A u \in Thread : SameCall(reg'[u], reg[u])
    PROVE  Uses'
  BY DEF Uses, Truncating, Closing, SameCall

\* A call returns; only a truncating open and a close change a file.
LEMMA UsesReturns ==
    ASSUME Typed, Uses, NEW t \in Thread, NEW value, Return(t, value),
           \/ copyOf' = copyOf
           \/ (Truncating(t) \/ Closing(t)) /\ \E x : copyOf' = [copyOf EXCEPT ![reg[t].h] = x]
    PROVE  Uses'
<1>1. pc \in [Thread -> PC] /\ reg \in [Thread -> Register]
      /\ copyOf \in [Handle -> Copy \cup {NoCopy}]
  BY DEF Typed, CallsTyped, FilesTyped
<1>2. ~Truncating(t)' /\ ~Closing(t)' /\ reg'[t].h = NoHandle
  BY <1>1 DEF Return, Goto, Truncating, Closing, Reg0, Locals, InTrunc
<1>3. \A u \in Thread \ {t} : pc'[u] = pc[u] /\ reg'[u] = reg[u]
  BY <1>1 DEF Return, Goto
<1>4. NoHandle \notin Handle
  BY ConstantsAssumption
<1>5. ASSUME NEW u \in Thread, Truncating(u)'
      PROVE  copyOf'[reg'[u].h] = NoCopy /\ \A w \in Thread \ {u} : reg'[w].h # reg'[u].h
  <2>1. u # t /\ Truncating(u) /\ reg'[u] = reg[u]
    BY <1>2, <1>3, <1>5 DEF Truncating
  <2>2. copyOf[reg[u].h] = NoCopy /\ reg[t].h # reg[u].h /\ reg[u].h \in Handle
    BY <2>1, LocalsOf DEF Uses
  <2>3. copyOf'[reg[u].h] = NoCopy
    BY <1>1, <2>2
  <2>4. \A w \in Thread \ {u} : reg[w].h # reg[u].h
    BY <2>1 DEF Uses
  <2> QED  BY <1>2, <1>3, <1>4, <2>1, <2>2, <2>3, <2>4
<1>6. ASSUME NEW u \in Thread, Closing(u)'
      PROVE  /\ copyOf'[reg'[u].h] = reg'[u].c
             /\ \A w \in Thread \ {u} : Closing(w)' => reg'[w].h # reg'[u].h
  <2>1. u # t /\ Closing(u) /\ reg'[u] = reg[u]
    BY <1>2, <1>3, <1>6 DEF Closing
  <2>2. copyOf[reg[u].h] = reg[u].c /\ reg[u].h \in Handle
    BY <2>1, LocalsOf DEF Uses
  <2>3. Truncating(t) \/ Closing(t) => reg[t].h # reg[u].h
    BY <2>1 DEF Uses
  <2>4. copyOf'[reg[u].h] = reg[u].c
    BY <1>1, <2>2, <2>3
  <2>5. \A w \in Thread \ {u} : Closing(w) => reg[w].h # reg[u].h
    BY <2>1 DEF Uses
  <2> QED  BY <1>2, <1>3, <2>1, <2>4, <2>5 DEF Closing
<1> QED  BY <1>5, <1>6 DEF Uses

\* A call begins on a file that is closed and in no call, or is open.
LEMMA UsesBegins ==
    ASSUME Typed, Typed', Uses, copyOf' = copyOf, NEW t \in Thread, pc[t] = "idle",
           NEW l, NEW r, Goto(t, l), Set(t, r),
           l \in InTrunc => Closed(r.h),
           l \notin InTrunc => r.h = NoHandle \/ (r.h \in Handle /\ copyOf[r.h] # NoCopy),
           r.mode = "close" => copyOf[r.h] = r.c /\ ~Busy(r.h)
    PROVE  Uses'
<1>1. pc \in [Thread -> PC] /\ reg \in [Thread -> Register]
  BY DEF Typed, CallsTyped
<1>2. pc'[t] = l /\ reg'[t] = r
  BY <1>1 DEF Goto, Set
<1>3. \A u \in Thread \ {t} : pc'[u] = pc[u] /\ reg'[u] = reg[u]
  BY <1>1 DEF Goto, Set
<1>4. NoHandle \notin Handle
  BY ConstantsAssumption
<1>5. \A u \in Thread : reg[u].h \in Handle => pc[u] # "idle"
  BY <1>4, LocalsOf
<1>6. Truncating(t)' => r.h \in Handle
  BY <1>2, LocalsOf DEF Typed, CallsTyped, LocalsOK, Truncating
<1>7. Closing(t)' => r.h \in Handle
  <2>1. pc'[t] \in PC /\ LocalsOK(pc'[t], reg'[t])
    BY DEF Typed, CallsTyped, LocalsOK
  <2> QED  BY <1>2, <2>1, LocalsAt DEF Closing
<1>8. ASSUME NEW u \in Thread, Truncating(u)'
      PROVE  copyOf[reg'[u].h] = NoCopy /\ \A w \in Thread \ {u} : reg'[w].h # reg'[u].h
  <2>1. CASE u = t
    <3>1. Closed(r.h) /\ r.h \in Handle
      BY <1>2, <1>6, <1>8, <2>1 DEF Truncating
    <3> QED  BY <1>2, <1>3, <1>5, <2>1, <3>1 DEF Closed, Busy
  <2>2. CASE u # t
    <3>1. Truncating(u) /\ reg'[u] = reg[u] /\ reg[u].h \in Handle
      BY <1>3, <1>8, <2>2, LocalsOf DEF Truncating
    <3>2. copyOf[reg[u].h] = NoCopy /\ \A w \in Thread \ {u} : reg[w].h # reg[u].h
      BY <3>1 DEF Uses
    <3>3. r.h # reg[u].h
      BY <1>4, <1>5, <3>1, <3>2 DEF Closed, Busy
    <3> QED  BY <1>2, <1>3, <2>2, <3>1, <3>2, <3>3
  <2> QED  BY <2>1, <2>2
<1>9. ASSUME NEW u \in Thread, Closing(u)'
      PROVE  /\ copyOf[reg'[u].h] = reg'[u].c
             /\ \A w \in Thread \ {u} : Closing(w)' => reg'[w].h # reg'[u].h
  <2>1. CASE u = t
    <3>1. copyOf[r.h] = r.c /\ ~Busy(r.h) /\ r.h \in Handle
      BY <1>2, <1>7, <1>9, <2>1 DEF Closing
    <3> QED  BY <1>2, <1>3, <1>5, <2>1, <3>1 DEF Busy
  <2>2. CASE u # t
    <3>1. Closing(u) /\ reg'[u] = reg[u] /\ reg[u].h \in Handle
      BY <1>3, <1>9, <2>2, LocalsOf DEF Closing
    <3>2. /\ copyOf[reg[u].h] = reg[u].c
          /\ \A w \in Thread \ {u} : Closing(w) => reg[w].h # reg[u].h
      BY <3>1 DEF Uses
    <3>3. Closing(t)' => r.h # reg[u].h
      BY <1>2, <1>5, <3>1 DEF Closing, Busy
    <3> QED  BY <1>2, <1>3, <2>2, <3>1, <3>2, <3>3 DEF Closing
  <2> QED  BY <2>1, <2>2
<1> QED  BY <1>8, <1>9 DEF Uses

\* The steps of a call that is not over.
LEMMA StepInside ==
    ASSUME Typed, NEW t \in Thread, Step(t), pc'[t] # "idle"
    PROVE  /\ copyOf' = copyOf /\ UNCHANGED <<refCnt, held>>
           /\ \A u \in Thread : pc'[u] \in InTrunc => pc[u] \in InTrunc
           /\ \A u \in Thread : SameCall(reg'[u], reg[u])
<1>0. pc \in [Thread -> PC] /\ reg \in [Thread -> Register] /\ reg[t] \in Register
  BY DEF Typed, CallsTyped
<1>1. \A v : ~Return(t, v)
  BY <1>0 DEF Return, Goto
<1>2. reg' = reg \/ \E r : Set(t, r) /\ SameCall(r, reg[t])
  <2>1. \A s : SameCall([reg[t] EXCEPT !.size = s], reg[t])
    BY <1>0 DEF Register, SameCall
  <2>2. \A s : SameCall([reg[t] EXCEPT !.to = s], reg[t])
    BY <1>0 DEF Register, SameCall
  <2>3. \A s : SameCall([reg[t] EXCEPT !.next = s], reg[t])
    BY <1>0 DEF Register, SameCall
  <2>4. \A s, q : SameCall([reg[t] EXCEPT !.next = s, !.put = q], reg[t])
    BY <1>0 DEF Register, SameCall
  <2>5. CASE PersistInode(t)
    BY <1>1, <2>1, <2>5 DEF PersistInode, PersistPut, PersistCommit, PersistFail
  <2>6. CASE Truncate(t)
    BY <1>1, <2>1, <2>2, <2>3, <2>4, <2>6, Zenon
       DEF Truncate, TruncGet, TruncDelete, TruncSize, TruncPutInode, TruncCommit, TruncFail
  <2>7. CASE Write(t)
    BY <1>1, <2>1, <2>3, <2>4, <2>7, Zenon
       DEF Write, WriteExtent, WriteCheckSize, WriteStoreSize, WritePutInode, WriteCommit,
           WriteFail
  <2>8. CASE Sync(t)
    BY <1>1, <2>1, <2>8 DEF Sync, SyncPutInode, SyncCommit, SyncFail, SyncFlush, SyncReturn
  <2> QED  BY <2>5, <2>6, <2>7, <2>8 DEF Step
<1>3. \A u \in Thread : SameCall(reg'[u], reg[u])
  BY <1>0, <1>2 DEF Set, SameCall
<1>4. copyOf' = copyOf /\ UNCHANGED <<refCnt, held>>
  <2>1. CASE PersistInode(t)
    BY <1>1, <2>1 DEF PersistInode, PersistPut, PersistCommit, PersistFail, inodes, files
  <2>2. CASE Truncate(t)
    BY <1>1, <2>2 DEF Truncate, TruncGet, TruncDelete, TruncSize, TruncPutInode,
                      TruncCommit, TruncFail, inodes, files
  <2>3. CASE Write(t)
    BY <1>1, <2>3 DEF Write, WriteExtent, WriteCheckSize, WriteStoreSize, WritePutInode,
                      WriteCommit, WriteFail, inodes, files
  <2>4. CASE Sync(t)
    BY <1>1, <2>4 DEF Sync, SyncPutInode, SyncCommit, SyncFail, SyncFlush, SyncReturn,
                      inodes, files
  <2> QED  BY <2>1, <2>2, <2>3, <2>4 DEF Step
<1>5. \/ pc' = pc
      \/ \E l : Goto(t, l) /\ (l \in InTrunc => pc[t] \in InTrunc)
  <2>1. CASE PersistInode(t)
    BY <1>1, <2>1 DEF PersistInode, PersistPut, PersistCommit, PersistFail, InTrunc
  <2>2. CASE Truncate(t)
    BY <1>1, <2>2 DEF Truncate, TruncGet, TruncDelete, TruncSize, TruncPutInode,
                      TruncCommit, TruncFail, InTrunc
  <2>3. CASE Write(t)
    BY <1>1, <2>3 DEF Write, WriteExtent, WriteCheckSize, WriteStoreSize, WritePutInode,
                      WriteCommit, WriteFail, InTrunc
  <2>4. CASE Sync(t)
    BY <1>1, <2>4 DEF Sync, SyncPutInode, SyncCommit, SyncFail, SyncFlush, SyncReturn, InTrunc
  <2> QED  BY <2>1, <2>2, <2>3, <2>4 DEF Step
<1>6. \A u \in Thread : pc'[u] \in InTrunc => pc[u] \in InTrunc
  BY <1>0, <1>5 DEF Goto
<1> QED  BY <1>3, <1>4, <1>6

\* The steps that end a call.
LEMMA StepReturns ==
    ASSUME Typed, NEW t \in Thread, Step(t), pc'[t] = "idle"
    PROVE  /\ held' = held
           /\ \E value : Return(t, value)
           /\ \/ Truncating(t) /\ (TruncCommit(t) \/ TruncFail(t))
              \/ Closing(t) /\ (\E value : SyncReturn(t, value))
              \/ ~Truncating(t) /\ ~Closing(t) /\ UNCHANGED <<copyOf, refCnt>>
<1>0. pc \in [Thread -> PC]
  BY DEF Typed, CallsTyped
<1>1. \A l : Goto(t, l) => l = "idle"
  BY <1>0 DEF Goto
<1>2. CASE PersistInode(t)
  <2>1. pc[t] \in InPersist /\ UNCHANGED <<inodes, files>> /\ \E value : Return(t, value)
    BY <1>1, <1>2 DEF PersistInode, PersistPut, PersistCommit, PersistFail, InPersist
  <2>2. ~Truncating(t) /\ pc[t] \notin InSync
    BY <2>1 DEF InPersist, InTrunc, InSync, Truncating
  <2>3. ~Closing(t)
    BY <2>2, LocalsOf
  <2> QED  BY <2>1, <2>2, <2>3 DEF inodes, files
<1>3. CASE Truncate(t)
  <2>1. pc[t] \in InTrunc
    BY <1>3 DEF Truncate, TruncGet, TruncDelete, TruncSize, TruncPutInode, TruncCommit,
                TruncFail, InTrunc
  <2>2. pc[t] # "idle"
    BY <2>1 DEF InTrunc
  <2>3. TruncCommit(t) \/ TruncFail(t)
    BY <1>1, <1>3, <2>2 DEF Truncate, TruncGet, TruncDelete, TruncSize, TruncPutInode
  <2> QED  BY <2>1, <2>3 DEF Truncating, TruncCommit, TruncFail
<1>4. CASE Write(t)
  <2>1. pc[t] \in InWrite
    BY <1>4 DEF Write, WriteExtent, WriteCheckSize, WriteStoreSize, WritePutInode,
                WriteCommit, WriteFail, InWrite
  <2>2. pc[t] # "idle"
    BY <2>1 DEF InWrite
  <2>3. WriteCommit(t) \/ WriteFail(t)
    BY <1>1, <1>4, <2>2 DEF Write, WriteExtent, WriteCheckSize, WriteStoreSize,
                            WritePutInode
  <2>4. UNCHANGED <<inodes, copyOf>> /\ \E value : Return(t, value)
    BY <2>3 DEF WriteCommit, WriteFail, files
  <2>5. ~Truncating(t) /\ pc[t] \notin InSync
    BY <2>1 DEF InWrite, InTrunc, InSync, Truncating
  <2>6. ~Closing(t)
    BY <2>5, LocalsOf
  <2> QED  BY <2>4, <2>5, <2>6 DEF inodes
<1>5. CASE Sync(t)
  <2>1. pc[t] \in InSync
    BY <1>5 DEF Sync, SyncPutInode, SyncCommit, SyncFail, SyncFlush, InSync
  <2>2. \E value : SyncReturn(t, value)
    BY <1>1, <1>5 DEF Sync, SyncPutInode, SyncCommit, SyncFail, SyncFlush
  <2>3. ~Truncating(t)
    BY <2>1 DEF InSync, InTrunc, Truncating
  <2> QED  BY <2>2, <2>3 DEF SyncReturn, Closing, files
<1> QED  BY <1>2, <1>3, <1>4, <1>5 DEF Step

\* No step lets two calls truncate or close one file.
LEMMA UsesNext ==
    ASSUME Typed, Typed', Uses, [Next]_vars
    PROVE  Uses'
<1>0. /\ copyOf \in [Handle -> Copy \cup {NoCopy}] /\ NoCopy \notin Copy
      /\ NoHandle \notin Handle
  BY ConstantsAssumption DEF Typed, FilesTyped
<1>1. ASSUME UNCHANGED <<copyOf, pc, reg>> PROVE Uses'
  BY <1>1 DEF Uses, Truncating, Closing
<1>2. ASSUME NEW t \in Thread, NEW h \in Handle, NEW c \in Copy,
             OpenByInode(t, h, c) \/ Open(t, h, c)
      PROVE  Uses'
  <2>1. Closed(h) /\ copyOf' = [copyOf EXCEPT ![h] = c] /\ UNCHANGED <<pc, reg>>
    BY <1>2 DEF OpenByInode, Open, Opened
  <2>2. \A u \in Thread : Truncating(u) => copyOf'[reg[u].h] = copyOf[reg[u].h]
    BY <1>0, <2>1, LocalsOf DEF Closed, Busy, Truncating, InTrunc
  <2>3. \A u \in Thread : Closing(u) => copyOf'[reg[u].h] = copyOf[reg[u].h]
    BY <1>0, <2>1, LocalsOf DEF Uses, Closed
  <2> QED  BY <2>1, <2>2, <2>3 DEF Uses, Truncating, Closing
<1>3. ASSUME NEW t \in Thread, NEW h \in Handle, NEW c \in Copy, TruncBegin(t, h, c)
      PROVE  Uses'
  <2>1. PICK mode \in {"own", "shared"} : Set(t, Locals(h, c, 0, 0, {}, mode))
    BY <1>3 DEF TruncBegin
  <2>2. /\ pc[t] = "idle" /\ copyOf' = copyOf /\ Goto(t, "t_get") /\ Closed(h)
    BY <1>3 DEF TruncBegin, Idle, files
  <2>3. /\ Locals(h, c, 0, 0, {}, mode).h = h
        /\ Locals(h, c, 0, 0, {}, mode).mode # "close" /\ "t_get" \in InTrunc
    BY DEF Locals, InTrunc
  <2> QED  BY <2>1, <2>2, <2>3, UsesBegins
<1>4. ASSUME NEW t \in Thread, NEW c \in Copy, PersistBegin(t, c) PROVE Uses'
  <2>1. /\ pc[t] = "idle" /\ copyOf' = copyOf /\ Goto(t, "p_put")
        /\ Set(t, Locals(NoHandle, c, 0, 0, {}, "shared"))
    BY <1>4 DEF PersistBegin, Idle, files
  <2>2. /\ Locals(NoHandle, c, 0, 0, {}, "shared").h = NoHandle
        /\ Locals(NoHandle, c, 0, 0, {}, "shared").mode # "close" /\ "p_put" \notin InTrunc
    BY DEF Locals, InTrunc
  <2> QED  BY <2>1, <2>2, UsesBegins
<1>5. ASSUME NEW t \in Thread, NEW h \in Handle, NEW from \in 0 .. MaxExt,
             NEW to \in 0 .. MaxExt, WriteBegin(t, h, from, to)
      PROVE  Uses'
  <2> DEFINE r == Locals(h, copyOf[h], from, to, {}, "none")
  <2>1. /\ pc[t] = "idle" /\ copyOf' = copyOf /\ Goto(t, "w_ext") /\ copyOf[h] # NoCopy
        /\ Set(t, r)
    BY <1>5 DEF WriteBegin, MayCall, Idle, files
  <2>2. r.h = h /\ r.mode # "close" /\ "w_ext" \notin InTrunc
    BY DEF Locals, InTrunc
  <2> HIDE DEF r
  <2> QED  BY <2>1, <2>2, UsesBegins
<1>6. ASSUME NEW t \in Thread, NEW h \in Handle, NEW mode \in {"sync", "close"},
             SyncBegin(t, h, mode)
      PROVE  Uses'
  <2> DEFINE r == Locals(h, copyOf[h], 0, 0, through[h], mode)
             l == IF dirty[h] THEN "f_put" ELSE "f_commit"
  <2>1. /\ pc[t] = "idle" /\ copyOf' = copyOf /\ Goto(t, l) /\ copyOf[h] # NoCopy
        /\ Set(t, r) /\ (mode = "close" => ~Busy(h))
    BY <1>6 DEF SyncBegin, MayCall, Idle, files
  <2>2. r.h = h /\ r.mode = mode /\ r.c = copyOf[h] /\ l \notin InTrunc
    BY DEF Locals, InTrunc
  <2> HIDE DEF r, l
  <2> QED  BY <2>1, <2>2, UsesBegins
<1>7. ASSUME NEW t \in Thread, Step(t) PROVE Uses'
  <2>1. CASE pc'[t] # "idle"
    BY <1>7, <2>1, StepInside, UsesGoesOn
  <2>2. CASE pc'[t] = "idle"
    <3>1. /\ \E value : Return(t, value)
          /\ \/ copyOf' = copyOf
             \/ (Truncating(t) \/ Closing(t))
                /\ \E x : copyOf' = [copyOf EXCEPT ![reg[t].h] = x]
      BY <1>7, <2>2, StepReturns, Zenon DEF TruncCommit, TruncFail, SyncReturn, files
    <3> QED  BY <3>1, UsesReturns
  <2> QED  BY <2>1, <2>2
<1>8. ASSUME Crash PROVE Uses'
  BY <1>8 DEF Crash, Uses, Truncating, Closing, InTrunc, Reg0, Locals
<1>9. ASSUME NEW c \in Copy, Lookup(c) \/ Release(c) PROVE Uses'
  BY <1>1, <1>9 DEF Lookup, Release, files
<1>10. ASSUME NEW t \in Thread, NEW h \in Handle, Read(t, h) PROVE Uses'
  BY <1>1, <1>10 DEF Read
<1>11. ASSUME UNCHANGED vars PROVE Uses'
  BY <1>1, <1>11 DEF vars, files
<1> QED
  BY <1>2, <1>3, <1>4, <1>5, <1>6, <1>7, <1>8, <1>9, <1>10, <1>11 DEF Next

\* The references to an inode: open files, the caller of vn_lookup_inode_no, and
\* the vn_open_file in progress that has read it.
Files(c) == {h \in Handle : copyOf[h] = c}
Holder(c) == {c} \cap held
Owners(c) == {t \in Thread : reg[t].c = c /\ reg[t].mode = "own"}

\* Their numbers.
LEMMA Counts ==
    ASSUME NEW c
    PROVE  /\ IsFiniteSet(Files(c)) /\ IsFiniteSet(Holder(c)) /\ IsFiniteSet(Owners(c))
           /\ Cardinality(Files(c)) \in Nat /\ Cardinality(Holder(c)) \in Nat
           /\ Cardinality(Owners(c)) \in Nat
<1>1. IsFiniteSet(Files(c))
  BY FS_Subset, ConstantsAssumption DEF Files
<1>2. IsFiniteSet(Owners(c))
  BY FS_Subset, ConstantsAssumption DEF Owners
<1>3. IsFiniteSet({c}) /\ Holder(c) \in SUBSET {c}
  BY FS_Singleton DEF Holder
<1>4. IsFiniteSet(Holder(c))
  BY <1>3, FS_Subset
<1> QED  BY <1>1, <1>2, <1>4, FS_CardinalityType

\* An inode without references.
LEMMA Unreferenced ==
    ASSUME RefsCounted, NEW c \in Copy, refCnt[c] = 0
    PROVE  Files(c) = {} /\ Holder(c) = {} /\ Owners(c) = {}
<1>1. refCnt[c] = Cardinality(Files(c)) + Cardinality(Holder(c)) + Cardinality(Owners(c))
  BY DEF RefsCounted, Files, Holder, Owners
<1>2. Cardinality(Files(c)) = 0 /\ Cardinality(Holder(c)) = 0 /\ Cardinality(Owners(c)) = 0
  BY <1>1, Counts
<1> QED  BY <1>2, Counts, FS_EmptySet

\* A step that changes no reference.
LEMMA RefsKept ==
    ASSUME RefsCounted, UNCHANGED <<refCnt, copyOf, held>>,
           \A c \in Copy : Owners(c)' = Owners(c)
    PROVE  RefsCounted'
<1>1. \A c \in Copy : Files(c)' = Files(c) /\ Holder(c)' = Holder(c)
  BY DEF Files, Holder
<1>2. RefsCounted <=> \A c \in Copy : refCnt[c] = Cardinality(Files(c))
                                     + Cardinality(Holder(c)) + Cardinality(Owners(c))
  BY DEF RefsCounted, Files, Holder, Owners
<1>3. RefsCounted' <=> \A c \in Copy : refCnt'[c] = Cardinality(Files(c)')
                                      + Cardinality(Holder(c)') + Cardinality(Owners(c)')
  BY DEF RefsCounted, Files, Holder, Owners
<1> QED  BY <1>1, <1>2, <1>3

\* A step that changes the references to one inode.
LEMMA RefsOfOne ==
    ASSUME Typed, RefsCounted, NEW c \in Copy, NEW n, refCnt' = [refCnt EXCEPT ![c] = n],
           \A d \in Copy \ {c} : /\ Files(d)' = Files(d) /\ Holder(d)' = Holder(d)
                                /\ Owners(d)' = Owners(d),
           n = Cardinality(Files(c)') + Cardinality(Holder(c)') + Cardinality(Owners(c)')
    PROVE  RefsCounted'
<1>1. RefsCounted => \A d \in Copy : refCnt[d] = Cardinality(Files(d))
                                    + Cardinality(Holder(d)) + Cardinality(Owners(d))
  BY Zenon DEF RefsCounted, Files, Holder, Owners
<1>2. RefsCounted' <=> \A d \in Copy : refCnt'[d] = Cardinality(Files(d)')
                                      + Cardinality(Holder(d)') + Cardinality(Owners(d)')
  BY DEF RefsCounted, Files, Holder, Owners
<1>3. refCnt'[c] = n /\ \A d \in Copy \ {c} : refCnt'[d] = refCnt[d]
  BY DEF Typed, InodesTyped
<1> QED  BY <1>1, <1>2, <1>3

\* Calls begin without a reference of their own, except a truncating vn_open_file.
LEMMA OwnersAtBegin ==
    ASSUME Typed, NEW t \in Thread, pc[t] = "idle", NEW r, Set(t, r)
    PROVE  /\ r.mode # "own" => \A c \in Copy : Owners(c)' = Owners(c)
           /\ r.mode = "own" => \A c \in Copy :
                Owners(c)' = IF c = r.c THEN Owners(c) \cup {t} ELSE Owners(c)
<1>1. reg \in [Thread -> Register] /\ reg[t].mode # "own"
  BY LocalsOf DEF Typed, CallsTyped
<1> QED  BY <1>1 DEF Set, Owners

\* A call that ends has no reference of its own any more.
LEMMA OwnersAtReturn ==
    ASSUME Typed, NEW t \in Thread, NEW value, Return(t, value)
    PROVE  /\ reg[t].mode # "own" => \A c \in Copy : Owners(c)' = Owners(c)
           /\ reg[t].mode = "own" => \A c \in Copy :
                Owners(c)' = IF c = reg[t].c THEN Owners(c) \ {t} ELSE Owners(c)
<1>1. reg \in [Thread -> Register] /\ reg'[t].mode # "own"
  BY DEF Typed, CallsTyped, Return, Reg0, Locals
<1>2. \A u \in Thread \ {t} : reg'[u] = reg[u]
  BY <1>1 DEF Return
<1>3. ASSUME reg[t].mode # "own", NEW c \in Copy PROVE Owners(c)' = Owners(c)
  BY <1>1, <1>2, <1>3 DEF Owners
<1>4. ASSUME reg[t].mode = "own", NEW c \in Copy, c = reg[t].c
      PROVE  Owners(c)' = Owners(c) \ {t}
  BY <1>1, <1>2, <1>4 DEF Owners
<1>5. ASSUME reg[t].mode = "own", NEW c \in Copy \ {reg[t].c} PROVE Owners(c)' = Owners(c)
  BY <1>1, <1>2, <1>5 DEF Owners
<1> QED  BY <1>3, <1>4, <1>5

\* vn_lookup_inode_no and vn_dec_inode_ref.
LEMMA RefsMemory ==
    ASSUME Typed, RefsCounted, NEW c \in Copy, Lookup(c) \/ Release(c)
    PROVE  RefsCounted'
<1>0. refCnt[c] = Cardinality(Files(c)) + Cardinality(Holder(c)) + Cardinality(Owners(c))
  BY DEF RefsCounted, Files, Holder, Owners
<1>1. \A d \in Copy : Files(d)' = Files(d) /\ Owners(d)' = Owners(d)
  BY DEF Lookup, Release, Files, Owners, files
<1>2. \A d \in Copy \ {c} : Holder(d)' = Holder(d)
  BY DEF Lookup, Release, Holder
<1>3. CASE Lookup(c)
  <2>1. Files(c) = {} /\ Owners(c) = {} /\ Holder(c)' = {c}
    BY <1>3, Unreferenced DEF Lookup, Holder
  <2>2. 1 = Cardinality(Files(c)') + Cardinality(Holder(c)') + Cardinality(Owners(c)')
    BY <1>1, <2>1, SmallSets
  <2>3. refCnt' = [refCnt EXCEPT ![c] = 1]
    BY <1>3 DEF Lookup
  <2> QED  BY <1>1, <1>2, <2>2, <2>3, RefsOfOne, Zenon
<1>4. CASE Release(c)
  <2>1. Holder(c) = {c} /\ Holder(c)' = {}
    BY <1>4 DEF Release, Holder
  <2>2. Cardinality(Holder(c)) = 1 /\ Cardinality(Holder(c)') = 0
    BY <2>1, SmallSets
  <2>3. refCnt[c] - 1 = Cardinality(Files(c)') + Cardinality(Holder(c)')
                      + Cardinality(Owners(c)')
    BY <1>0, <1>1, <2>2, Counts
  <2>4. refCnt' = [refCnt EXCEPT ![c] = refCnt[c] - 1]
    BY <1>4 DEF Release
  <2> QED  BY <1>1, <1>2, <2>3, <2>4, RefsOfOne, Zenon
<1> QED  BY <1>3, <1>4

\* A file is opened on an inode ...
LEMMA FilesOpened ==
    ASSUME Typed, NEW h \in Handle, NEW c \in Copy, copyOf[h] = NoCopy,
           copyOf' = [copyOf EXCEPT ![h] = c]
    PROVE  /\ Files(c)' = Files(c) \cup {h}
           /\ Cardinality(Files(c)') = Cardinality(Files(c)) + 1
           /\ \A d \in Copy \ {c} : Files(d)' = Files(d)
<1>1. copyOf \in [Handle -> Copy \cup {NoCopy}] /\ NoCopy \notin Copy
  BY ConstantsAssumption DEF Typed, FilesTyped
<1>2. Files(c)' = Files(c) \cup {h} /\ h \notin Files(c)
  BY <1>1 DEF Files
<1>3. \A d \in Copy \ {c} : Files(d)' = Files(d)
  BY <1>1 DEF Files
<1> QED  BY <1>2, <1>3, Counts, FS_AddElement, Zenon

\* ... and closed.
LEMMA FilesClosed ==
    ASSUME Typed, NEW h \in Handle, NEW c \in Copy, copyOf[h] = c,
           copyOf' = [copyOf EXCEPT ![h] = NoCopy]
    PROVE  /\ Cardinality(Files(c)') = Cardinality(Files(c)) - 1
           /\ \A d \in Copy \ {c} : Files(d)' = Files(d)
<1>1. copyOf \in [Handle -> Copy \cup {NoCopy}] /\ NoCopy \notin Copy
  BY ConstantsAssumption DEF Typed, FilesTyped
<1>2. Files(c)' = Files(c) \ {h} /\ h \in Files(c)
  BY <1>1 DEF Files
<1>3. \A d \in Copy \ {c} : Files(d)' = Files(d)
  BY <1>1 DEF Files
<1>4. Cardinality(Files(c) \ {h}) = Cardinality(Files(c)) - 1
  BY <1>2, Counts, FS_RemoveElement, Zenon
<1> QED  BY <1>2, <1>3, <1>4

\* Adding one reference, dropping one, and passing one from a call to a file.
LEMMA Sums ==
    ASSUME Typed, NEW c \in Copy,
           refCnt[c] = Cardinality(Files(c)) + Cardinality(Holder(c)) + Cardinality(Owners(c))
    PROVE  /\ refCnt[c] = (Cardinality(Files(c)) + 1) + Cardinality(Holder(c))
                             + (Cardinality(Owners(c)) - 1)
           /\ refCnt[c] + 1 = (Cardinality(Files(c)) + 1) + Cardinality(Holder(c))
                                 + Cardinality(Owners(c))
           /\ refCnt[c] - 1 = (Cardinality(Files(c)) - 1) + Cardinality(Holder(c))
                                 + Cardinality(Owners(c))
           /\ refCnt[c] - 1 = Cardinality(Files(c)) + Cardinality(Holder(c))
                                 + (Cardinality(Owners(c)) - 1)
<1> DEFINE f == Cardinality(Files(c))
           k == Cardinality(Holder(c))
           o == Cardinality(Owners(c))
<1>1. f \in Int /\ k \in Int /\ o \in Int
  BY Counts
<1>2. refCnt[c] = f + k + o
  OBVIOUS
<1> HIDE DEF f, k, o
<1>3. /\ f + k + o = (f + 1) + k + (o - 1)
      /\ (f + k + o) + 1 = (f + 1) + k + o
      /\ (f + k + o) - 1 = (f - 1) + k + o
      /\ (f + k + o) - 1 = f + k + (o - 1)
  BY <1>1
<1> QED  BY <1>2, <1>3, Zenon DEF f, k, o

\* vn_open_file and vn_open_file_by_inode without O_TRUNC.
LEMMA RefsOpen ==
    ASSUME Typed, RefsCounted, NEW t \in Thread, NEW h \in Handle, NEW c \in Copy,
           OpenByInode(t, h, c) \/ Open(t, h, c)
    PROVE  RefsCounted'
<1>0. refCnt[c] = Cardinality(Files(c)) + Cardinality(Holder(c)) + Cardinality(Owners(c))
  BY DEF RefsCounted, Files, Holder, Owners
<1>1. \A d \in Copy : Holder(d)' = Holder(d) /\ Owners(d)' = Owners(d)
  BY DEF OpenByInode, Open, Holder, Owners
<1>2. copyOf[h] = NoCopy /\ copyOf' = [copyOf EXCEPT ![h] = c]
  BY DEF OpenByInode, Open, Opened, Closed
<1>3. /\ Cardinality(Files(c)') = Cardinality(Files(c)) + 1
      /\ \A d \in Copy \ {c} : Files(d)' = Files(d)
  BY <1>2, FilesOpened, Zenon
<1>4. refCnt' = [refCnt EXCEPT ![c] = refCnt[c] + 1]
  BY DEF OpenByInode, Open
<1>5. refCnt[c] + 1 = Cardinality(Files(c)') + Cardinality(Holder(c)')
                    + Cardinality(Owners(c)')
  BY <1>0, <1>1, <1>3, Sums, Zenon
<1> QED  BY <1>1, <1>3, <1>4, <1>5, RefsOfOne, Zenon

\* The beginning of an open with O_TRUNC.
LEMMA RefsTruncBegin ==
    ASSUME Typed, RefsCounted, NEW t \in Thread, NEW h \in Handle, NEW c \in Copy,
           TruncBegin(t, h, c)
    PROVE  RefsCounted'
<1>1. pc[t] = "idle" /\ UNCHANGED <<copyOf, held>>
  BY DEF TruncBegin, Idle, files
<1>2. \A d \in Copy : Files(d)' = Files(d) /\ Holder(d)' = Holder(d)
  BY <1>1 DEF Files, Holder
<1>3. CASE Set(t, Locals(h, c, 0, 0, {}, "shared")) /\ UNCHANGED refCnt
  <2>1. Locals(h, c, 0, 0, {}, "shared").mode # "own"
    BY DEF Locals
  <2>2. \A d \in Copy : Owners(d)' = Owners(d)
    BY <1>1, <1>3, <2>1, OwnersAtBegin
  <2> QED  BY <1>1, <1>3, <2>2, RefsKept
<1>4. CASE /\ refCnt[c] = 0 /\ refCnt' = [refCnt EXCEPT ![c] = 1]
           /\ Set(t, Locals(h, c, 0, 0, {}, "own"))
  <2>1. Locals(h, c, 0, 0, {}, "own").mode = "own" /\ Locals(h, c, 0, 0, {}, "own").c = c
    BY DEF Locals
  <2>2. \A d \in Copy : Owners(d)' = IF d = c THEN Owners(d) \cup {t} ELSE Owners(d)
    BY <1>1, <1>4, <2>1, OwnersAtBegin
  <2>3. Files(c) = {} /\ Holder(c) = {} /\ Owners(c) = {}
    BY <1>4, Unreferenced
  <2>4. Files(c)' = {} /\ Holder(c)' = {} /\ Owners(c)' = {t}
    BY <1>2, <2>2, <2>3
  <2>5. /\ Cardinality(Files(c)') = 0 /\ Cardinality(Holder(c)') = 0
        /\ Cardinality(Owners(c)') = 1
    BY <2>4, SmallSets
  <2>6. 1 = Cardinality(Files(c)') + Cardinality(Holder(c)') + Cardinality(Owners(c)')
    BY <2>5
  <2> QED  BY <1>2, <1>4, <2>2, <2>6, RefsOfOne, Zenon
<1> QED  BY <1>3, <1>4 DEF TruncBegin

\* The end of an open with O_TRUNC.  vn_open_file drops its own reference: the
\* file has it, or nobody.
LEMMA RefsTruncEnd ==
    ASSUME Typed, Uses, RefsCounted, NEW t \in Thread, Truncating(t),
           TruncCommit(t) \/ TruncFail(t)
    PROVE  RefsCounted'
<1> DEFINE r == reg[t]
<1>0. PICK h \in Handle, c \in Copy : h = r.h /\ c = r.c
  BY LocalsOf
<1>1. refCnt[c] = Cardinality(Files(c)) + Cardinality(Holder(c)) + Cardinality(Owners(c))
  BY DEF RefsCounted, Files, Holder, Owners
<1>2. \A d \in Copy : Holder(d)' = Holder(d)
  BY DEF TruncCommit, TruncFail, Holder
<1>3. \E value : Return(t, value)
  BY DEF TruncCommit, TruncFail
<1>4. r.mode # "own" => \A d \in Copy : Owners(d)' = Owners(d)
  BY <1>3, OwnersAtReturn
<1>5. ASSUME r.mode = "own"
      PROVE  /\ \A d \in Copy \ {c} : Owners(d)' = Owners(d)
             /\ Cardinality(Owners(c)') = Cardinality(Owners(c)) - 1
  <2>1. \A d \in Copy : Owners(d)' = IF d = c THEN Owners(d) \ {t} ELSE Owners(d)
    BY <1>0, <1>3, <1>5, OwnersAtReturn
  <2>2. t \in Owners(c)
    BY <1>0, <1>5 DEF Owners
  <2>3. Cardinality(Owners(c) \ {t}) = Cardinality(Owners(c)) - 1
    BY <2>2, Counts, FS_RemoveElement, Zenon
  <2> QED  BY <2>1, <2>3
<1>6. /\ Cardinality(Files(c)) \in Int /\ Cardinality(Holder(c)) \in Int
      /\ Cardinality(Owners(c)) \in Int /\ Cardinality(Holder(c)') = Cardinality(Holder(c))
  BY <1>2, Counts
<1>sum. /\ refCnt[c] = (Cardinality(Files(c)) + 1) + Cardinality(Holder(c))
                         + (Cardinality(Owners(c)) - 1)
        /\ refCnt[c] + 1 = (Cardinality(Files(c)) + 1) + Cardinality(Holder(c))
                             + Cardinality(Owners(c))
        /\ refCnt[c] - 1 = Cardinality(Files(c)) + Cardinality(Holder(c))
                             + (Cardinality(Owners(c)) - 1)
  BY <1>1, Sums, Zenon
<1>7. CASE TruncCommit(t)
  <2>1. copyOf[h] = NoCopy /\ copyOf' = [copyOf EXCEPT ![h] = c]
    BY <1>0, <1>7 DEF TruncCommit, Uses
  <2>2. /\ Cardinality(Files(c)') = Cardinality(Files(c)) + 1
        /\ \A d \in Copy \ {c} : Files(d)' = Files(d)
    BY <2>1, FilesOpened, Zenon
  <2>3. refCnt' = [refCnt EXCEPT ![c] = IF r.mode = "own" THEN refCnt[c] ELSE refCnt[c] + 1]
    BY <1>0, <1>7 DEF TruncCommit
  <2>4. (IF r.mode = "own" THEN refCnt[c] ELSE refCnt[c] + 1)
          = Cardinality(Files(c)') + Cardinality(Holder(c)') + Cardinality(Owners(c)')
    <3>1. CASE r.mode = "own"
      <4>1. Cardinality(Owners(c)') = Cardinality(Owners(c)) - 1
        BY <1>5, <3>1
      <4> QED  BY <1>6, <2>2, <3>1, <4>1, <1>sum, Zenon
    <3>2. CASE r.mode # "own"
      <4>1. Cardinality(Owners(c)') = Cardinality(Owners(c))
        BY <1>4, <3>2
      <4> QED  BY <1>6, <2>2, <3>2, <4>1, <1>sum, Zenon
    <3> QED  BY <3>1, <3>2
  <2>5. \A d \in Copy \ {c} : Owners(d)' = Owners(d)
    BY <1>4, <1>5
  <2> QED  BY <1>2, <2>2, <2>3, <2>4, <2>5, RefsOfOne, Zenon
<1>8. CASE TruncFail(t)
  <2>1. \A d \in Copy : Files(d)' = Files(d)
    BY <1>8, Zenon DEF TruncFail, files, Files
  <2>2. refCnt' = [refCnt EXCEPT ![c] = IF r.mode = "own" THEN refCnt[c] - 1 ELSE refCnt[c]]
    BY <1>0, <1>8 DEF TruncFail
  <2>3. (IF r.mode = "own" THEN refCnt[c] - 1 ELSE refCnt[c])
          = Cardinality(Files(c)') + Cardinality(Holder(c)') + Cardinality(Owners(c)')
    <3>0. Cardinality(Files(c)') = Cardinality(Files(c))
      BY <2>1
    <3>1. CASE r.mode = "own"
      <4>1. Cardinality(Owners(c)') = Cardinality(Owners(c)) - 1
        BY <1>5, <3>1
      <4> QED  BY <1>6, <3>0, <3>1, <4>1, <1>sum, Zenon
    <3>2. CASE r.mode # "own"
      <4>1. Cardinality(Owners(c)') = Cardinality(Owners(c))
        BY <1>4, <3>2
      <4> QED  BY <1>1, <1>6, <3>0, <3>2, <4>1, Zenon
    <3> QED  BY <3>1, <3>2
  <2>4. \A d \in Copy \ {c} : Owners(d)' = Owners(d)
    BY <1>4, <1>5
  <2> QED  BY <1>2, <2>1, <2>2, <2>3, <2>4, RefsOfOne, Zenon
<1> QED  BY <1>7, <1>8

\* vn_close_file deletes the file, whatever its vn_fsync returned.
LEMMA RefsClose ==
    ASSUME Typed, Uses, RefsCounted, NEW t \in Thread, Closing(t), NEW value,
           SyncReturn(t, value)
    PROVE  RefsCounted'
<1>0. PICK h \in Handle, c \in Copy : h = reg[t].h /\ c = reg[t].c
  BY LocalsOf
<1>1. refCnt[c] = Cardinality(Files(c)) + Cardinality(Holder(c)) + Cardinality(Owners(c))
  BY DEF RefsCounted, Files, Holder, Owners
<1>2. \A d \in Copy : Holder(d)' = Holder(d)
  BY Zenon DEF SyncReturn, Holder
<1>3. \A d \in Copy : Owners(d)' = Owners(d)
  BY OwnersAtReturn, Zenon DEF SyncReturn, Closing
<1>4. copyOf[h] = c /\ copyOf' = [copyOf EXCEPT ![h] = NoCopy]
  BY <1>0 DEF SyncReturn, Closing, Uses
<1>5. /\ Cardinality(Files(c)') = Cardinality(Files(c)) - 1
      /\ \A d \in Copy \ {c} : Files(d)' = Files(d)
  BY <1>4, FilesClosed, Zenon
<1>6. refCnt' = [refCnt EXCEPT ![c] = refCnt[c] - 1]
  BY <1>0 DEF SyncReturn, Closing
<1>7. refCnt[c] - 1 = Cardinality(Files(c)') + Cardinality(Holder(c)')
                    + Cardinality(Owners(c)')
  <2>1. refCnt[c] - 1 = (Cardinality(Files(c)) - 1) + Cardinality(Holder(c))
                         + Cardinality(Owners(c))
    BY <1>1, Sums, Zenon
  <2> QED  BY <1>2, <1>3, <1>5, <2>1, Zenon
<1> QED  BY <1>2, <1>3, <1>5, <1>6, <1>7, RefsOfOne, Zenon

\* Every step keeps the count.
LEMMA RefsNext ==
    ASSUME Typed, Uses, RefsCounted, [Next]_vars
    PROVE  RefsCounted'
<1>1. ASSUME NEW t \in Thread, pc[t] = "idle", NEW r, Set(t, r), r.mode # "own",
             UNCHANGED <<refCnt, copyOf, held>>
      PROVE  RefsCounted'
  <2>1. \A c \in Copy : Owners(c)' = Owners(c)
    BY <1>1, OwnersAtBegin
  <2> QED  BY <1>1, <2>1, RefsKept
<1>2. ASSUME NEW t \in Thread, NEW c \in Copy, PersistBegin(t, c) PROVE RefsCounted'
  <2>1. Locals(NoHandle, c, 0, 0, {}, "shared").mode # "own"
    BY DEF Locals
  <2> QED  BY <1>1, <1>2, <2>1 DEF PersistBegin, Idle, inodes, files
<1>3. ASSUME NEW t \in Thread, NEW h \in Handle, NEW from \in 0 .. MaxExt,
             NEW to \in 0 .. MaxExt, WriteBegin(t, h, from, to)
      PROVE  RefsCounted'
  <2>1. Locals(h, copyOf[h], from, to, {}, "none").mode # "own"
    BY DEF Locals
  <2> QED  BY <1>1, <1>3, <2>1 DEF WriteBegin, MayCall, Idle, inodes, files
<1>4. ASSUME NEW t \in Thread, NEW h \in Handle, NEW mode \in {"sync", "close"},
             SyncBegin(t, h, mode)
      PROVE  RefsCounted'
  <2>1. Locals(h, copyOf[h], 0, 0, through[h], mode).mode # "own"
    BY DEF Locals
  <2> QED  BY <1>1, <1>4, <2>1 DEF SyncBegin, MayCall, Idle, inodes, files
<1>5. ASSUME UNCHANGED <<refCnt, copyOf, held, reg>> PROVE RefsCounted'
  <2>1. \A c \in Copy : Owners(c)' = Owners(c)
    BY <1>5 DEF Owners
  <2> QED  BY <1>5, <2>1, RefsKept
<1>6. ASSUME NEW t \in Thread, Step(t) PROVE RefsCounted'
  <2>1. CASE pc'[t] # "idle"
    <3>1. \A c \in Copy : Owners(c)' = Owners(c)
      BY <1>6, <2>1, StepInside DEF Owners, SameCall
    <3> QED  BY <1>6, <2>1, <3>1, StepInside, RefsKept
  <2>2. CASE pc'[t] = "idle"
    <3>1. CASE Truncating(t) /\ (TruncCommit(t) \/ TruncFail(t))
      BY <3>1, RefsTruncEnd
    <3>2. CASE Closing(t) /\ (\E value : SyncReturn(t, value))
      BY <3>2, RefsClose
    <3>3. CASE ~Truncating(t) /\ UNCHANGED <<copyOf, refCnt, held>>
      <4>1. reg[t].mode # "own"
        BY <3>3, LocalsOf DEF Truncating
      <4>2. \A c \in Copy : Owners(c)' = Owners(c)
        BY <1>6, <2>2, <4>1, StepReturns, OwnersAtReturn, Zenon
      <4> QED  BY <3>3, <4>2, RefsKept
    <3> QED  BY <1>6, <2>2, <3>1, <3>2, <3>3, StepReturns
  <2> QED  BY <2>1, <2>2
<1>7. ASSUME Crash PROVE RefsCounted'
  <2>1. ASSUME NEW c \in Copy
        PROVE  refCnt'[c] = 0 /\ Files(c)' = {} /\ Holder(c)' = {} /\ Owners(c)' = {}
    BY <1>7, ConstantsAssumption, Zenon DEF Crash, Files, Holder, Owners, Reg0, Locals
  <2>2. Cardinality({}) = 0
    BY SmallSets, Zenon
  <2>3. \A c \in Copy : refCnt'[c] = Cardinality(Files(c)') + Cardinality(Holder(c)')
                                    + Cardinality(Owners(c)')
    BY <2>1, <2>2
  <2> QED  BY <2>3 DEF RefsCounted, Files, Holder, Owners
<1>8. ASSUME NEW t \in Thread, NEW h \in Handle, Read(t, h) PROVE RefsCounted'
  BY <1>5, <1>8 DEF Read, inodes
<1>9. ASSUME UNCHANGED vars PROVE RefsCounted'
  BY <1>5, <1>9 DEF vars, inodes, files
<1> QED
  BY <1>2, <1>3, <1>4, <1>6, <1>7, <1>8, <1>9, RefsMemory, RefsOpen, RefsTruncBegin DEF Next

----------------------------------------------------------------------------
(* The invariant and what follows from it *)

Inv == Typed /\ Room /\ Uses /\ RefsCounted

\* A file just created, with nothing in memory.
LEMMA InvInit == Init => Inv
<1> SUFFICES ASSUME Init PROVE Inv
  OBVIOUS
<1>1. Typed /\ Room
  BY TypedInit
<1>2. Uses
  BY DEF Init, Uses, Truncating, Closing, InTrunc, Reg0, Locals
<1>3. RefsCounted
  <2>1. ASSUME NEW c \in Copy
        PROVE  refCnt[c] = 0 /\ Files(c) = {} /\ Holder(c) = {} /\ Owners(c) = {}
    BY ConstantsAssumption, Zenon DEF Init, Files, Holder, Owners, Reg0, Locals
  <2>2. Cardinality({}) = 0
    BY SmallSets, Zenon
  <2>3. \A c \in Copy : refCnt[c] = Cardinality(Files(c)) + Cardinality(Holder(c))
                                   + Cardinality(Owners(c))
    BY <2>1, <2>2
  <2> QED  BY <2>3, Zenon DEF RefsCounted, Files, Holder, Owners
<1> QED  BY <1>1, <1>2, <1>3 DEF Inv

\* The invariant is inductive.
LEMMA InvNext == Inv /\ [Next]_vars => Inv'
  BY TypedNext, RoomNext, UsesNext, RefsNext DEF Inv

\* The invariant holds throughout.
LEMMA Invariant == Spec => []Inv
  BY InvInit, InvNext, PTL DEF Spec

\* ref_cnt of an inode in memory is the number of the files, callers and opens in
\* progress that use it, whatever races, timeouts and failures there are.
THEOREM ReferencesCounted == Spec => []RefsCounted
<1>1. Inv => RefsCounted
  BY DEF Inv
<1> QED  BY <1>1, Invariant, PTL

\* Every variable of the file stays in its domain: sizes and versions within the
\* bounds, ref_cnt never below 0.
THEOREM TypeCorrect == Spec => []TypeOK
<1>1. Inv => TypeOK
  <2> SUFFICES ASSUME Inv PROVE TypeOK
    OBVIOUS
  <2>1. \A c \in Copy : refCnt[c] = Cardinality(Files(c)) + Cardinality(Holder(c))
                                   + Cardinality(Owners(c))
    BY Zenon DEF Inv, RefsCounted, Files, Holder, Owners
  <2>2. \A c \in Copy : refCnt[c] \in Nat
    BY <2>1, Counts
  <2>3. refCnt \in [Copy -> Nat]
    BY <2>2 DEF Inv, Typed, InodesTyped
  <2> QED  BY <2>3 DEF Inv, Typed, DbTyped, InodesTyped, FilesTyped, CallsTyped, LocksTyped,
                       HistoryTyped, TypeOK
<1> QED  BY <1>1, Invariant, PTL

-----------------------------------------------------------------------------
(* The calls in progress *)

\* The last step of a call that may record a size.
Committing == {"p_commit", "w_commit", "f_commit"}

\* A call that truncates is the only one in progress.
Alone ==
    \A t \in Thread : pc[t] \in InTrunc =>
        Truncates /\ \A u \in Thread \ {t} : pc[u] = "idle"

\* A thread starts a call.
Begins(t, l) ==
    /\ Idle(t) /\ Goto(t, l)
    /\ l \in InTrunc => Truncates /\ (TruncRace \/ \A u \in Thread : pc[u] = "idle")

\* What a step does to the calls in progress.
LEMMA CallSteps ==
    ASSUME [Next]_vars
    PROVE  \/ UNCHANGED <<pc, reg>>
           \/ \E t \in Thread : Step(t)
           \/ \E t \in Thread, l \in PC : Begins(t, l)
           \/ Crash
<1>1. ASSUME NEW c \in Copy, Lookup(c) \/ Release(c) PROVE UNCHANGED <<pc, reg>>
  BY <1>1 DEF Lookup, Release
<1>2. ASSUME NEW t \in Thread, NEW c \in Copy, PersistBegin(t, c) PROVE Begins(t, "p_put")
  BY <1>2 DEF Begins, PersistBegin, InTrunc
<1>3. ASSUME NEW t \in Thread, NEW h \in Handle, NEW c \in Copy,
             OpenByInode(t, h, c) \/ Open(t, h, c)
      PROVE  UNCHANGED <<pc, reg>>
  BY <1>3 DEF OpenByInode, Open
<1>4. ASSUME NEW t \in Thread, NEW h \in Handle, NEW c \in Copy, TruncBegin(t, h, c)
      PROVE  Begins(t, "t_get")
  BY <1>4 DEF Begins, TruncBegin
<1>5. ASSUME NEW t \in Thread, NEW h \in Handle, NEW from \in 0 .. MaxExt,
             NEW to \in 0 .. MaxExt, WriteBegin(t, h, from, to)
      PROVE  Begins(t, "w_ext")
  BY <1>5 DEF Begins, WriteBegin, MayCall, InTrunc
<1>6. ASSUME NEW t \in Thread, NEW h \in Handle, Read(t, h) PROVE UNCHANGED <<pc, reg>>
  BY <1>6 DEF Read
<1>7. ASSUME NEW t \in Thread, NEW h \in Handle, NEW mode \in {"sync", "close"},
             SyncBegin(t, h, mode)
      PROVE  Begins(t, "f_put") \/ Begins(t, "f_commit")
  BY <1>7, Zenon DEF Begins, SyncBegin, MayCall, InTrunc
<1>8. {"p_put", "t_get", "w_ext", "f_put", "f_commit"} \subseteq PC
  BY DEF PC, InPersist, InTrunc, InWrite, InSync
<1>9. UNCHANGED vars => UNCHANGED <<pc, reg>>
  BY DEF vars
<1> QED
  BY <1>1, <1>2, <1>3, <1>4, <1>5, <1>6, <1>7, <1>8, <1>9 DEF Next

\* No call begins while one truncates, and a truncation begins when none is in
\* progress.
LEMMA AloneNext ==
    ASSUME ~Truncates \/ ~TruncRace, Typed, Alone, [Next]_vars
    PROVE  Alone'
<1>0. pc \in [Thread -> PC]
  BY DEF Typed, CallsTyped
<1>1. ASSUME NEW t \in Thread, Step(t) PROVE Alone'
  <2>1. \A u \in Thread \ {t} : pc'[u] = pc[u]
    BY <1>1, OtherThreads
  <2>2. pc'[t] \in InTrunc => pc[t] \in InTrunc
    BY <1>1, StepInside DEF InTrunc
  <2>3. pc[t] # "idle"
    BY <1>1, Zenon DEF Step, PersistInode, PersistPut, PersistCommit, PersistFail, Truncate,
                TruncGet, TruncDelete, TruncSize, TruncPutInode, TruncCommit, TruncFail, Write,
                WriteExtent, WriteCheckSize, WriteStoreSize, WritePutInode, WriteCommit,
                WriteFail, Sync, SyncPutInode, SyncCommit, SyncFail, SyncFlush
  <2> QED  BY <2>1, <2>2, <2>3 DEF Alone
<1>2. ASSUME NEW t \in Thread, NEW l \in PC, Begins(t, l) PROVE Alone'
  <2>1. \A u \in Thread : pc[u] \notin InTrunc
    BY <1>2 DEF Begins, Idle, Alone
  <2>2. pc'[t] = l /\ \A u \in Thread \ {t} : pc'[u] = pc[u]
    BY <1>0, <1>2 DEF Begins, Goto
  <2> QED  BY <1>2, <2>1, <2>2 DEF Begins, Alone
<1>3. ASSUME Crash PROVE Alone'
  BY <1>3 DEF Crash, Alone, InTrunc
<1>4. ASSUME UNCHANGED <<pc, reg>> PROVE Alone'
  BY <1>4 DEF Alone
<1> QED  BY <1>1, <1>2, <1>3, <1>4, CallSteps

\* Without lock timeouts a write's transaction has every extent up to the next.
BatchOK(p, r) ==
    /\ p = "w_ext" => r.from <= r.next /\ r.put = r.from .. r.next - 1
    /\ p \in {"w_store", "w_put", "w_commit"} => r.put = r.from .. r.to - 1

Batches == \A t \in Thread : BatchOK(pc[t], reg[t])

\* Put and Merge calls add one extent after the other.
LEMMA BatchesNext ==
    ASSUME ~LockTimeouts, Typed, Batches, [Next]_vars
    PROVE  Batches'
<1>0. pc \in [Thread -> PC] /\ reg \in [Thread -> Register]
  BY DEF Typed, CallsTyped
<1>1. ASSUME NEW t \in Thread, NEW l, NEW r, Goto(t, l), Set(t, r), BatchOK(l, r)
      PROVE  Batches'
  BY <1>0, <1>1 DEF Goto, Set, Batches
<1>3. ASSUME NEW t \in Thread, Write(t) PROVE Batches'
  <2>0. reg[t] \in Register /\ BatchOK(pc[t], reg[t]) /\ LocalsOK(pc[t], reg[t])
    BY <1>0 DEF Batches, Typed, CallsTyped
  <2>1. CASE WriteExtent(t)
    <3> DEFINE r == [reg[t] EXCEPT !.next = reg[t].next + 1,
                                   !.put = reg[t].put \cup {reg[t].next}]
    <3>1. pc[t] = "w_ext" /\ pc' = pc /\ Set(t, r)
      BY <2>1 DEF WriteExtent, TimesOut
    <3>2. r.from = reg[t].from /\ r.next = reg[t].next + 1
          /\ r.put = reg[t].put \cup {reg[t].next}
      BY <2>0 DEF Register
    <3>3. reg[t].from \in Int /\ reg[t].next \in Int /\ reg[t].from <= reg[t].next
          /\ reg[t].put = reg[t].from .. reg[t].next - 1
      BY <2>0, <3>1, Bounds DEF Register, BatchOK
    <3>4. r.from <= r.next /\ r.put = r.from .. r.next - 1
      BY <3>2, <3>3
    <3>5. BatchOK("w_ext", r)
      BY <3>4 DEF BatchOK
    <3> HIDE DEF r
    <3> QED  BY <1>0, <3>1, <3>5 DEF Set, Batches
  <2>2. CASE WriteCheckSize(t)
    <3>1. PICK l \in {"w_store", "w_commit"} : Goto(t, l)
      BY <2>2 DEF WriteCheckSize
    <3>2. pc[t] = "w_ext" /\ reg[t].next = reg[t].to /\ reg' = reg
      BY <2>2 DEF WriteCheckSize
    <3>3. BatchOK(l, reg[t])
      BY <2>0, <3>2 DEF BatchOK
    <3> QED  BY <1>0, <3>1, <3>2, <3>3 DEF Goto, Batches
  <2>3. CASE WriteStoreSize(t)
    <3>1. pc[t] = "w_store" /\ Goto(t, "w_put") /\ reg' = reg
      BY <2>3 DEF WriteStoreSize
    <3>2. BatchOK("w_put", reg[t])
      BY <2>0, <3>1 DEF BatchOK
    <3> QED  BY <1>0, <3>1, <3>2 DEF Goto, Batches
  <2>4. CASE WritePutInode(t)
    <3> DEFINE r == [reg[t] EXCEPT !.size = memSize[reg[t].c]]
    <3>1. pc[t] = "w_put" /\ Goto(t, "w_commit") /\ Set(t, r)
      BY <2>4 DEF WritePutInode
    <3>2. r.from = reg[t].from /\ r.to = reg[t].to /\ r.put = reg[t].put
      BY <2>0 DEF Register
    <3>3. BatchOK("w_commit", r)
      BY <2>0, <3>1, <3>2 DEF BatchOK
    <3> QED  BY <1>1, <3>1, <3>3
  <2>5. CASE WriteCommit(t) \/ WriteFail(t)
    <3>1. Goto(t, "idle") /\ Set(t, Reg0)
      BY <2>5, Zenon DEF WriteCommit, WriteFail, Return, Set
    <3> QED  BY <1>1, <3>1 DEF BatchOK
  <2> QED  BY <1>3, <2>1, <2>2, <2>3, <2>4, <2>5 DEF Write
<1>4. ASSUME NEW t \in Thread, PersistInode(t) \/ Truncate(t) \/ Sync(t)
      PROVE  Batches'
  <2>1. pc'[t] \notin InWrite
    <3>1. CASE PersistInode(t)
      BY <1>0, <3>1 DEF PersistInode, PersistPut, PersistCommit, PersistFail, Return, Goto,
                        InWrite
    <3>2. CASE Truncate(t)
      BY <1>0, <3>2 DEF Truncate, TruncGet, TruncDelete, TruncSize, TruncPutInode,
                        TruncCommit, TruncFail, Return, Goto, InWrite
    <3>3. CASE Sync(t)
      BY <1>0, <3>3 DEF Sync, SyncPutInode, SyncCommit, SyncFail, SyncFlush, SyncReturn,
                        Return, Goto, InWrite
    <3> QED  BY <1>4, <3>1, <3>2, <3>3
  <2>2. \A u \in Thread \ {t} : pc'[u] = pc[u] /\ reg'[u] = reg[u]
    BY <1>4, OtherThreads DEF Step
  <2>3. BatchOK(pc'[t], reg'[t])
    BY <2>1 DEF BatchOK, InWrite
  <2> QED  BY <2>2, <2>3 DEF Batches
<1>5. ASSUME NEW t \in Thread, NEW h \in Handle, NEW from \in 0 .. MaxExt,
             NEW to \in 0 .. MaxExt, WriteBegin(t, h, from, to)
      PROVE  Batches'
  <2> DEFINE r == Locals(h, copyOf[h], from, to, {}, "none")
  <2>1. Goto(t, "w_ext") /\ Set(t, r)
    BY <1>5 DEF WriteBegin
  <2>2. r.from = from /\ r.next = from /\ r.put = {}
    BY DEF Locals
  <2>3. from \in Int /\ from .. from - 1 = {}
    BY Bounds
  <2> HIDE DEF r
  <2>4. r.from <= r.next /\ r.put = r.from .. r.next - 1
    BY <2>2, <2>3
  <2>5. BatchOK("w_ext", r)
    BY <2>4 DEF BatchOK
  <2> QED  BY <1>1, <2>1, <2>5
<1>6. ASSUME NEW t \in Thread, NEW h \in Handle, NEW mode \in {"sync", "close"},
             SyncBegin(t, h, mode)
      PROVE  Batches'
  <2>1. Goto(t, "f_put") \/ Goto(t, "f_commit")
    BY <1>6 DEF SyncBegin
  <2>2. \E r : Set(t, r)
    BY <1>6 DEF SyncBegin
  <2> QED  BY <1>1, <2>1, <2>2 DEF BatchOK
<1>7. ASSUME NEW t \in Thread, NEW h \in Handle, NEW c \in Copy,
             TruncBegin(t, h, c)
      PROVE  Batches'
  <2>1. \E r : Goto(t, "t_get") /\ Set(t, r)
    BY <1>7 DEF TruncBegin
  <2> QED  BY <1>1, <2>1 DEF BatchOK
<1>8. ASSUME UNCHANGED <<pc, reg>> PROVE Batches'
  BY <1>8 DEF Batches
<1>9. ASSUME Crash PROVE Batches'
  BY <1>9, Zenon DEF Crash, Batches, BatchOK
<1>10. ASSUME NEW c \in Copy, Lookup(c) \/ Release(c) PROVE Batches'
  BY <1>8, <1>10, Zenon DEF Lookup, Release
<1>11. ASSUME NEW t \in Thread, NEW h \in Handle, NEW c \in Copy,
              OpenByInode(t, h, c) \/ Open(t, h, c)
       PROVE  Batches'
  BY <1>8, <1>11 DEF OpenByInode, Open
<1>12. ASSUME NEW t \in Thread, NEW h \in Handle, Read(t, h) PROVE Batches'
  BY <1>8, <1>12 DEF Read
<1>13. ASSUME NEW t \in Thread, NEW c \in Copy, PersistBegin(t, c) PROVE Batches'
  <2>1. \E r : Goto(t, "p_put") /\ Set(t, r)
    BY <1>13 DEF PersistBegin
  <2> QED  BY <1>1, <2>1 DEF BatchOK
<1>14. ASSUME UNCHANGED vars PROVE Batches'
  BY <1>8, <1>14 DEF vars
<1> QED
  BY <1>3, <1>4, <1>5, <1>6, <1>7, <1>9, <1>10, <1>11, <1>12, <1>13, <1>14 DEF Next, Step
=============================================================================
