----------------------- MODULE VnFileIODurableProofs -----------------------
(***************************************************************************)
(* Proofs about VnFileIO: what a vn_fsync makes durable.                   *)
(***************************************************************************)
EXTENDS VnFileIORefsProofs

\* The conditions: all opens of the file share one inode in memory, calls overlap
\* neither on one ViveFile nor with a truncation nor in the update of i_size, and
\* nothing fails but the whole process.
Sound ==
    /\ \A c, d \in Copy : c = d
    /\ ~SharedHandles /\ ~TruncRace /\ ~SizeRace /\ ~LockTimeouts /\ ~CommitFails

\* A call works alone on an open file, or on an inode that its caller holds.
OnFile == InWrite \cup InSync

Served(t) ==
    /\ pc[t] \in OnFile => copyOf[reg[t].h] = reg[t].c
    /\ pc[t] \in OnFile => \A u \in Thread \ {t} : pc[u] \in OnFile => reg[u].h # reg[t].h
    /\ pc[t] # "idle" /\ reg[t].mode = "shared" => reg[t].c \in held

\* The size in memory is behind neither the record nor what was written, except
\* between the assignment i_size = 0 of a truncation and its commit.
Shrinking == \E t \in Thread : pc[t] \in {"t_put", "t_commit"}

Loaded(c) ==
    refCnt[c] # 0 /\ ~Shrinking =>
        db.size <= memSize[c] /\ \A h \in Handle : \A e \in through[h] : e < memSize[c]

\* The sizes a call works with.  One that is about to record a size has the lock.
Recording(t) == pc[t] \in Committing /\ reg[t].size # NoSize

Sized(t) ==
    /\ pc[t] \in {"w_put", "w_commit"} => reg[t].to <= memSize[reg[t].c]
    /\ pc[t] = "w_store" => memSize[reg[t].c] <= reg[t].to
    /\ pc[t] = "w_store" => \A u \in Thread \ {t} : pc[u] # "w_store"
    /\ Recording(t) => inoLock = t
    /\ Recording(t) => db.size <= reg[t].size /\ reg[t].size <= memSize[reg[t].c]
    /\ pc[t] = "t_commit" => reg[t].size = memSize[reg[t].c]
    /\ pc[t] \in {"w_ext", "w_store", "w_put"} => reg[t].size = NoSize
    /\ pc[t] = "w_commit" /\ reg[t].size = NoSize => dirty[reg[t].h]
    /\ pc[t] = "w_commit" /\ reg[t].size # NoSize => reg[t].to <= reg[t].size

\* What a sync has to make durable is inside the size it records or finds.
Covered(t) ==
    /\ pc[t] \in InSync => reg[t].goal \subseteq through[reg[t].h]
    /\ pc[t] = "f_commit" => \A e \in reg[t].goal : e < SizeAfter(reg[t])
    /\ pc[t] = "f_flush" => \A e \in reg[t].goal : e < db.size

\* What was written through a file is there, and inside the recorded size unless
\* the file is dirty or a call on it is about to record the size.
Records(h, e) ==
    \E t \in Thread : /\ Recording(t) /\ pc[t] # "p_commit"
                      /\ reg[t].h = h /\ e < reg[t].size

Kept(h) ==
    /\ copyOf[h] = NoCopy => through[h] = {}
    /\ \A e \in through[h] : db.data[e] # 0
    /\ \A e \in through[h] : dirty[h] \/ e < db.size \/ Records(h, e)

Durable ==
    /\ \A t \in Thread : Served(t)
    /\ \A t \in Thread : Sized(t)
    /\ \A t \in Thread : Covered(t)
    /\ \A c \in Copy : Loaded(c)
    /\ \A h \in Handle : Kept(h)
    /\ FsyncDurable

Known == Inv /\ Alone /\ Batches /\ Durable

\* Sizes and extents are integers.
LEMMA Numbers ==
    ASSUME Typed
    PROVE  /\ db.size \in Int /\ \A c \in Copy : memSize[c] \in Int /\ 0 <= memSize[c]
           /\ \A t \in Thread : reg[t].size \in Int /\ reg[t].from \in Int /\ reg[t].to \in Int
           /\ \A t \in Thread : reg[t].goal \subseteq Ext
           /\ \A h \in Handle : through[h] \subseteq Ext
           /\ Ext \subseteq Int
<1>1. db.size \in Int
  BY Bounds DEF Typed, DbTyped, Database
<1>2. \A c \in Copy : memSize[c] \in Int /\ 0 <= memSize[c]
  BY Bounds DEF Typed, InodesTyped
<1>3. \A t \in Thread : /\ reg[t].size \in Int /\ reg[t].from \in Int /\ reg[t].to \in Int
                        /\ reg[t].goal \subseteq Ext
  BY Bounds DEF Typed, CallsTyped, Register
<1>4. \A h \in Handle : through[h] \subseteq Ext
  BY DEF Typed, FilesTyped
<1>5. Ext \subseteq Int
  BY Bounds DEF Ext
<1> QED  BY <1>1, <1>2, <1>3, <1>4, <1>5

\* The order of sizes, in lemmas for steps that speak of much else as well: a size
\* is at most itself.
LEMMA Itself == \A n \in Int : n <= n
OBVIOUS

\* What is below one size is below every larger one.
LEMMA Below == \A k, m, n \in Int : k < m /\ m <= n => k < n
OBVIOUS

\* The order is transitive.
LEMMA AtMost == \A k, m, n \in Int : k <= m /\ m <= n => k <= n
OBVIOUS

\* The comparison of vn_write, offset + len > i_size, either way.
LEMMA Larger == \A m, n \in Int : IF m > n THEN n <= m ELSE m <= n
OBVIOUS

\* Kinds of calls.
LEMMA Kinds ==
    ASSUME Typed, NEW t \in Thread, pc[t] # "idle"
    PROVE  /\ reg[t].c \in Copy
           /\ pc[t] \in OnFile => reg[t].h \in Handle
           /\ pc[t] \in OnFile \/ reg[t].mode \in {"own", "shared"}
<1>1. LocalsOK(pc[t], reg[t]) /\ pc[t] \in PC
  BY DEF Typed, CallsTyped
<1> QED  BY <1>1 DEF LocalsOK, PC, OnFile, InWrite, InSync, InTrunc, InPersist

\* A call in progress or an open file refers to its inode.
LEMMA Referenced ==
    ASSUME Inv, Durable
    PROVE  /\ \A t \in Thread : pc[t] # "idle" => reg[t].c \in Copy /\ refCnt[reg[t].c] # 0
           /\ \A h \in Handle : copyOf[h] # NoCopy => copyOf[h] \in Copy /\ refCnt[copyOf[h]] # 0
           /\ \A c \in held : c \in Copy /\ refCnt[c] # 0
<1>0. Typed /\ RefsCounted /\ held \subseteq Copy /\ copyOf \in [Handle -> Copy \cup {NoCopy}]
  BY DEF Inv, Typed, InodesTyped, FilesTyped
<1>1. ASSUME NEW h \in Handle, copyOf[h] # NoCopy
      PROVE  copyOf[h] \in Copy /\ refCnt[copyOf[h]] # 0
  <2>1. copyOf[h] \in Copy /\ h \in Files(copyOf[h])
    BY <1>0, <1>1 DEF Files
  <2> QED  BY <1>0, <2>1, Unreferenced
<1>2. ASSUME NEW c \in held PROVE c \in Copy /\ refCnt[c] # 0
  BY <1>0, <1>2, Unreferenced DEF Holder
<1>3. ASSUME NEW t \in Thread, pc[t] # "idle" PROVE reg[t].c \in Copy /\ refCnt[reg[t].c] # 0
  <2>0. reg[t].c \in Copy /\ NoCopy \notin Copy
    BY <1>0, <1>3, Kinds, ConstantsAssumption
  <2>1. CASE pc[t] \in OnFile
    <3>1. copyOf[reg[t].h] = reg[t].c /\ reg[t].h \in Handle
      BY <1>0, <1>3, <2>1, Kinds DEF Durable, Served
    <3> QED  BY <1>1, <2>0, <3>1
  <2>2. CASE reg[t].mode = "shared"
    BY <1>2, <1>3, <2>2 DEF Durable, Served
  <2>3. CASE reg[t].mode = "own"
    <3>1. t \in Owners(reg[t].c)
      BY <2>3 DEF Owners
    <3> QED  BY <1>0, <2>0, <3>1, Unreferenced
  <2> QED  BY <1>0, <1>3, <2>1, <2>2, <2>3, Kinds
<1> QED  BY <1>1, <1>2, <1>3

\* When the inode is not in memory, no file is open and no call in progress.
LEMMA Unloaded ==
    ASSUME Sound, Inv, Durable, NEW c \in Copy, refCnt[c] = 0
    PROVE  /\ \A t \in Thread : pc[t] = "idle"
           /\ \A h \in Handle : copyOf[h] = NoCopy /\ through[h] = {}
<1>1. \A d \in Copy : refCnt[d] = 0
  BY DEF Sound
<1>2. \A t \in Thread : pc[t] = "idle"
  BY <1>1, Referenced
<1>3. \A h \in Handle : copyOf[h] = NoCopy
  BY <1>1, Referenced
<1> QED  BY <1>2, <1>3 DEF Durable, Kept

\* The inode of a call that is no truncation covers the record and the files.
LEMMA InMemory ==
    ASSUME Inv, Alone, Durable, NEW t \in Thread, pc[t] # "idle",
           pc[t] \notin {"t_put", "t_commit"}
    PROVE  /\ reg[t].c \in Copy /\ ~Shrinking
           /\ db.size <= memSize[reg[t].c]
           /\ \A h \in Handle : \A e \in through[h] : e < memSize[reg[t].c]
<1>1. ~Shrinking
  BY DEF Alone, Shrinking, InTrunc
<1> QED  BY <1>1, Referenced DEF Durable, Loaded

\* At most one call is about to record a size.
LEMMA OneRecorder ==
    ASSUME Durable, NEW t \in Thread, Recording(t) \/ Free(inoLock, t),
           NEW u \in Thread \ {t}
    PROVE  ~Recording(u)
  BY ConstantsAssumption DEF Durable, Sized, Free

\* The locals the invariant speaks of.
SameView(q, r) ==
    /\ q.h = r.h /\ q.c = r.c /\ q.to = r.to
    /\ q.size = r.size /\ q.goal = r.goal /\ q.mode = r.mode

\* Steps that only mark files dirty or advance in a range of extents.
LEMMA DurableView ==
    ASSUME Durable,
           UNCHANGED <<db, recoverable, synced, memSize, refCnt, held, copyOf,
                       through, inoLock, pc>>,
           \A h \in Handle : dirty[h] => dirty'[h],
           \A u \in Thread : SameView(reg'[u], reg[u]),
           \A u \in Thread : pc[u] = "w_commit" => reg[u].h \in Handle
    PROVE  Durable'
<1> USE DEF SameView
<1>1. \A t \in Thread : Recording(t)' = Recording(t)
  BY DEF Recording
<1>2. \A t \in Thread : Served(t)'
  BY DEF Durable, Served
<1>3. \A t \in Thread : Sized(t)'
  BY <1>1 DEF Durable, Sized
<1>4. \A t \in Thread : Covered(t)'
  BY DEF Durable, Covered, SizeAfter
<1>5. \A c \in Copy : Loaded(c)'
  BY DEF Durable, Loaded, Shrinking
<1>6. \A h \in Handle : Kept(h)'
  BY <1>1 DEF Durable, Kept, Records
<1>7. FsyncDurable'
  BY DEF Durable, FsyncDurable
<1> QED  BY <1>2, <1>3, <1>4, <1>5, <1>6, <1>7 DEF Durable

\* When no call is in progress only the files and the inode matter.
LEMMA DurableIdle ==
    ASSUME \A t \in Thread : pc'[t] = "idle",
           \A c \in Copy : Loaded(c)', \A h \in Handle : Kept(h)', FsyncDurable'
    PROVE  Durable'
<1>1. \A t \in Thread : Served(t)' /\ Sized(t)' /\ Covered(t)'
  BY DEF Served, Sized, Covered, Recording, OnFile, InWrite, InSync, Committing
<1> QED  BY <1>1 DEF Durable

\* vn_lookup_inode_no, and vn_open_file, of a file that is not in memory.
LEMMA DurableLoad ==
    ASSUME Sound, Inv, Durable, NEW c \in Copy, refCnt[c] = 0,
           memSize' = [memSize EXCEPT ![c] = db.size], UNCHANGED <<db, recoverable, synced, pc>>,
           \A h \in Handle : through'[h] = {}
    PROVE  Durable'
<1>0. Typed /\ memSize \in [Copy -> 0 .. MaxExt]
  BY DEF Inv, Typed, InodesTyped
<1>1. \A t \in Thread : pc'[t] = "idle"
  BY Unloaded
<1>2. \A d \in Copy : memSize'[d] = db.size
  BY <1>0 DEF Sound
<1>3. \A d \in Copy : Loaded(d)'
  BY <1>0, <1>2, Numbers DEF Loaded
<1>4. \A h \in Handle : Kept(h)'
  BY DEF Kept
<1>5. FsyncDurable'
  BY DEF Durable, FsyncDurable
<1> QED  BY <1>1, <1>3, <1>4, <1>5, DurableIdle

\* The references of callers.
LEMMA DurableMemory ==
    ASSUME Sound, Inv, Durable, NEW c \in Copy, Lookup(c) \/ Release(c)
    PROVE  Durable'
<1>0. Typed /\ refCnt \in [Copy -> Int]
  BY DEF Inv, Typed, InodesTyped
<1>1. CASE Lookup(c)
  <2>1. \A h \in Handle : through'[h] = {}
    BY <1>1, Unloaded DEF Lookup, files
  <2> QED  BY <1>1, <2>1, DurableLoad, Zenon DEF Lookup, db_, history
<1>2. CASE Release(c)
  <2>1. UNCHANGED <<db, recoverable, synced, memSize, copyOf, through, dirty, inoLock, pc, reg>>
    BY <1>2 DEF Release, db_, files, locks, history
  <2>2. \A t \in Thread : Served(t)'
    BY <1>2, <2>1 DEF Release, Durable, Served
  <2>3. \A t \in Thread : Sized(t)'
    BY <2>1 DEF Durable, Sized, Recording
  <2>4. \A t \in Thread : Covered(t)'
    BY <2>1, Zenon DEF Durable, Covered, SizeAfter
  <2>5. \A d \in Copy : Loaded(d)'
    <3>1. refCnt[c] # 0
      BY <1>2, Referenced DEF Release
    <3>2. \A d \in Copy : Loaded(d) /\ d = c
      BY DEF Durable, Sound
    <3> QED  BY <2>1, <3>1, <3>2 DEF Loaded, Shrinking
  <2>6. \A h \in Handle : Kept(h)'
    BY <2>1 DEF Durable, Kept, Records, Recording
  <2>7. FsyncDurable'
    BY <2>1 DEF Durable, FsyncDurable
  <2> QED  BY <2>2, <2>3, <2>4, <2>5, <2>6, <2>7 DEF Durable
<1> QED  BY <1>1, <1>2

\* A file is opened without O_TRUNC.
LEMMA DurableOpen ==
    ASSUME Sound, Inv, Durable, NEW t \in Thread, NEW h \in Handle, NEW c \in Copy,
           OpenByInode(t, h, c) \/ Open(t, h, c)
    PROVE  Durable'
<1>0. /\ Typed /\ refCnt \in [Copy -> Int] /\ through \in [Handle -> SUBSET Ext]
      /\ copyOf \in [Handle -> Copy \cup {NoCopy}] /\ dirty \in [Handle -> BOOLEAN]
      /\ NoCopy \notin Copy
  BY ConstantsAssumption DEF Inv, Typed, InodesTyped, FilesTyped
<1>1. CASE Open(t, h, c)
  <2>1. \A g \in Handle : through'[g] = {}
    BY <1>0, <1>1, Unloaded DEF Open, Opened
  <2> QED  BY <1>1, <2>1, DurableLoad, Zenon DEF Open, db_, history
<1>2. CASE OpenByInode(t, h, c)
  <2>1. UNCHANGED <<db, recoverable, synced, memSize, held, inoLock, pc, reg>>
    BY <1>2 DEF OpenByInode, db_, locks, history
  <2>2. /\ copyOf[h] = NoCopy /\ c \in held
        /\ \A u \in Thread : pc[u] # "idle" => reg[u].h # h
    BY <1>2 DEF OpenByInode, Closed, Busy
  <2>3. /\ copyOf' = [copyOf EXCEPT ![h] = c] /\ dirty' = [dirty EXCEPT ![h] = FALSE]
        /\ through' = [through EXCEPT ![h] = {}]
    BY <1>2 DEF OpenByInode, Opened
  <2>4. /\ copyOf'[h] = c /\ through'[h] = {}
        /\ \A g \in Handle \ {h} : /\ copyOf'[g] = copyOf[g] /\ through'[g] = through[g]
                                   /\ dirty'[g] = dirty[g]
    BY <1>0, <2>3
  <2>5. \A u \in Thread : pc[u] \in OnFile => reg[u].h \in Handle \ {h}
    BY <1>0, <2>2, Kinds DEF OnFile, InWrite, InSync
  <2>6. \A u \in Thread : Served(u)'
    BY <2>1, <2>4, <2>5 DEF Durable, Served
  <2>7. \A u \in Thread : Sized(u)'
    BY <2>1, <2>4, <2>5, Zenon DEF Durable, Sized, Recording, OnFile, InWrite
  <2>8. \A u \in Thread : Covered(u)'
    BY <2>1, <2>4, <2>5, Zenon DEF Durable, Covered, SizeAfter, OnFile
  <2>9. \A d \in Copy : Loaded(d)'
    <3>1. refCnt[c] # 0
      BY <2>2, Referenced
    <3>2. \A d \in Copy : Loaded(d) /\ d = c
      BY DEF Durable, Sound
    <3> QED  BY <2>1, <2>4, <3>1, <3>2, Zenon DEF Loaded, Shrinking
  <2>10. \A g \in Handle : Kept(g)'
    <3>1. \A g \in Handle, e \in Ext : Records(g, e)' = Records(g, e)
      BY <2>1 DEF Records, Recording
    <3>2. ASSUME NEW g \in Handle \ {h} PROVE Kept(g)'
      BY <1>0, <2>1, <2>4, <3>1 DEF Durable, Kept
    <3>3. Kept(h)'
      BY <2>4 DEF Kept
    <3> QED  BY <3>2, <3>3
  <2>11. FsyncDurable'
    BY <2>1, Zenon DEF Durable, FsyncDurable
  <2> QED  BY <2>6, <2>7, <2>8, <2>9, <2>10, <2>11 DEF Durable
<1> QED  BY <1>1, <1>2

\* A call begins.
LEMMA DurableBegins ==
    ASSUME Inv, Durable, NEW t \in Thread, pc[t] = "idle", NEW l, NEW r,
           Goto(t, l), Set(t, r),
           UNCHANGED <<db, recoverable, synced, memSize, refCnt, held, copyOf,
                       through, dirty, inoLock>>,
           l \in {"p_put", "t_get", "w_ext", "f_put", "f_commit"}, r.size = NoSize,
           l \in OnFile => copyOf[r.h] = r.c /\ r.h \in Handle /\ ~Busy(r.h),
           r.mode = "shared" => r.c \in held,
           l \in InSync => r.goal \subseteq through[r.h],
           l = "f_commit" => \A e \in r.goal : e < db.size
    PROVE  Durable'
<1>0. /\ Typed /\ pc \in [Thread -> PC] /\ reg \in [Thread -> Register]
      /\ through \in [Handle -> SUBSET Ext]
  BY Zenon DEF Inv, Typed, CallsTyped, FilesTyped
<1>1. pc'[t] = l /\ reg'[t] = r /\ \A u \in Thread \ {t} : pc'[u] = pc[u] /\ reg'[u] = reg[u]
  BY <1>0 DEF Goto, Set
<1>2. \A u \in Thread : Recording(u)' = Recording(u)
  BY <1>1, Zenon DEF Recording, Committing
<1>3. \A u \in Thread : Served(u)'
  <2>1. \A u \in Thread \ {t} : l \in OnFile /\ pc[u] \in OnFile => reg[u].h # r.h
    BY Zenon DEF Busy, OnFile, InWrite, InSync
  <2>2. Served(t)'
    BY <1>1, <2>1, Zenon DEF Served
  <2>3. ASSUME NEW u \in Thread \ {t} PROVE Served(u)'
    <3>1. Served(u)
      BY Zenon DEF Durable
    <3> QED  BY <1>1, <2>1, <3>1 DEF Served
  <2> QED  BY <2>2, <2>3, Zenon
<1>4. \A u \in Thread : Sized(u)'
  <2>1. Sized(t)'
    BY <1>1, <1>2, Zenon DEF Sized, Recording, Committing
  <2>2. ASSUME NEW u \in Thread \ {t} PROVE Sized(u)'
    <3>1. Sized(u)
      BY Zenon DEF Durable
    <3> QED  BY <1>1, <1>2, <3>1, Zenon DEF Sized
  <2> QED  BY <2>1, <2>2
<1>5. \A u \in Thread : Covered(u)'
  <2>1. Covered(t)'
    BY <1>1, Zenon DEF Covered, SizeAfter
  <2>2. ASSUME NEW u \in Thread \ {t} PROVE Covered(u)'
    <3>1. Covered(u)
      BY DEF Durable
    <3> QED  BY <1>1, <3>1, Zenon DEF Covered, SizeAfter
  <2> QED  BY <2>1, <2>2
<1>6. \A c \in Copy : Loaded(c)'
  BY <1>1, Zenon DEF Durable, Loaded, Shrinking
<1>7. \A h \in Handle : Kept(h)'
  <2>1. \A h \in Handle, e \in Ext : Records(h, e) => Records(h, e)'
    BY <1>1, <1>2, Zenon DEF Records, Recording, Committing
  <2> QED  BY <1>0, <2>1, Zenon DEF Durable, Kept
<1>8. FsyncDurable'
  BY Zenon DEF Durable, FsyncDurable
<1> QED  BY <1>3, <1>4, <1>5, <1>6, <1>7, <1>8, Zenon DEF Durable

\* vn_persist_inode, vn_write, vn_writev and vn_fsync begin.
LEMMA DurableCallBegins ==
    ASSUME Sound, Inv, Alone, Durable, NEW t \in Thread,
           \/ \E c \in Copy : PersistBegin(t, c)
           \/ \E h \in Handle, from, to \in 0 .. MaxExt : WriteBegin(t, h, from, to)
           \/ \E h \in Handle, mode \in {"sync", "close"} : SyncBegin(t, h, mode)
    PROVE  Durable'
<1>0. Typed
  BY DEF Inv
<1>1. ASSUME NEW c \in Copy, PersistBegin(t, c) PROVE Durable'
  <2> DEFINE r == Locals(NoHandle, c, 0, 0, {}, "shared")
  <2>1. r.size = NoSize /\ r.c = c /\ "p_put" \notin OnFile /\ "p_put" \notin InSync
    BY DEF Locals, OnFile, InWrite, InSync
  <2>2. /\ pc[t] = "idle" /\ Goto(t, "p_put") /\ Set(t, r) /\ c \in held
        /\ UNCHANGED <<db_, inodes, files, locks, history>>
    BY <1>1 DEF PersistBegin, Idle
  <2> HIDE DEF r
  <2> QED  BY <2>1, <2>2, DurableBegins, Zenon DEF db_, inodes, files, locks, history
<1>2. ASSUME NEW h \in Handle, NEW from \in 0 .. MaxExt, NEW to \in 0 .. MaxExt,
             WriteBegin(t, h, from, to)
      PROVE  Durable'
  <2> DEFINE r == Locals(h, copyOf[h], from, to, {}, "none")
  <2>1. r.size = NoSize /\ r.c = copyOf[h] /\ r.h = h /\ r.mode = "none" /\ "w_ext" \notin InSync
    BY DEF Locals, InSync
  <2>2. /\ pc[t] = "idle" /\ Goto(t, "w_ext") /\ Set(t, r) /\ ~Busy(h)
        /\ UNCHANGED <<db_, inodes, files, locks, history>>
    BY <1>2 DEF WriteBegin, MayCall, Idle, Sound
  <2> HIDE DEF r
  <2> QED  BY <2>1, <2>2, DurableBegins DEF db_, inodes, files, locks, history
<1>3. ASSUME NEW h \in Handle, NEW mode \in {"sync", "close"}, SyncBegin(t, h, mode)
      PROVE  Durable'
  <2> DEFINE r == Locals(h, copyOf[h], 0, 0, through[h], mode)
             l == IF dirty[h] THEN "f_put" ELSE "f_commit"
  <2>1. r.size = NoSize /\ r.c = copyOf[h] /\ r.h = h /\ r.mode = mode /\ r.goal = through[h]
    BY DEF Locals
  <2>2. /\ pc[t] = "idle" /\ Goto(t, l) /\ Set(t, r) /\ ~Busy(h)
        /\ UNCHANGED <<db_, inodes, files, locks, history>>
    BY <1>3, Zenon DEF SyncBegin, MayCall, Idle, Sound
  <2>3. l = "f_commit" => \A e \in through[h] : e < db.size
    <3>1. \A e \in through[h] : ~Records(h, e)
      BY <2>2, Zenon DEF Records, Recording, Committing, Busy
    <3> QED  BY <3>1, Zenon DEF Durable, Kept
  <2>4. l \in {"f_put", "f_commit"}
    OBVIOUS
  <2> HIDE DEF r, l
  <2> QED  BY <2>1, <2>2, <2>3, <2>4, DurableBegins DEF db_, inodes, files, locks, history
<1> QED  BY <1>1, <1>2, <1>3

\* _vn_persist_inode: the lock, and the size in memory into the transaction.  It
\* covers all that was written, so the file need not stay dirty.
LEMMA DurablePut ==
    ASSUME Sound, Inv, Alone, Durable, NEW t \in Thread,
           PersistPut(t) \/ WritePutInode(t) \/ SyncPutInode(t)
    PROVE  Durable'
<1> DEFINE r == reg[t]
           s == memSize[r.c]
<1>0. /\ Typed /\ pc \in [Thread -> PC] /\ reg \in [Thread -> Register] /\ r \in Register
      /\ through \in [Handle -> SUBSET Ext] /\ dirty \in [Handle -> BOOLEAN]
  BY DEF Inv, Typed, CallsTyped, FilesTyped
<1>1. /\ UNCHANGED <<db, recoverable, synced, memSize, refCnt, held, copyOf, through>>
      /\ inoLock' = t /\ Free(inoLock, t)
  BY DEF PersistPut, WritePutInode, SyncPutInode, db_, inodes, files, history
<1>2. \/ pc[t] = "p_put" /\ pc'[t] = "p_commit" /\ dirty' = dirty
      \/ pc[t] = "w_put" /\ pc'[t] = "w_commit" /\ dirty' = [dirty EXCEPT ![r.h] = FALSE]
      \/ pc[t] = "f_put" /\ pc'[t] = "f_commit" /\ dirty' = [dirty EXCEPT ![r.h] = FALSE]
  BY <1>0 DEF PersistPut, WritePutInode, SyncPutInode, Goto, files
<1>3. /\ reg'[t].h = r.h /\ reg'[t].c = r.c /\ reg'[t].to = r.to /\ reg'[t].size = s
      /\ reg'[t].goal = r.goal /\ reg'[t].mode = r.mode
  <2>1. reg'[t] = [reg[t] EXCEPT !.size = memSize[reg[t].c]]
    BY <1>0 DEF PersistPut, WritePutInode, SyncPutInode, Set
  <2> QED  BY <1>0, <2>1 DEF Register
<1>4. \A u \in Thread \ {t} : pc'[u] = pc[u] /\ reg'[u] = reg[u]
  BY <1>0, OtherThreads DEF Step, PersistInode, Write, Sync
<1>5. /\ r.c \in Copy /\ ~Shrinking /\ db.size <= s
      /\ \A h \in Handle : \A e \in through[h] : e < s
  BY <1>2, InMemory
<1>6. s \in Int /\ s # NoSize /\ db.size \in Int
  BY <1>0, <1>5, Numbers DEF NoSize
<1>7. \A u \in Thread \ {t} : ~Recording(u) /\ ~Recording(u)'
  BY <1>1, <1>4, OneRecorder DEF Recording
<1>8. \A u \in Thread \ {t} : pc[u] = "w_commit" => dirty'[reg[u].h] = dirty[reg[u].h]
  <2>1. ASSUME NEW u \in Thread \ {t}, pc[u] = "w_commit", pc[t] \in {"w_put", "f_put"}
        PROVE  reg[u].h # r.h
    BY <2>1 DEF Durable, Served, OnFile, InWrite, InSync
  <2>2. \A u \in Thread : pc[u] = "w_commit" => reg[u].h \in Handle
    BY <1>0, Kinds DEF OnFile, InWrite
  <2> QED  BY <1>0, <1>2, <2>1, <2>2
<1> HIDE DEF s, r
<1>9. \A u \in Thread : Served(u)'
  <2>1. \A u \in Thread : /\ reg'[u].h = reg[u].h /\ reg'[u].c = reg[u].c
                          /\ reg'[u].mode = reg[u].mode
                          /\ (pc'[u] \in OnFile <=> pc[u] \in OnFile)
                          /\ pc'[u] # "idle" => pc[u] # "idle"
    BY <1>2, <1>3, <1>4, Zenon DEF r, OnFile, InWrite, InSync
  <2> QED  BY <1>1, <2>1 DEF Durable, Served
<1>10. Sized(t)'
  <2>1. pc[t] = "w_put" => r.to <= s
    BY Zenon DEF Durable, Sized, r, s
  <2>2. memSize'[reg'[t].c] = s /\ s <= s /\ db'.size <= s
    BY <1>1, <1>3, <1>5, <1>6, Itself, Zenon DEF s
  <2> QED  BY <1>1, <1>2, <1>3, <1>6, <2>1, <2>2, Zenon DEF Sized, Recording
<1>11. ASSUME NEW u \in Thread \ {t} PROVE Sized(u)'
  <2>1. Sized(u)
    BY DEF Durable
  <2> QED  BY <1>1, <1>2, <1>4, <1>7, <1>8, <2>1, Zenon DEF Sized
<1>12. Covered(t)'
  <2>1. pc[t] = "f_put" => r.goal \subseteq through[r.h] /\ r.h \in Handle
    BY <1>0, Kinds, Zenon DEF Durable, Covered, r, InSync, OnFile
  <2>2. SizeAfter(reg[t])' = s
    BY <1>3, <1>6, Zenon DEF SizeAfter
  <2> QED  BY <1>1, <1>2, <1>3, <1>5, <2>1, <2>2, Zenon DEF Covered, InSync
<1>13. ASSUME NEW u \in Thread \ {t} PROVE Covered(u)'
  <2>1. Covered(u)
    BY DEF Durable
  <2> QED  BY <1>1, <1>4, <2>1, Zenon DEF Covered, SizeAfter
<1>14. \A c \in Copy : Loaded(c)'
  BY <1>1, <1>5, Zenon DEF Sound, Loaded, s
<1>15. ASSUME NEW h \in Handle PROVE Kept(h)'
  <2>1. Kept(h)
    BY DEF Durable
  <2>2. ASSUME NEW e \in through[h] PROVE dirty'[h] \/ e < db.size \/ Records(h, e)'
    <3>1. ~Records(h, e)
      BY <1>2, <1>7, Zenon DEF Records, Recording, Committing
    <3>2. CASE dirty'[h] = dirty[h]
      BY <2>1, <3>1, <3>2, Zenon DEF Kept
    <3>3. CASE pc[t] \in {"w_put", "f_put"} /\ h = r.h
      BY <1>2, <1>3, <1>5, <1>6, <3>3, Zenon DEF Records, Recording, Committing
    <3> QED  BY <1>0, <1>2, <3>2, <3>3
  <2> QED  BY <1>1, <2>1, <2>2, Zenon DEF Kept
<1>16. FsyncDurable'
  BY <1>1, Zenon DEF Durable, FsyncDurable
<1> QED  BY <1>9, <1>10, <1>11, <1>12, <1>13, <1>14, <1>15, <1>16 DEF Durable

\* A commit that is not synced: the record keeps up with the size in memory, and
\* what is added to a file is there and inside of either.
LEMMA DurableCommit ==
    ASSUME Sound, Inv, Alone, Durable, Typed', NEW t \in Thread, pc[t] \in Committing,
           NEW d \in [Ext -> Int], CommitNoSync(Stored(d, SizeAfter(reg[t]))),
           UNCHANGED <<synced, memSize, refCnt, held, copyOf, dirty>>, Unlocked(t),
           \A u \in Thread \ {t} : pc'[u] = pc[u] /\ reg'[u] = reg[u],
           \/ pc'[t] = "idle"
           \/ pc[t] = "f_commit" /\ pc'[t] = "f_flush" /\ reg' = reg,
           \A e \in Ext : db.data[e] # 0 => d[e] # 0,
           \A h \in Handle : through[h] \subseteq through'[h],
           \A h \in Handle : \A e \in through'[h] \ through[h] :
               /\ h = reg[t].h /\ copyOf[h] # NoCopy /\ d[e] # 0
               /\ e < memSize[reg[t].c] /\ (dirty[h] \/ e < SizeAfter(reg[t]))
    PROVE  Durable'
<1> DEFINE s == SizeAfter(reg[t])
<1>0. /\ Typed /\ db \in recoverable /\ recoverable \subseteq Database /\ synced \subseteq Ext
      /\ through' \in [Handle -> SUBSET Ext] /\ NoThread \notin Thread
  BY ConstantsAssumption, Zenon DEF Inv, Typed, DbTyped, HistoryTyped, FilesTyped
<1>1. db'.data = d /\ db'.size = s /\ recoverable' = recoverable \cup {db'}
  BY Zenon DEF CommitNoSync, Stored
<1>2. /\ reg[t].c \in Copy /\ ~Shrinking /\ db.size <= memSize[reg[t].c]
      /\ \A h \in Handle : \A e \in through[h] : e < memSize[reg[t].c]
  BY InMemory, Zenon DEF Committing
<1>3. /\ s \in Int /\ db.size \in Int /\ memSize[reg[t].c] \in Int /\ Ext \subseteq Int
      /\ s <= memSize[reg[t].c] /\ db.size <= s
      /\ ~Recording(t) => s = db.size
      /\ Recording(t) => s = reg[t].size /\ inoLock = t
  <2>1. Sized(t)
    BY Zenon DEF Durable
  <2>2. /\ db.size \in Int /\ memSize[reg[t].c] \in Int /\ Ext \subseteq Int
        /\ reg[t].size \in Int
    BY <1>0, <1>2, Numbers, Zenon
  <2>3. CASE reg[t].size = NoSize
    <3>1. s = db.size /\ ~Recording(t)
      BY <2>3, Zenon DEF SizeAfter, Recording
    <3> HIDE DEF s
    <3> QED  BY <1>2, <2>2, <3>1, Itself, Zenon
  <2>4. CASE reg[t].size # NoSize
    <3>1. Recording(t) /\ s = reg[t].size
      BY <2>4, Zenon DEF SizeAfter, Recording
    <3> QED  BY <2>1, <2>2, <3>1, Zenon DEF Sized
  <2> QED  BY <2>3, <2>4, Zenon
<1> HIDE DEF s
<1>a. ASSUME NEW e \in Int, e < db.size PROVE e < s
  BY <1>3, <1>a, Below, Zenon
<1>4. \A u \in Thread \ {t} : Recording(t) => ~Recording(u)
  BY OneRecorder, Zenon
<1>5. ~Recording(t)' /\ \A u \in Thread \ {t} : Recording(u)' = Recording(u)
  BY Zenon DEF Recording, Committing
<1>6. \A u \in Thread : Served(u)'
  <2>1. \A u \in Thread : pc'[u] \in OnFile => pc[u] \in OnFile /\ pc'[u] # "idle"
    BY Zenon DEF OnFile, InWrite, InSync
  <2>2. \A u \in Thread : pc'[u] # "idle" => pc[u] # "idle" /\ reg'[u] = reg[u]
    BY Zenon DEF Committing
  <2>3. (\A u \in Thread : Served(u)) /\ copyOf' = copyOf /\ held' = held
    BY Zenon DEF Durable
  <2>4. ASSUME NEW u \in Thread, pc'[u] \in OnFile PROVE copyOf'[reg'[u].h] = reg'[u].c
    BY <2>1, <2>2, <2>3, <2>4, Zenon DEF Served
  <2>5. ASSUME NEW u \in Thread, NEW v \in Thread \ {u}, pc'[u] \in OnFile, pc'[v] \in OnFile
        PROVE  reg'[v].h # reg'[u].h
    <3>1. reg[v].h # reg[u].h
      BY <2>1, <2>3, <2>5, Zenon DEF Served
    <3> QED  BY <2>1, <2>2, <2>5, <3>1, Zenon
  <2>6. ASSUME NEW u \in Thread, pc'[u] # "idle", reg'[u].mode = "shared"
        PROVE  reg'[u].c \in held'
    BY <2>2, <2>3, <2>6, Zenon DEF Served
  <2> QED  BY <2>4, <2>5, <2>6, Zenon DEF Served
<1>7. \A u \in Thread : Sized(u)'
  <2>1. Sized(t)'
    BY <1>5, Zenon DEF Sized
  <2>2. ASSUME NEW u \in Thread \ {t} PROVE Sized(u)'
    <3>1. Sized(u)
      BY Zenon DEF Durable
    <3>2. inoLock = u => inoLock' = u
      BY Zenon DEF Unlocked
    <3>3. Recording(u)' => db'.size = db.size
      BY <1>1, <1>3, <1>4, <1>5, Zenon
    <3>4. pc'[t] # "w_store"
      BY Zenon
    <3> QED  BY <1>5, <3>1, <3>2, <3>3, <3>4, Zenon DEF Sized
  <2> QED  BY <2>1, <2>2, Zenon
<1>8. \A u \in Thread : Covered(u)'
  <2>0. \A u \in Thread : Covered(u) /\ reg[u].goal \subseteq Ext
    BY <1>0, Numbers, Zenon DEF Durable
  <2>1. Covered(t)'
    <3>1. CASE pc'[t] = "idle"
      BY <3>1, Zenon DEF Covered, InSync
    <3>2. CASE pc[t] = "f_commit" /\ pc'[t] = "f_flush" /\ reg' = reg
      <4>1. reg[t].h \in Handle
        BY <1>0, <3>2, Kinds, Zenon DEF OnFile, InSync
      <4> QED  BY <1>1, <2>0, <3>2, <4>1, Zenon DEF Covered, InSync, s
    <3> QED  BY <3>1, <3>2, Zenon
  <2>2. ASSUME NEW u \in Thread \ {t} PROVE Covered(u)'
    <3>1. pc[u] \in InSync => reg[u].h \in Handle
      BY <1>0, Kinds, Zenon DEF OnFile, InSync
    <3>2. \A e \in reg[u].goal : e \in Int
      BY <1>3, <2>0, Zenon
    <3>3. \A e \in reg[u].goal : e < db.size => e < s
      BY <1>a, <3>2, Zenon
    <3> QED  BY <1>1, <2>0, <3>1, <3>3, Zenon DEF Covered, SizeAfter, InSync
  <2> QED  BY <2>1, <2>2, Zenon
<1>9. \A c \in Copy : Loaded(c)'
  <2>1. \A h \in Handle : \A e \in through'[h] : e < memSize[reg[t].c]
    BY <1>2, Zenon
  <2> QED  BY <1>1, <1>2, <1>3, <2>1, Zenon DEF Sound, Loaded
<1>10. ASSUME NEW h \in Handle PROVE Kept(h)'
  <2>1. Kept(h) /\ through'[h] \subseteq Ext
    BY <1>0, Zenon DEF Durable
  <2>2. copyOf'[h] = NoCopy => through'[h] = {}
    BY <2>1, Zenon DEF Kept
  <2>3. \A e \in through'[h] : db'.data[e] # 0
    BY <1>1, <2>1, Zenon DEF Kept
  <2>4. ASSUME NEW e \in through[h], Records(h, e) PROVE e < s \/ Records(h, e)'
    <3>1. PICK u \in Thread : /\ Recording(u) /\ pc[u] # "p_commit"
                              /\ reg[u].h = h /\ e < reg[u].size
      BY <2>4, Zenon DEF Records
    <3>2. CASE u = t
      BY <1>3, <3>1, <3>2, Zenon
    <3>3. CASE u # t
      BY <1>5, <3>1, <3>3, Zenon DEF Records
    <3> QED  BY <3>2, <3>3, Zenon
  <2>5. ASSUME NEW e \in through'[h] PROVE dirty'[h] \/ e < s \/ Records(h, e)'
    <3>1. e \in Int
      BY <1>3, <2>1, Zenon
    <3>2. CASE e \in through[h]
      BY <1>a, <2>1, <2>4, <3>1, <3>2, Zenon DEF Kept
    <3>3. CASE e \notin through[h]
      BY <3>3, Zenon DEF s
    <3> QED  BY <3>2, <3>3, Zenon
  <2> QED  BY <1>1, <2>2, <2>3, <2>5, Zenon DEF Kept
<1>11. FsyncDurable'
  <2>1. \A e \in synced : e \in Ext /\ e \in Int /\ db.data[e] # 0 /\ e < db.size
    BY <1>0, <1>3, Zenon DEF Durable, FsyncDurable
  <2>2. \A e \in synced : db'.data[e] # 0 /\ e < db'.size
    BY <1>1, <1>a, <2>1, Zenon
  <2> QED  BY <1>1, <2>2, Zenon DEF Durable, FsyncDurable
<1> QED  BY <1>6, <1>7, <1>8, <1>9, <1>10, <1>11, Zenon DEF Durable

\* The commits of vn_persist_inode, vn_write and vn_fsync.
LEMMA DurableCommits ==
    ASSUME Sound, Inv, Alone, Batches, Durable, Typed', NEW t \in Thread,
           PersistCommit(t) \/ WriteCommit(t) \/ SyncCommit(t)
    PROVE  Durable'
<1>0. /\ Typed /\ pc \in [Thread -> PC] /\ reg[t] \in Register
      /\ db \in Database /\ through \in [Handle -> SUBSET Ext]
  BY DEF Inv, Typed, CallsTyped, DbTyped, FilesTyped
<1>1. db.data \in [Ext -> Int]
  BY <1>0, Bounds DEF Database
<1>2. \A u \in Thread \ {t} : pc'[u] = pc[u] /\ reg'[u] = reg[u]
  BY <1>0, OtherThreads, Zenon DEF Step, PersistInode, Write, Sync
<1>3. CASE PersistCommit(t) \/ SyncCommit(t)
  <2>1. /\ CommitNoSync(Stored(db.data, SizeAfter(reg[t]))) /\ Unlocked(t)
        /\ UNCHANGED <<synced, memSize, refCnt, held, copyOf, dirty, through>>
    BY <1>3 DEF PersistCommit, SyncCommit, Return, inodes, files, history
  <2>2. /\ pc[t] \in Committing
        /\ \/ pc'[t] = "idle"
           \/ pc[t] = "f_commit" /\ pc'[t] = "f_flush" /\ reg' = reg
    BY <1>0, <1>3 DEF PersistCommit, SyncCommit, Return, Goto, Committing
  <2> QED  BY <1>1, <1>2, <2>1, <2>2, DurableCommit, Zenon
<1>4. CASE WriteCommit(t)
  <2> DEFINE r == reg[t]
             new == r.from .. r.to - 1
             d == [e \in Ext |-> IF e \in r.put THEN ver + 1 ELSE db.data[e]]
  <2>1. /\ pc[t] = "w_commit" /\ pc'[t] = "idle"
        /\ CommitNoSync(Stored(d, SizeAfter(reg[t]))) /\ Unlocked(t)
        /\ UNCHANGED <<synced, memSize, refCnt, held, copyOf, dirty>>
        /\ through' = [through EXCEPT ![r.h] = @ \cup new]
    BY <1>0, <1>4, Zenon DEF WriteCommit, Return, Goto, inodes
  <2>2. /\ r.h \in Handle /\ copyOf[r.h] # NoCopy /\ r.c \in Copy
    BY <1>0, <2>1, Kinds, ConstantsAssumption, Zenon DEF Durable, Served, OnFile, InWrite
  <2>3. r.put = new /\ new \subseteq Ext
    BY <1>0, <2>1, Zenon DEF Batches, BatchOK, Register
  <2>4. ver \in Int /\ ver + 1 # 0
    BY <1>0, Bounds DEF Typed, HistoryTyped
  <2>5. d \in [Ext -> Int] /\ \A e \in Ext : db.data[e] # 0 => d[e] # 0
    BY <1>1, <2>4
  <2>6. \A e \in new : d[e] # 0
    BY <2>3, <2>4
  <2>7. \A e \in new : e \in Int /\ e < r.to
    BY <1>0, Numbers
  <2>8. /\ r.to \in Int /\ memSize[r.c] \in Int /\ r.to <= memSize[r.c]
        /\ dirty[r.h] \/ (SizeAfter(r) \in Int /\ r.to <= SizeAfter(r))
    BY <1>0, <2>1, <2>2, Numbers, Zenon DEF Durable, Sized, SizeAfter
  <2> HIDE DEF new, d, r
  <2>9. \A e \in new : e < memSize[r.c] /\ (dirty[r.h] \/ e < SizeAfter(r))
    BY <2>7, <2>8
  <2>10. /\ through'[r.h] = through[r.h] \cup new
         /\ \A h \in Handle \ {r.h} : through'[h] = through[h]
    BY <1>0, <2>1, <2>2, Zenon
  <2>11. /\ \A h \in Handle : through[h] \subseteq through'[h]
         /\ \A h \in Handle : \A e \in through'[h] \ through[h] : h = r.h /\ e \in new
    BY <2>2, <2>10, Zenon
  <2>12. \A h \in Handle : \A e \in through'[h] \ through[h] :
            /\ h = reg[t].h /\ copyOf[h] # NoCopy /\ d[e] # 0
            /\ e < memSize[reg[t].c] /\ (dirty[h] \/ e < SizeAfter(reg[t]))
    BY <2>2, <2>6, <2>9, <2>11, Zenon DEF r
  <2> QED  BY <1>2, <2>1, <2>5, <2>11, <2>12, DurableCommit, Zenon DEF Committing
<1> QED  BY <1>3, <1>4

\* dirty = 1 and the comparison with i_size.
LEMMA DurableCheckSize ==
    ASSUME Sound, Inv, Alone, Durable, NEW t \in Thread, WriteCheckSize(t)
    PROVE  Durable'
<1>0. /\ Typed /\ pc \in [Thread -> PC] /\ dirty \in [Handle -> BOOLEAN]
  BY DEF Inv, Typed, CallsTyped, FilesTyped
<1>1. /\ UNCHANGED <<db, recoverable, synced, memSize, refCnt, held, copyOf,
                     through, inoLock, reg>>
      /\ dirty' = [dirty EXCEPT ![reg[t].h] = TRUE]
      /\ pc[t] = "w_ext" /\ \A u \in Thread \ {t} : pc'[u] = pc[u]
  BY <1>0, Zenon DEF WriteCheckSize, Goto, db_, inodes, locks, history
<1>2. /\ reg[t].c \in Copy /\ reg[t].h \in Handle /\ reg[t].to \in Int
      /\ memSize[reg[t].c] \in Int
  BY <1>0, <1>1, Kinds, Numbers, Zenon DEF OnFile, InWrite
<1>3. \A u \in Thread : pc[u] # "w_store"
  BY <1>0, <1>1, <1>2, Kinds, Zenon DEF WriteCheckSize, Sound
<1>4. \/ pc'[t] = "w_store" /\ memSize[reg[t].c] <= reg[t].to
      \/ pc'[t] = "w_commit" /\ reg[t].to <= memSize[reg[t].c]
  <2>1. pc'[t] = IF reg[t].to > memSize[reg[t].c] THEN "w_store" ELSE "w_commit"
    BY <1>0, Zenon DEF WriteCheckSize, Goto
  <2> QED  BY <1>2, <2>1, Larger, Zenon
<1>5. dirty'[reg[t].h] /\ \A h \in Handle : dirty[h] => dirty'[h]
  BY <1>0, <1>1, <1>2, Zenon
<1>6. reg[t].size = NoSize
  BY <1>1, Zenon DEF Durable, Sized
<1>7. \A u \in Thread : Recording(u)' = Recording(u)
  BY <1>1, <1>4, <1>6, Zenon DEF Recording, Committing
<1>8. \A u \in Thread : Served(u)'
  <2>1. \A u \in Thread : /\ pc'[u] \in OnFile <=> pc[u] \in OnFile
                          /\ pc'[u] # "idle" => pc[u] # "idle"
    BY <1>1, <1>4, Zenon DEF OnFile, InWrite, InSync
  <2> QED  BY <1>1, <2>1, Zenon DEF Durable, Served
<1>9. Sized(t)'
  BY <1>1, <1>2, <1>3, <1>4, <1>5, <1>6, Zenon DEF Sized, Recording
<1>10. ASSUME NEW u \in Thread \ {t} PROVE Sized(u)'
  <2>1. Sized(u) /\ (pc[u] = "w_commit" => reg[u].h \in Handle)
    BY <1>0, Kinds, Zenon DEF Durable, OnFile, InWrite
  <2> QED  BY <1>1, <1>3, <1>5, <1>7, <2>1, Zenon DEF Sized
<1>11. \A u \in Thread : Covered(u)'
  BY <1>1, <1>4, Zenon DEF Durable, Covered, SizeAfter, InSync
<1>12. \A c \in Copy : Loaded(c)'
  BY <1>1, <1>4, Zenon DEF Durable, Loaded, Shrinking
<1>13. \A h \in Handle : Kept(h)'
  <2>1. \A h \in Handle : \A e : Records(h, e)' = Records(h, e)
    BY <1>1, <1>4, <1>6, <1>7, Zenon DEF Records, Recording
  <2> QED  BY <1>1, <1>5, <2>1, Zenon DEF Durable, Kept
<1>14. FsyncDurable'
  BY <1>1, Zenon DEF Durable, FsyncDurable
<1> QED  BY <1>8, <1>9, <1>10, <1>11, <1>12, <1>13, <1>14 DEF Durable

\* i_size = offset + len, which only one write at a time does.
LEMMA DurableStoreSize ==
    ASSUME Sound, Inv, Alone, Durable, NEW t \in Thread, WriteStoreSize(t)
    PROVE  Durable'
<1>0. /\ Typed /\ pc \in [Thread -> PC] /\ memSize \in [Copy -> 0 .. MaxExt]
  BY DEF Inv, Typed, CallsTyped, InodesTyped
<1>1. /\ UNCHANGED <<db, recoverable, synced, refCnt, held, copyOf, through, dirty, inoLock, reg>>
      /\ memSize' = [memSize EXCEPT ![reg[t].c] = reg[t].to]
      /\ pc[t] = "w_store" /\ pc'[t] = "w_put" /\ \A u \in Thread \ {t} : pc'[u] = pc[u]
  BY <1>0, Zenon DEF WriteStoreSize, Goto, db_, files, locks, history
<1>2. /\ reg[t].c \in Copy /\ reg[t].to \in Int /\ memSize[reg[t].c] \in Int /\ ~Shrinking
      /\ memSize[reg[t].c] <= reg[t].to /\ \A u \in Thread \ {t} : pc[u] # "w_store"
      /\ db.size \in Int /\ db.size <= memSize[reg[t].c]
      /\ \A h \in Handle : \A e \in through[h] : e \in Int /\ e < memSize[reg[t].c]
  BY <1>0, <1>1, InMemory, Numbers, Zenon DEF Durable, Sized
<1>3. ASSUME NEW c \in Copy
      PROVE  /\ memSize'[c] = reg[t].to /\ memSize[c] \in Int /\ memSize[c] <= memSize'[c]
             /\ memSize'[c] \in Int
  BY <1>0, <1>1, <1>2, Zenon DEF Sound
<1>4. \A u \in Thread : Recording(u)' = Recording(u)
  BY <1>1, Zenon DEF Recording, Committing
<1>5. \A u \in Thread : Served(u)'
  <2>1. \A u \in Thread : /\ pc'[u] \in OnFile <=> pc[u] \in OnFile
                          /\ pc'[u] # "idle" => pc[u] # "idle"
    BY <1>1, Zenon DEF OnFile, InWrite, InSync
  <2> QED  BY <1>1, <2>1, Zenon DEF Durable, Served
<1>6. Sized(t)'
  <2>1. Sized(t)
    BY DEF Durable
  <2>2. reg'[t] = reg[t] /\ memSize'[reg[t].c] = reg[t].to
    BY <1>1, <1>2, <1>3, Zenon
  <2>3. reg'[t].to <= memSize'[reg'[t].c] /\ reg'[t].size = NoSize
    BY <1>1, <1>2, <2>1, <2>2, Itself, Zenon DEF Sized
  <2> QED  BY <1>1, <2>3, Zenon DEF Sized, Recording, Committing
<1>7. ASSUME NEW u \in Thread \ {t} PROVE Sized(u)'
  <2>1. Sized(u) /\ pc'[u] = pc[u] /\ pc[u] # "w_store" /\ pc[u] # "t_commit"
    BY <1>1, <1>2, Zenon DEF Durable, Shrinking
  <2>2. CASE pc[u] = "idle"
    BY <2>1, <2>2, Zenon DEF Sized, Recording, Committing
  <2>3. CASE pc[u] # "idle"
    <3>1. /\ reg[u].c \in Copy /\ reg[u].to \in Int /\ reg[u].size \in Int
      BY <1>0, <2>3, Kinds, Numbers, Zenon
    <3>2. /\ memSize[reg[u].c] \in Int /\ memSize'[reg[u].c] \in Int
          /\ memSize[reg[u].c] <= memSize'[reg[u].c]
      BY <1>3, <3>1, Zenon
    <3>3. /\ pc[u] \in {"w_put", "w_commit"} => reg[u].to <= memSize[reg[u].c]
          /\ Recording(u) => db.size <= reg[u].size /\ reg[u].size <= memSize[reg[u].c]
      BY <2>1, Zenon DEF Sized
    <3>4. pc[u] \in {"w_put", "w_commit"} => reg[u].to <= memSize'[reg[u].c]
      BY <3>1, <3>2, <3>3, AtMost, Zenon
    <3>5. Recording(u) => db.size <= reg[u].size /\ reg[u].size <= memSize'[reg[u].c]
      BY <3>1, <3>2, <3>3, AtMost, Zenon
    <3> QED  BY <1>1, <1>4, <2>1, <3>4, <3>5, Zenon DEF Sized
  <2> QED  BY <2>2, <2>3
<1>8. \A u \in Thread : Covered(u)'
  BY <1>1, Zenon DEF Durable, Covered, SizeAfter, InSync
<1>9. \A c \in Copy : Loaded(c)'
  <2>1. \A h \in Handle : \A e \in through[h] : e < reg[t].to
    BY <1>2, Below, Zenon
  <2>2. db.size <= reg[t].to
    BY <1>2, AtMost, Zenon
  <2> QED  BY <1>1, <1>3, <2>1, <2>2, Zenon DEF Loaded
<1>10. \A h \in Handle : Kept(h)'
  <2>1. \A h, e : Records(h, e) => Records(h, e)'
    BY <1>1, <1>4, Zenon DEF Records, Recording, Committing
  <2> QED  BY <1>1, <2>1, Zenon DEF Durable, Kept
<1>11. FsyncDurable'
  BY <1>1, Zenon DEF Durable, FsyncDurable
<1> QED  BY <1>5, <1>6, <1>7, <1>8, <1>9, <1>10, <1>11 DEF Durable

\* FlushWAL, and the end of vn_fsync or vn_close_file.
LEMMA DurableFlush ==
    ASSUME Sound, Inv, Durable, NEW t \in Thread, SyncFlush(t)
    PROVE  Durable'
<1> DEFINE r == reg[t]
<1>0. /\ Typed /\ pc \in [Thread -> PC] /\ reg \in [Thread -> Register] /\ db \in recoverable
      /\ copyOf \in [Handle -> Copy \cup {NoCopy}] /\ dirty \in [Handle -> BOOLEAN]
      /\ through \in [Handle -> SUBSET Ext] /\ refCnt \in [Copy -> Int] /\ NoCopy \notin Copy
  BY ConstantsAssumption, Zenon DEF Inv, Typed, CallsTyped, DbTyped, FilesTyped, InodesTyped
<1>1. /\ UNCHANGED <<db, memSize, held>> /\ recoverable' = {db}
      /\ synced' = synced \cup r.goal /\ Unlocked(t)
      /\ pc[t] = "f_flush" /\ pc'[t] = "idle"
      /\ \A u \in Thread \ {t} : pc'[u] = pc[u] /\ reg'[u] = reg[u]
  BY <1>0, Zenon DEF SyncFlush, SyncReturn, Return, Goto
<1>2. r.h \in Handle /\ r.c \in Copy /\ copyOf[r.h] = r.c /\ refCnt[r.c] # 0
  BY <1>0, <1>1, Kinds, Referenced, Zenon DEF Durable, Served, OnFile, InSync
<1>3. /\ \A h \in Handle \ {r.h} : /\ copyOf'[h] = copyOf[h] /\ dirty'[h] = dirty[h]
                                   /\ through'[h] = through[h]
      /\ \/ copyOf'[r.h] = copyOf[r.h] /\ dirty'[r.h] = dirty[r.h] /\ through'[r.h] = through[r.h]
         \/ copyOf'[r.h] = NoCopy /\ through'[r.h] = {}
      /\ \A c \in Copy : refCnt'[c] # 0 => refCnt[c] # 0
  <2>1. CASE r.mode = "close"
    <3>1. /\ copyOf' = [copyOf EXCEPT ![r.h] = NoCopy] /\ dirty' = [dirty EXCEPT ![r.h] = FALSE]
          /\ through' = [through EXCEPT ![r.h] = {}]
          /\ refCnt' = [refCnt EXCEPT ![r.c] = @ - 1]
      BY <2>1, Zenon DEF SyncFlush, SyncReturn
    <3>2. \A c \in Copy : c = r.c
      BY <1>2 DEF Sound
    <3>3. \A c \in Copy : refCnt[c] # 0
      BY <1>2, <3>2
    <3> HIDE DEF r
    <3> QED  BY <1>0, <1>2, <3>1, <3>3, Zenon
  <2>2. CASE r.mode # "close"
    BY <2>2, Zenon DEF SyncFlush, SyncReturn, files
  <2> QED  BY <2>1, <2>2, Zenon
<1>4. ASSUME NEW u \in Thread \ {t}, pc[u] \in OnFile PROVE reg[u].h \in Handle \ {r.h}
  <2>1. reg[u].h \in Handle
    BY <1>0, <1>4, Kinds, Zenon DEF OnFile, InWrite, InSync
  <2> QED  BY <1>1, <1>4, <2>1, Zenon DEF Durable, Served, OnFile, InSync
<1>5. ~Recording(t) /\ ~Recording(t)' /\ \A u \in Thread \ {t} : Recording(u)' = Recording(u)
  BY <1>1 DEF Recording, Committing
<1> HIDE DEF r
<1>6. Served(t)' /\ Sized(t)' /\ Covered(t)'
  BY <1>1, Zenon DEF Served, Sized, Covered, Recording, OnFile, InWrite, InSync, Committing
<1>7. ASSUME NEW u \in Thread \ {t} PROVE Served(u)'
  <2>1. Served(u) /\ "idle" \notin OnFile
    BY DEF Durable, OnFile, InWrite, InSync
  <2>2. pc[u] \in OnFile => copyOf'[reg[u].h] = copyOf[reg[u].h]
    BY <1>3, <1>4, Zenon
  <2>3. \A v \in Thread : pc'[v] \in OnFile => pc[v] \in OnFile /\ reg'[v] = reg[v]
    BY <1>1, <2>1, Zenon
  <2> QED  BY <1>1, <2>1, <2>2, <2>3, Zenon DEF Served
<1>8. ASSUME NEW u \in Thread \ {t} PROVE Sized(u)'
  <2>1. Sized(u) /\ (inoLock = u => inoLock' = u)
    BY <1>1, Zenon DEF Durable, Unlocked
  <2>2. pc[u] = "w_commit" => dirty'[reg[u].h] = dirty[reg[u].h]
    BY <1>3, <1>4, Zenon DEF OnFile, InWrite
  <2> QED  BY <1>1, <1>5, <2>1, <2>2, Zenon DEF Sized
<1>9. ASSUME NEW u \in Thread \ {t} PROVE Covered(u)'
  <2>1. Covered(u) /\ (pc[u] \in InSync => through'[reg[u].h] = through[reg[u].h])
    BY <1>3, <1>4, Zenon DEF Durable, OnFile
  <2> QED  BY <1>1, <2>1, Zenon DEF Covered, SizeAfter
<1>10. \A c \in Copy : Loaded(c)'
  <2>1. \A h \in Handle : through'[h] \subseteq through[h]
    BY <1>3, Zenon
  <2>2. Shrinking => Shrinking'
    BY <1>1 DEF Shrinking
  <2> QED  BY <1>1, <1>3, <2>1, <2>2, Zenon DEF Durable, Loaded
<1>11. ASSUME NEW h \in Handle PROVE Kept(h)'
  <2>1. Kept(h)
    BY DEF Durable
  <2>2. \A e : Records(h, e) => Records(h, e)'
    BY <1>1, <1>5, Zenon DEF Records
  <2>3. CASE copyOf'[h] = copyOf[h] /\ dirty'[h] = dirty[h] /\ through'[h] = through[h]
    BY <1>1, <2>1, <2>2, <2>3, Zenon DEF Kept
  <2>4. CASE through'[h] = {}
    BY <2>4 DEF Kept
  <2> QED  BY <1>3, <2>3, <2>4, Zenon
<1>12. FsyncDurable'
  <2>1. \A e \in r.goal : db.data[e] # 0 /\ e < db.size
    <3>1. Covered(t) /\ Kept(r.h)
      BY <1>2, Zenon DEF Durable
    <3>2. r.goal \subseteq through[r.h] /\ \A e \in r.goal : e < db.size
      BY <1>1, <3>1, Zenon DEF Covered, InSync, r
    <3> QED  BY <3>1, <3>2, Zenon DEF Kept
  <2> QED  BY <1>0, <1>1, <2>1, Zenon DEF Durable, FsyncDurable
<1> QED  BY <1>6, <1>7, <1>8, <1>9, <1>10, <1>11, <1>12 DEF Durable

\* A truncating open begins.
LEMMA DurableTruncBegin ==
    ASSUME Sound, Inv, Durable, NEW t \in Thread, NEW h \in Handle, NEW c \in Copy,
           TruncBegin(t, h, c)
    PROVE  Durable'
<1>0. /\ Typed /\ pc \in [Thread -> PC] /\ reg \in [Thread -> Register]
      /\ memSize \in [Copy -> 0 .. MaxExt]
  BY DEF Inv, Typed, CallsTyped, InodesTyped
<1>1. /\ UNCHANGED <<db, recoverable, synced, held, copyOf, through, dirty, inoLock>>
      /\ pc[t] = "idle" /\ Goto(t, "t_get")
  BY DEF TruncBegin, Idle, db_, files, locks, history
<1>2. "t_get" \notin OnFile /\ "t_get" \notin InSync
  BY DEF OnFile, InWrite, InSync
<1>3. CASE /\ c \in held /\ Set(t, Locals(h, c, 0, 0, {}, "shared"))
           /\ UNCHANGED <<memSize, refCnt>>
  <2> DEFINE r == Locals(h, c, 0, 0, {}, "shared")
  <2>1. r.size = NoSize /\ r.c = c
    BY DEF Locals
  <2>2. Set(t, r) /\ c \in held
    BY <1>3
  <2> HIDE DEF r
  <2> QED  BY <1>1, <1>2, <1>3, <2>1, <2>2, DurableBegins, Zenon
<1>4. CASE /\ refCnt[c] = 0 /\ Set(t, Locals(h, c, 0, 0, {}, "own"))
           /\ memSize' = [memSize EXCEPT ![c] = db.size]
  <2>1. \A u \in Thread : pc[u] = "idle"
    BY <1>4, Unloaded, Zenon
  <2>2. \A u \in Thread : pc'[u] \in {"idle", "t_get"}
    BY <1>0, <1>1, <2>1 DEF Goto
  <2>3. reg'[t].mode = "own" /\ pc'[t] = "t_get" /\ \A u \in Thread \ {t} : pc'[u] = "idle"
    BY <1>0, <1>1, <1>4, <2>1, Zenon DEF Goto, Set, Locals
  <2>4. \A u \in Thread : Served(u)'
    BY <2>2, <2>3, Zenon DEF Served, OnFile, InWrite, InSync
  <2>5. \A u \in Thread : Sized(u)' /\ Covered(u)'
    BY <2>2, Zenon DEF Sized, Covered, Recording, InSync, Committing
  <2>6. \A g \in Handle : through[g] = {}
    BY <1>4, Unloaded, Zenon
  <2>7. \A d \in Copy : memSize'[d] = db.size
    BY <1>0, <1>4 DEF Sound
  <2>8. \A d \in Copy : Loaded(d)'
    <3>1. db'.size = db.size /\ db.size <= db.size
      BY <1>0, <1>1, Itself, Numbers, Zenon
    <3> QED  BY <1>1, <2>6, <2>7, <3>1, Zenon DEF Loaded
  <2>9. \A g \in Handle : Kept(g)'
    BY <1>1, <2>6, Zenon DEF Kept
  <2>10. FsyncDurable'
    BY <1>1, Zenon DEF Durable, FsyncDurable
  <2> QED  BY <2>4, <2>5, <2>8, <2>9, <2>10 DEF Durable
<1> QED  BY <1>3, <1>4 DEF TruncBegin

\* A truncation goes on, alone: the record, the files and what was synced are as
\* before, and only between i_size = 0 and the commit the size in memory is not.
LEMMA DurableTruncInside ==
    ASSUME Sound, Inv, Alone, Alone', Durable, NEW t \in Thread,
           TruncGet(t) \/ TruncDelete(t) \/ TruncSize(t) \/ TruncPutInode(t)
    PROVE  Durable'
<1>0. /\ Typed /\ pc \in [Thread -> PC] /\ reg \in [Thread -> Register] /\ reg[t] \in Register
  BY DEF Inv, Typed, CallsTyped
<1>1. /\ UNCHANGED <<db, recoverable, synced, refCnt, held, copyOf, through, dirty>>
      /\ pc[t] \in InTrunc
  BY DEF TruncGet, TruncDelete, TruncSize, TruncPutInode, db_, inodes, files, history, InTrunc
<1>2. \/ pc[t] \in {"t_get", "t_del"} /\ pc'[t] = "t_del" /\ memSize' = memSize
      \/ pc[t] = "t_del" /\ pc'[t] = "t_put"
      \/ pc[t] = "t_put" /\ pc'[t] = "t_commit" /\ memSize' = memSize
  BY <1>0 DEF TruncGet, TruncDelete, TruncSize, TruncPutInode, Goto, inodes
<1>3. pc'[t] # "idle" /\ pc[t] # "idle"
  BY <1>2
<1>4. SameCall(reg'[t], reg[t])
  BY <1>0, <1>3, StepInside, Zenon DEF Step, Truncate
<1>5. pc'[t] = "t_commit" => reg'[t].size = memSize'[reg'[t].c]
  <2>1. ASSUME pc'[t] = "t_commit" PROVE reg'[t] = [reg[t] EXCEPT !.size = memSize[reg[t].c]]
    BY <1>0, <2>1 DEF TruncGet, TruncDelete, TruncSize, TruncPutInode, Goto, Set
  <2> QED  BY <1>0, <1>2, <2>1 DEF Register
<1>6. \A u \in Thread \ {t} : pc'[u] = "idle" /\ pc[u] = "idle"
  <2>1. pc'[t] \in InTrunc
    BY <1>2 DEF InTrunc
  <2> QED  BY <1>1, <2>1, Zenon DEF Alone
<1>7. \A u \in Thread : Served(u)'
  <2>1. Served(t)'
    BY <1>1, <1>2, <1>3, <1>4, Zenon DEF Durable, Served, SameCall, OnFile, InWrite, InSync
  <2>2. \A u \in Thread \ {t} : Served(u)'
    BY <1>6, Zenon DEF Served, OnFile, InWrite, InSync
  <2> QED  BY <2>1, <2>2
<1>8. \A u \in Thread : ~Recording(u) /\ ~Recording(u)'
  BY <1>2, <1>6 DEF Recording, Committing
<1>9. \A u \in Thread : Sized(u)'
  BY <1>2, <1>5, <1>6, <1>8, Zenon DEF Sized
<1>10. \A u \in Thread : Covered(u)'
  BY <1>2, <1>6, Zenon DEF Covered, InSync
<1>11. \A c \in Copy : Loaded(c)'
  <2>1. CASE pc'[t] \in {"t_put", "t_commit"}
    BY <2>1 DEF Loaded, Shrinking
  <2>2. CASE pc'[t] = "t_del"
    <3>1. ~Shrinking
      BY <1>2, <1>6, <2>2, Zenon DEF Shrinking
    <3> QED  BY <1>1, <1>2, <2>2, <3>1, Zenon DEF Durable, Loaded
  <2> QED  BY <1>2, <2>1, <2>2, Zenon
<1>12. \A h \in Handle : Kept(h)'
  BY <1>1, <1>8, Zenon DEF Durable, Kept, Records
<1>13. FsyncDurable'
  BY <1>1, Zenon DEF Durable, FsyncDurable
<1> QED  BY <1>7, <1>9, <1>10, <1>11, <1>12, <1>13 DEF Durable

\* The synced commit of a truncation records the size in memory.
LEMMA DurableTruncCommit ==
    ASSUME Sound, Inv, Alone, Durable, NEW t \in Thread, TruncCommit(t)
    PROVE  Durable'
<1>0. /\ Typed /\ pc \in [Thread -> PC]
  BY DEF Inv, Typed, CallsTyped
<1>1. /\ pc[t] = "t_commit" /\ pc'[t] = "idle" /\ \A u \in Thread \ {t} : pc'[u] = pc[u]
      /\ through' = [h \in Handle |-> {}] /\ synced' = {} /\ memSize' = memSize
      /\ db'.size = SizeAfter(reg[t])
  BY <1>0 DEF TruncCommit, Return, Goto, CommitSync, Stored
<1>2. \A u \in Thread : pc'[u] = "idle"
  BY <1>1, Zenon DEF Alone, InTrunc
<1>3. reg[t].c \in Copy /\ reg[t].size = memSize[reg[t].c]
  BY <1>0, <1>1, Kinds, Zenon DEF Durable, Sized
<1>4. memSize[reg[t].c] \in Int /\ 0 <= memSize[reg[t].c]
  BY <1>0, <1>3, Numbers
<1>5. db'.size = memSize[reg[t].c]
  BY <1>1, <1>3, <1>4 DEF SizeAfter, NoSize
<1>6. \A c \in Copy : Loaded(c)'
  BY <1>1, <1>3, <1>4, <1>5 DEF Sound, Loaded
<1>7. \A h \in Handle : Kept(h)'
  BY <1>1 DEF Kept
<1>8. FsyncDurable'
  BY <1>1 DEF FsyncDurable
<1> QED  BY <1>2, <1>6, <1>7, <1>8, DurableIdle

\* A crash leaves what the files' syncs cover, and nothing in memory.
LEMMA DurableCrash ==
    ASSUME Inv, Durable, Crash
    PROVE  Durable'
<1>1. \A c \in Copy : Loaded(c)'
  BY DEF Crash, Loaded
<1>2. \A h \in Handle : Kept(h)'
  BY DEF Crash, Kept
<1>3. FsyncDurable'
  BY DEF Crash, history, Durable, FsyncDurable
<1>4. \A t \in Thread : pc'[t] = "idle"
  BY DEF Crash
<1> QED  BY <1>1, <1>2, <1>3, <1>4, DurableIdle

\* Every step.
LEMMA DurableNext ==
    ASSUME Sound, Known, [Next]_vars
    PROVE  Known'
<1>0. Inv /\ Alone /\ Batches /\ Durable /\ Typed /\ Typed' /\ Room
  BY InvNext DEF Known, Inv
<1>1. Inv' /\ Alone' /\ Batches'
  BY <1>0, InvNext, AloneNext, BatchesNext DEF Sound
<1>2. /\ reg \in [Thread -> Register]
      /\ \A u \in Thread : pc[u] = "w_commit" => reg[u].h \in Handle
  BY <1>0, Kinds DEF Typed, CallsTyped, OnFile, InWrite
<1>3. ASSUME NEW t \in Thread, PersistInode(t) PROVE Durable'
  <2>1. ~PersistFail(t)
    BY DEF PersistFail, TimesOut, Sound
  <2> QED  BY <1>0, <1>3, <2>1, DurablePut, DurableCommits DEF PersistInode
<1>4. ASSUME NEW t \in Thread, Truncate(t) PROVE Durable'
  <2>1. ~TruncFail(t)
    BY Zenon DEF TruncFail, TimesOut, Sound
  <2> QED  BY <1>0, <1>1, <1>4, <2>1, DurableTruncInside, DurableTruncCommit DEF Truncate
<1>5. ASSUME NEW t \in Thread, Write(t) PROVE Durable'
  <2>1. ~WriteFail(t)
    BY DEF WriteFail, TimesOut, Sound
  <2>2. CASE WriteExtent(t)
    <3>1. UNCHANGED <<db, recoverable, synced, memSize, refCnt, held, copyOf,
                      through, inoLock, pc, dirty>>
      BY <2>2 DEF WriteExtent, db_, inodes, files, history
    <3>2. \A n, p : /\ SameView([reg[t] EXCEPT !.next = n, !.put = p], reg[t])
                    /\ SameView([reg[t] EXCEPT !.next = n], reg[t])
      BY <1>2 DEF SameView, Register
    <3>3. \E r : Set(t, r) /\ SameView(r, reg[t])
      BY <2>2, <3>2, Zenon DEF WriteExtent
    <3>4. \A u \in Thread : SameView(reg'[u], reg[u])
      BY <1>2, <3>3 DEF Set, SameView
    <3> QED  BY <1>0, <1>2, <3>1, <3>4, DurableView, Zenon
  <2> QED  BY <1>0, <1>5, <2>1, <2>2, DurableCheckSize, DurableStoreSize, DurablePut,
              DurableCommits
              DEF Write
<1>6. ASSUME NEW t \in Thread, Sync(t) PROVE Durable'
  <2>1. ~SyncFail(t)
    BY DEF SyncFail, TimesOut, Sound
  <2> QED  BY <1>0, <1>6, <2>1, DurablePut, DurableCommits, DurableFlush DEF Sync
<1>7. ASSUME NEW t \in Thread, NEW h \in Handle, Read(t, h) PROVE Durable'
  <2>1. /\ UNCHANGED <<db, recoverable, synced, memSize, refCnt, held, copyOf,
                       through, inoLock, pc, reg>>
        /\ \A g \in Handle : dirty[g] => dirty'[g]
    BY <1>0, <1>7 DEF Read, db_, inodes, locks, history, Typed, FilesTyped
  <2> QED  BY <1>0, <1>2, <2>1, DurableView, Zenon DEF SameView
<1>8. ASSUME UNCHANGED vars PROVE Durable'
  <2>1. UNCHANGED <<db, recoverable, synced, memSize, refCnt, held, copyOf,
                    through, inoLock, pc, reg, dirty>>
    BY <1>8 DEF vars, db_, inodes, files, locks, history
  <2> QED  BY <1>0, <1>2, <2>1, DurableView DEF SameView
<1>9. ASSUME NEW t \in Thread, NEW h \in Handle, NEW c \in Copy,
             OpenByInode(t, h, c) \/ Open(t, h, c) \/ TruncBegin(t, h, c)
      PROVE  Durable'
  BY <1>0, <1>9, DurableOpen, DurableTruncBegin
<1>10. ASSUME NEW t \in Thread, NEW c \in Copy, PersistBegin(t, c) PROVE Durable'
  BY <1>0, <1>10, DurableCallBegins
<1>11. ASSUME NEW t \in Thread, NEW h \in Handle, NEW from \in 0 .. MaxExt,
              NEW to \in 0 .. MaxExt, WriteBegin(t, h, from, to)
       PROVE  Durable'
  BY <1>0, <1>11, DurableCallBegins
<1>12. ASSUME NEW t \in Thread, NEW h \in Handle, NEW mode \in {"sync", "close"},
              SyncBegin(t, h, mode)
       PROVE  Durable'
  BY <1>0, <1>12, DurableCallBegins
<1>13. ASSUME NEW c \in Copy, Lookup(c) \/ Release(c) PROVE Durable'
  BY <1>0, <1>13, DurableMemory
<1>14. Crash => Durable'
  BY <1>0, DurableCrash
<1>15. Durable'
  BY <1>3, <1>4, <1>5, <1>6, <1>7, <1>8, <1>9, <1>10, <1>11, <1>12, <1>13, <1>14
     DEF Next, Step
<1> QED  BY <1>1, <1>15 DEF Known

\* The invariant holds of a file just created.
LEMMA DurableInit ==
    ASSUME Init
    PROVE  Known
<1>1. Alone /\ Batches
  BY Zenon DEF Init, Alone, Batches, BatchOK, InTrunc
<1>2. \A t \in Thread : Served(t) /\ Sized(t) /\ Covered(t)
  BY Zenon DEF Init, Served, Sized, Covered, Recording, OnFile, InWrite, InSync, Committing
<1>3. (\A c \in Copy : Loaded(c)) /\ \A h \in Handle : Kept(h)
  BY Zenon DEF Init, Loaded, Kept
<1>4. FsyncDurable
  BY Zenon DEF Init, FsyncDurable
<1> QED  BY <1>1, <1>2, <1>3, <1>4, InvInit DEF Known, Durable

\* What was written through a file before a vn_fsync or vn_close_file of it that has
\* flushed the log survives every crash from then on, with its size, however many
\* threads work on however many files opened on the inode, provided that they share
\* it in memory and do not work on one ViveFile, update i_size or truncate at the
\* same time, and that no lock wait, commit or flush fails.
THEOREM SyncsDurable ==
    ASSUME Sound
    PROVE  Spec => []FsyncDurable
<1>1. Init => Known
  BY DurableInit
<1>2. Known /\ [Next]_vars => Known'
  BY DurableNext
<1>3. Known => FsyncDurable
  BY DEF Known, Durable
<1> QED  BY <1>1, <1>2, <1>3, PTL DEF Spec
=============================================================================
