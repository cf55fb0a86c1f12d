------------------------------ MODULE VnFileIO ------------------------------
(***************************************************************************)
(* Reading, writing, truncating and syncing one file.  Its data are        *)
(* extents in data_cf, its size is a field of its inode record in meta_cf. *)
(* A ViveInode in memory is a copy of that record, made by each            *)
(* vn_open_file and vn_lookup_inode_no and shared by the files opened on   *)
(* it with vn_open_file_by_inode.                                          *)
(*                                                                         *)
(* Offsets and lengths are whole extents here (VnSegments and              *)
(* VnExtentMerge go below that); the data of an extent is the number of    *)
(* the write that was committed last to it, 0 if there is none.            *)
(*                                                                         *)
(* RocksDB is external and modelled as in VnNamespace: key locks held by a *)
(* transaction to its end, lock waits that may time out, and `recoverable',*)
(* the set of the states a crash can leave.                                *)
(***************************************************************************)
EXTENDS Integers, FiniteSets

CONSTANTS
    Thread, NoThread,
    Handle, NoHandle,   \* ViveFile objects
    Copy, NoCopy,       \* in-memory ViveInode objects of the file
    MaxExt,          \* bound: size of the file in extents
    MaxVer,          \* bound: writes committed
    SizeRace,        \* TRUE: two executions of `if (end > i_size) i_size = end'
                     \*       on one inode may interleave
    SharedHandles,   \* TRUE: two calls may use one ViveFile at a time
    LockTimeouts,    \* TRUE: a wait for a key lock may time out
    CommitFails,     \* TRUE: a Commit or a FlushWAL may fail
    Truncates,       \* TRUE: files may be opened with O_TRUNC
    TruncRace        \* TRUE: other calls may run while one does

ASSUME ConstantsAssumption ==
    /\ IsFiniteSet(Thread) /\ IsFiniteSet(Handle)
    /\ NoThread \notin Thread /\ NoCopy \notin Copy /\ NoHandle \notin Handle
    /\ MaxExt \in Nat \ {0} /\ MaxVer \in Nat
    /\ {SizeRace, SharedHandles, LockTimeouts, CommitFails, Truncates, TruncRace}
         \subseteq BOOLEAN

Ext == 0 .. MaxExt - 1
NoSize == -1       \* the batch holds no inode record

VARIABLES
    db,            \* the file's keys as a Get sees them now
    recoverable,   \* what they can be after a crash
    memSize,       \* i_size of each inode in memory
    refCnt,        \* its ref_cnt, 0 when it is free
    held,          \* inodes a caller holds a reference to
    copyOf,        \* inode of each open ViveFile, NoCopy when it is closed
    dirty,         \* its dirty flag
    pc, reg,       \* the call each thread is in: next step, local variables
    ret,           \* what the call that ended last returned
    extLock,       \* lock of each extent key
    inoLock,       \* lock of the inode key
    ver,           \* history: number of writes committed
    wrote,         \* history: extents each of them was asked to write, without
                   \* those that an O_TRUNC has deleted since
    through,       \* history: extents written through each open file
    synced         \* history: extents a completed vn_fsync covers

db_ == <<db, recoverable>>
inodes == <<memSize, refCnt, held>>
files == <<copyOf, dirty, through>>
locks == <<extLock, inoLock>>
history == <<ver, wrote, synced>>
vars == <<db_, inodes, files, pc, reg, ret, locks, history>>

Database == [data : [Ext -> 0 .. MaxVer], size : 0 .. MaxExt]
Stored(d, s) == [data |-> d, size |-> s]

\* Locals of a call: the file and inode it works on, its range of extents, the
\* next one, what its transaction holds (extents and inode size), the extents
\* a sync has to make durable, and how the call was entered.
Locals(h, c, from, to, goal, mode) ==
    [h |-> h, c |-> c, from |-> from, to |-> to, next |-> from, put |-> {},
     size |-> NoSize, goal |-> goal, mode |-> mode]
Reg0 == Locals(NoHandle, NoCopy, 0, 0, {}, "none")
Register == [h : Handle \cup {NoHandle}, c : Copy \cup {NoCopy}, from : 0 .. MaxExt, to : 0 .. MaxExt,
             next : 0 .. MaxExt, put : SUBSET Ext, size : -1 .. MaxExt,
             goal : SUBSET Ext, mode : {"none", "own", "shared", "sync", "close"}]

InWrite == {"w_ext", "w_store", "w_put", "w_commit"}
InSync == {"f_put", "f_commit", "f_flush"}
InTrunc == {"t_get", "t_del", "t_put", "t_commit"}
InPersist == {"p_put", "p_commit"}
PC == {"idle"} \cup InPersist \cup InWrite \cup InSync \cup InTrunc

\* A file that vn_create_file has just made.
EmptyFile == Stored([e \in Ext |-> 0], 0)

Init ==
    /\ db = EmptyFile /\ recoverable = {EmptyFile}
    /\ memSize = [c \in Copy |-> 0] /\ refCnt = [c \in Copy |-> 0] /\ held = {}
    /\ copyOf = [h \in Handle |-> NoCopy] /\ dirty = [h \in Handle |-> FALSE]
    /\ pc = [t \in Thread |-> "idle"] /\ reg = [t \in Thread |-> Reg0]
    /\ ret = "none"
    /\ extLock = [e \in Ext |-> NoThread] /\ inoLock = NoThread
    /\ ver = 0 /\ wrote = [n \in 1 .. MaxVer |-> {}]
    /\ through = [h \in Handle |-> {}] /\ synced = {}

-----------------------------------------------------------------------------
(* Transactions and calls *)

Free(owner, t) == owner \in {NoThread, t}

\* Mutant: waits do not end.
TimesOut_Never(owner, t) == FALSE

\* The wait for a lock ends with a status that is not ok.
TimesOut(owner, t) == LockTimeouts /\ ~Free(owner, t)

Goto(t, l) == pc' = [pc EXCEPT ![t] = l]

CommitSync(new) == db' = new /\ recoverable' = {new}
CommitNoSync(new) == db' = new /\ recoverable' = recoverable \cup {new}

\* The record size a transaction leaves.
SizeAfter(r) == IF r.size = NoSize THEN db.size ELSE r.size

\* Mutant: the transaction is not deleted and keeps the inode's lock.
Unlocked_KeepsInode(t) ==
    /\ extLock' = [e \in Ext |-> IF extLock[e] = t THEN NoThread ELSE extLock[e]]
    /\ UNCHANGED inoLock

Unlocked(t) ==
    /\ extLock' = [e \in Ext |-> IF extLock[e] = t THEN NoThread ELSE extLock[e]]
    /\ inoLock' = IF inoLock = t THEN NoThread ELSE inoLock

\* The end of a call: its transaction is gone and with it its locks.
Return(t, value) ==
    /\ Goto(t, "idle")
    /\ reg' = [reg EXCEPT ![t] = Reg0]
    /\ ret' = value
    /\ Unlocked(t)

Busy(h) == \E t \in Thread : pc[t] # "idle" /\ reg[t].h = h

\* A thread that does nothing may start a call ...
Idle(t) ==
    /\ pc[t] = "idle"
    /\ TruncRace \/ \A u \in Thread : pc[u] \notin InTrunc

\* ... on an open file.
MayCall(t, h) ==
    /\ Idle(t) /\ copyOf[h] # NoCopy
    /\ SharedHandles \/ ~Busy(h)

Set(t, r) == reg' = [reg EXCEPT ![t] = r]

-----------------------------------------------------------------------------
(* Inodes in memory *)

\* vn_lookup_inode_no: Get and deserialize_inode; the caller has the only
\* reference.
Lookup(c) ==
    /\ refCnt[c] = 0
    /\ memSize' = [memSize EXCEPT ![c] = db.size]
    /\ refCnt' = [refCnt EXCEPT ![c] = 1]
    /\ held' = held \cup {c}
    /\ UNCHANGED <<db_, files, pc, reg, ret, locks, history>>

\* vn_dec_inode_ref by a caller that has no call on the inode in progress.
Release(c) ==
    /\ c \in held /\ \A t \in Thread : pc[t] # "idle" => reg[t].c # c \/ reg[t].mode # "shared"
    /\ refCnt' = [refCnt EXCEPT ![c] = @ - 1]
    /\ held' = held \ {c}
    /\ UNCHANGED <<db_, memSize, files, pc, reg, ret, locks, history>>

\* vn_persist_inode, for a caller that has changed attributes
PersistBegin(t, c) ==
    /\ Idle(t) /\ c \in held
    /\ Set(t, Locals(NoHandle, c, 0, 0, {}, "shared"))
    /\ Goto(t, "p_put")
    /\ UNCHANGED <<db_, inodes, files, ret, locks, history>>

PersistPut(t) ==
    /\ pc[t] = "p_put" /\ Free(inoLock, t)
    /\ inoLock' = t
    /\ Set(t, [reg[t] EXCEPT !.size = memSize[reg[t].c]])
    /\ Goto(t, "p_commit")
    /\ UNCHANGED <<db_, inodes, files, ret, extLock, history>>

PersistCommit(t) ==
    /\ pc[t] = "p_commit"
    /\ CommitNoSync(Stored(db.data, SizeAfter(reg[t])))
    /\ Return(t, "ok")
    /\ UNCHANGED <<inodes, files, history>>

PersistFail(t) ==
    /\ \/ pc[t] = "p_put" /\ TimesOut(inoLock, t)
       \/ pc[t] = "p_commit" /\ CommitFails
    /\ Return(t, "fail")
    /\ UNCHANGED <<db_, inodes, files, history>>

PersistInode(t) == PersistPut(t) \/ PersistCommit(t) \/ PersistFail(t)

-----------------------------------------------------------------------------
(* vn_open_file and vn_open_file_by_inode *)

Closed(h) == copyOf[h] = NoCopy /\ ~Busy(h)

Opened(h, c) ==
    /\ copyOf' = [copyOf EXCEPT ![h] = c]
    /\ dirty' = [dirty EXCEPT ![h] = FALSE]
    /\ through' = [through EXCEPT ![h] = {}]

\* Mutant: the file does not count its reference to the inode.
OpenByInode_NoRef(t, h, c) ==
    /\ Idle(t) /\ Closed(h) /\ c \in held
    /\ Opened(h, c)
    /\ UNCHANGED <<db_, inodes, pc, reg, ret, locks, history>>

\* Without O_TRUNC: one more reference to the caller's inode ...
OpenByInode(t, h, c) ==
    /\ Idle(t) /\ Closed(h) /\ c \in held
    /\ Opened(h, c)
    /\ refCnt' = [refCnt EXCEPT ![c] = @ + 1]
    /\ UNCHANGED <<db_, memSize, held, pc, reg, ret, locks, history>>

\* ... or, from vn_open_file, the reference to an inode just read, once its
\* own is dropped.
Open(t, h, c) ==
    /\ Idle(t) /\ Closed(h) /\ refCnt[c] = 0
    /\ Opened(h, c)
    /\ memSize' = [memSize EXCEPT ![c] = db.size]
    /\ refCnt' = [refCnt EXCEPT ![c] = 1]
    /\ UNCHANGED <<db_, held, pc, reg, ret, locks, history>>

\* With O_TRUNC.
TruncBegin(t, h, c) ==
    /\ Truncates /\ Idle(t) /\ Closed(h)
    /\ TruncRace \/ \A u \in Thread : pc[u] = "idle"
    /\ \/ /\ c \in held
          /\ Set(t, Locals(h, c, 0, 0, {}, "shared"))
          /\ UNCHANGED <<memSize, refCnt>>
       \/ /\ refCnt[c] = 0
          /\ Set(t, Locals(h, c, 0, 0, {}, "own"))
          /\ memSize' = [memSize EXCEPT ![c] = db.size]
          /\ refCnt' = [refCnt EXCEPT ![c] = 1]
    /\ Goto(t, "t_get")
    /\ UNCHANGED <<db_, held, files, ret, locks, history>>

\* GetForUpdate(inode) and the number of extents, from the size in memory.
TruncGet(t) ==
    /\ pc[t] = "t_get" /\ Free(inoLock, t)
    /\ inoLock' = t
    /\ Set(t, [reg[t] EXCEPT !.to = memSize[reg[t].c]])
    /\ Goto(t, "t_del")
    /\ UNCHANGED <<db_, inodes, files, ret, extLock, history>>

\* Delete of one extent after the other.  The statuses are not looked at: an
\* extent whose lock is not obtained in time is skipped.
TruncDelete(t) ==
    LET e == reg[t].next IN
    /\ pc[t] = "t_del" /\ e < reg[t].to
    /\ \/ /\ Free(extLock[e], t)
          /\ extLock' = [extLock EXCEPT ![e] = t]
          /\ Set(t, [reg[t] EXCEPT !.next = e + 1, !.put = reg[t].put \cup {e}])
       \/ /\ TimesOut(extLock[e], t)
          /\ Set(t, [reg[t] EXCEPT !.next = e + 1])
          /\ UNCHANGED extLock
    /\ UNCHANGED <<db_, inodes, files, pc, ret, inoLock, history>>

TruncSize(t) ==
    /\ pc[t] = "t_del" /\ reg[t].next = reg[t].to
    /\ memSize' = [memSize EXCEPT ![reg[t].c] = 0]
    /\ Goto(t, "t_put")
    /\ UNCHANGED <<db_, refCnt, held, files, reg, ret, locks, history>>

\* _vn_persist_inode, with the lock held since GetForUpdate
TruncPutInode(t) ==
    /\ pc[t] = "t_put"
    /\ Set(t, [reg[t] EXCEPT !.size = memSize[reg[t].c]])
    /\ Goto(t, "t_commit")
    /\ UNCHANGED <<db_, inodes, files, ret, locks, history>>

\* Mutant: the transaction is begun with data_opt, as the others of files are.
TruncCommit_NoSync(t) ==
    LET r == reg[t] IN
    /\ pc[t] = "t_commit"
    /\ CommitNoSync(Stored([e \in Ext |-> IF e \in r.put THEN 0 ELSE db.data[e]], SizeAfter(r)))
    /\ copyOf' = [copyOf EXCEPT ![r.h] = r.c]
    /\ dirty' = [dirty EXCEPT ![r.h] = FALSE]
    /\ refCnt' = [refCnt EXCEPT ![r.c] = IF r.mode = "own" THEN @ ELSE @ + 1]
    /\ through' = [h \in Handle |-> {}] /\ synced' = {}
    /\ wrote' = [n \in 1 .. MaxVer |-> wrote[n] \ r.put]
    /\ Return(t, "ok")
    /\ UNCHANGED <<memSize, held, ver>>

TruncCommit(t) ==
    LET r == reg[t] IN
    /\ pc[t] = "t_commit"
    /\ CommitSync(Stored([e \in Ext |-> IF e \in r.put THEN 0 ELSE db.data[e]], SizeAfter(r)))
    /\ copyOf' = [copyOf EXCEPT ![r.h] = r.c]
    /\ dirty' = [dirty EXCEPT ![r.h] = FALSE]
    /\ refCnt' = [refCnt EXCEPT ![r.c] = IF r.mode = "own" THEN @ ELSE @ + 1]
    /\ through' = [h \in Handle |-> {}] /\ synced' = {}
    /\ wrote' = [n \in 1 .. MaxVer |-> wrote[n] \ r.put]
    /\ Return(t, "ok")
    /\ UNCHANGED <<memSize, held, ver>>

\* NULL: the inode's lock times out or the Commit fails.  vn_open_file drops
\* the inode it has read.
TruncFail(t) ==
    LET r == reg[t] IN
    /\ \/ pc[t] = "t_get" /\ TimesOut(inoLock, t)
       \/ pc[t] = "t_commit" /\ CommitFails
    /\ refCnt' = [refCnt EXCEPT ![r.c] = IF r.mode = "own" THEN @ - 1 ELSE @]
    /\ Return(t, "fail")
    /\ UNCHANGED <<db_, memSize, held, files, history>>

Truncate(t) ==
    \/ TruncGet(t) \/ TruncDelete(t) \/ TruncSize(t) \/ TruncPutInode(t)
    \/ TruncCommit(t) \/ TruncFail(t)

-----------------------------------------------------------------------------
(* vn_write and vn_writev *)

Writers == {t \in Thread : pc[t] \in InWrite}

WriteBegin(t, h, from, to) ==
    /\ MayCall(t, h) /\ from < to
    /\ ver + Cardinality(Writers) < MaxVer
    /\ Set(t, Locals(h, copyOf[h], from, to, {}, "none"))
    /\ Goto(t, "w_ext")
    /\ UNCHANGED <<db_, inodes, files, ret, locks, history>>

\* Mutant: every segment is committed by itself.
WriteExtent_CommitsEach(t) ==
    LET e == reg[t].next IN
    /\ pc[t] = "w_ext" /\ e < reg[t].to
    /\ Free(extLock[e], t)
    /\ CommitNoSync(Stored([db.data EXCEPT ![e] = ver + 1], db.size))
    /\ Set(t, [reg[t] EXCEPT !.next = e + 1, !.put = reg[t].put \cup {e}])
    /\ wrote' = [wrote EXCEPT ![ver + 1] = reg[t].from .. reg[t].to - 1]
    /\ UNCHANGED <<inodes, files, pc, ret, locks, ver, synced>>

\* Put or Merge of one segment after the other.  A failure is logged and the
\* loop goes on.
WriteExtent(t) ==
    LET e == reg[t].next IN
    /\ pc[t] = "w_ext" /\ e < reg[t].to
    /\ \/ /\ Free(extLock[e], t)
          /\ extLock' = [extLock EXCEPT ![e] = t]
          /\ Set(t, [reg[t] EXCEPT !.next = e + 1, !.put = reg[t].put \cup {e}])
       \/ /\ TimesOut(extLock[e], t)
          /\ Set(t, [reg[t] EXCEPT !.next = e + 1])
          /\ UNCHANGED extLock
    /\ UNCHANGED <<db_, inodes, files, pc, ret, inoLock, history>>

\* Mutant: the file is not marked dirty.
WriteCheckSize_NotDirty(t) ==
    /\ pc[t] = "w_ext" /\ reg[t].next = reg[t].to
    /\ SizeRace \/ \A u \in Thread : pc[u] = "w_store" => reg[u].c # reg[t].c
    /\ Goto(t, IF reg[t].to > memSize[reg[t].c] THEN "w_store" ELSE "w_commit")
    /\ UNCHANGED <<db_, inodes, files, reg, ret, locks, history>>

\* dirty = 1, then offset + len > i_size ...
WriteCheckSize(t) ==
    /\ pc[t] = "w_ext" /\ reg[t].next = reg[t].to
    /\ SizeRace \/ \A u \in Thread : pc[u] = "w_store" => reg[u].c # reg[t].c
    /\ dirty' = [dirty EXCEPT ![reg[t].h] = TRUE]
    /\ Goto(t, IF reg[t].to > memSize[reg[t].c] THEN "w_store" ELSE "w_commit")
    /\ UNCHANGED <<db_, inodes, copyOf, through, reg, ret, locks, history>>

\* Mutant: the size is one too large.
WriteStoreSize_OneMore(t) ==
    /\ pc[t] = "w_store"
    /\ memSize' = [memSize EXCEPT ![reg[t].c] = reg[t].to + 1]
    /\ Goto(t, "w_put")
    /\ UNCHANGED <<db_, refCnt, held, files, reg, ret, locks, history>>

\* ... i_size = offset + len ...
WriteStoreSize(t) ==
    /\ pc[t] = "w_store"
    /\ memSize' = [memSize EXCEPT ![reg[t].c] = reg[t].to]
    /\ Goto(t, "w_put")
    /\ UNCHANGED <<db_, refCnt, held, files, reg, ret, locks, history>>

\* ... and _vn_persist_inode copies the inode as it is once the lock is held.
WritePutInode(t) ==
    /\ pc[t] = "w_put" /\ Free(inoLock, t)
    /\ inoLock' = t
    /\ Set(t, [reg[t] EXCEPT !.size = memSize[reg[t].c]])
    /\ dirty' = [dirty EXCEPT ![reg[t].h] = FALSE]
    /\ Goto(t, "w_commit")
    /\ UNCHANGED <<db_, inodes, copyOf, through, ret, extLock, history>>

WriteCommit(t) ==
    LET r == reg[t] IN
    /\ pc[t] = "w_commit"
    /\ CommitNoSync(Stored([e \in Ext |-> IF e \in r.put THEN ver + 1 ELSE db.data[e]],
                           SizeAfter(r)))
    /\ ver' = ver + 1
    /\ wrote' = [wrote EXCEPT ![ver + 1] = r.from .. r.to - 1]
    /\ through' = [through EXCEPT ![r.h] = @ \cup r.from .. r.to - 1]
    /\ Return(t, "ok")
    /\ UNCHANGED <<inodes, copyOf, dirty, synced>>

\* -EIO: the inode's lock times out or the Commit fails; i_size and dirty stay
\* as they are.
WriteFail(t) ==
    /\ \/ pc[t] = "w_put" /\ TimesOut(inoLock, t)
       \/ pc[t] = "w_commit" /\ CommitFails
    /\ Return(t, "fail")
    /\ UNCHANGED <<db_, inodes, files, history>>

Write(t) ==
    \/ WriteExtent(t) \/ WriteCheckSize(t) \/ WriteStoreSize(t)
    \/ WritePutInode(t) \/ WriteCommit(t) \/ WriteFail(t)

\* vn_read and vn_readv of a file opened without O_NOATIME set i_atime.
Read(t, h) ==
    /\ MayCall(t, h) /\ ~dirty[h]
    /\ dirty' = [dirty EXCEPT ![h] = TRUE]
    /\ UNCHANGED <<db_, inodes, copyOf, through, pc, reg, ret, locks, history>>

-----------------------------------------------------------------------------
(* vn_fsync and vn_close_file, which calls it and then deletes the file *)

SyncBegin(t, h, mode) ==
    /\ MayCall(t, h) /\ (mode = "close" => ~Busy(h))
    /\ Set(t, Locals(h, copyOf[h], 0, 0, through[h], mode))
    /\ Goto(t, IF dirty[h] THEN "f_put" ELSE "f_commit")
    /\ UNCHANGED <<db_, inodes, files, ret, locks, history>>

\* Every return: vn_close_file ignores the result and deletes the file, whose
\* destructor drops its reference to the inode.
SyncReturn(t, value) ==
    LET r == reg[t] IN
    /\ Return(t, value)
    /\ IF r.mode = "close"
         THEN /\ copyOf' = [copyOf EXCEPT ![r.h] = NoCopy]
              /\ dirty' = [dirty EXCEPT ![r.h] = FALSE]
              /\ through' = [through EXCEPT ![r.h] = {}]
              /\ refCnt' = [refCnt EXCEPT ![r.c] = @ - 1]
         ELSE UNCHANGED <<files, refCnt>>
    /\ UNCHANGED <<memSize, held, ver, wrote>>

SyncPutInode(t) ==
    /\ pc[t] = "f_put" /\ Free(inoLock, t)
    /\ inoLock' = t
    /\ Set(t, [reg[t] EXCEPT !.size = memSize[reg[t].c]])
    /\ dirty' = [dirty EXCEPT ![reg[t].h] = FALSE]
    /\ Goto(t, "f_commit")
    /\ UNCHANGED <<db_, inodes, copyOf, through, ret, extLock, history>>

SyncCommit(t) ==
    /\ pc[t] = "f_commit"
    /\ CommitNoSync(Stored(db.data, SizeAfter(reg[t])))
    /\ Unlocked(t)
    /\ Goto(t, "f_flush")
    /\ UNCHANGED <<inodes, files, reg, ret, history>>

\* -EIO: the inode's lock times out, or the Commit or the FlushWAL fails.
SyncFail(t) ==
    /\ \/ pc[t] = "f_put" /\ TimesOut(inoLock, t)
       \/ pc[t] \in {"f_commit", "f_flush"} /\ CommitFails
    /\ SyncReturn(t, "fail")
    /\ UNCHANGED <<db_, synced>>

\* Mutant: the log is not flushed.
SyncFlush_NoFlush(t) ==
    /\ pc[t] = "f_flush"
    /\ synced' = synced \cup reg[t].goal
    /\ SyncReturn(t, "fail")
    /\ UNCHANGED db_

\* FlushWAL(true) succeeds; what follows is `return -EIO' all the same.
SyncFlush(t) ==
    /\ pc[t] = "f_flush"
    /\ recoverable' = {db}
    /\ synced' = synced \cup reg[t].goal
    /\ SyncReturn(t, "fail")
    /\ UNCHANGED db

Sync(t) == SyncPutInode(t) \/ SyncCommit(t) \/ SyncFail(t) \/ SyncFlush(t)

-----------------------------------------------------------------------------

\* The process dies; the inodes and files in memory are gone.
Crash ==
    /\ db' \in recoverable /\ recoverable' = {db'}
    /\ memSize' = [c \in Copy |-> 0] /\ refCnt' = [c \in Copy |-> 0] /\ held' = {}
    /\ copyOf' = [h \in Handle |-> NoCopy] /\ dirty' = [h \in Handle |-> FALSE]
    /\ through' = [h \in Handle |-> {}]
    /\ pc' = [t \in Thread |-> "idle"] /\ reg' = [t \in Thread |-> Reg0]
    /\ ret' = "none"
    /\ extLock' = [e \in Ext |-> NoThread] /\ inoLock' = NoThread
    /\ UNCHANGED history

\* A thread goes on with the call it is in.
Step(t) == PersistInode(t) \/ Truncate(t) \/ Write(t) \/ Sync(t)

Next ==
    \/ \E c \in Copy : Lookup(c) \/ Release(c)
    \/ \E t \in Thread, c \in Copy : PersistBegin(t, c)
    \/ \E t \in Thread, h \in Handle, c \in Copy :
         OpenByInode(t, h, c) \/ Open(t, h, c) \/ TruncBegin(t, h, c)
    \/ \E t \in Thread, h \in Handle :
         \/ \E from, to \in 0 .. MaxExt : WriteBegin(t, h, from, to)
         \/ Read(t, h)
         \/ \E mode \in {"sync", "close"} : SyncBegin(t, h, mode)
    \/ \E t \in Thread : Step(t)
    \/ Crash

Spec == Init /\ [][Next]_vars

\* A call that can take its next step takes it: threads are scheduled, and a
\* lock wait ends when it times out.
FairSpec == Spec /\ \A t \in Thread : WF_vars(Step(t))

-----------------------------------------------------------------------------
(* Properties *)

\* Every variable stays in its domain.
TypeOK ==
    /\ db \in Database /\ recoverable \subseteq Database /\ db \in recoverable
    /\ memSize \in [Copy -> 0 .. MaxExt] /\ refCnt \in [Copy -> Nat] /\ held \subseteq Copy
    /\ copyOf \in [Handle -> Copy \cup {NoCopy}] /\ dirty \in [Handle -> BOOLEAN]
    /\ pc \in [Thread -> PC] /\ reg \in [Thread -> Register]
    /\ ret \in {"none", "ok", "fail"}
    /\ extLock \in [Ext -> Thread \cup {NoThread}] /\ inoLock \in Thread \cup {NoThread}
    /\ ver \in 0 .. MaxVer /\ wrote \in [1 .. MaxVer -> SUBSET Ext]
    /\ through \in [Handle -> SUBSET Ext] /\ synced \subseteq Ext

\* What was written through a file before a vn_fsync or vn_close_file of it that
\* completed FlushWAL is, after any crash from then on, in data_cf and inside the
\* size that the inode record says.
FsyncDurable ==
    \A v \in recoverable, e \in synced : v.data[e] # 0 /\ e < v.size

\* A vn_write is atomic in every state a crash can leave: if one of its extents
\* is there, so are the others, unless a later write covers them or an O_TRUNC
\* has deleted them.  (O_TRUNC deletes as many extents as the size covers, so
\* that it may delete a part of a write.)
WriteAllOrNothing ==
    \A v \in recoverable, n \in 1 .. ver :
        (\E e \in Ext : v.data[e] = n) => \A e \in wrote[n] : v.data[e] >= n

\* What an O_TRUNC has deleted does not come back: in no state that a crash can
\* leave does an extent hold data of a write after a completed open with O_TRUNC
\* has deleted them there, whatever ran beside it, timed out or failed.  Nor does
\* an extent hold data of a write that was not for it.
ErasedStaysErased ==
    \A v \in recoverable, e \in Ext : v.data[e] # 0 => e \in wrote[v.data[e]]

\* "The length is recorded in the inode and updated whenever it changes": what
\* was written through a file that is neither in a call nor dirty is inside the
\* size that the inode record says.
SizeRecorded ==
    \A h \in Handle :
        copyOf[h] # NoCopy /\ ~dirty[h] /\ ~Busy(h) => \A e \in through[h] : e < db.size

\* ref_cnt is the number of references: an inode is freed when the last file
\* and caller are through with it, on the error paths of the opens too.
RefsCounted ==
    \A c \in Copy :
        refCnt[c] = Cardinality({h \in Handle : copyOf[h] = c})
                  + Cardinality({c} \cap held)
                  + Cardinality({t \in Thread : reg[t].c = c /\ reg[t].mode = "own"})

\* The thread that t waits for.
WaitsFor(t) ==
    CASE pc[t] = "w_ext" /\ reg[t].next < reg[t].to -> extLock[reg[t].next]
      [] pc[t] = "t_del" /\ reg[t].next < reg[t].to -> extLock[reg[t].next]
      [] pc[t] \in {"w_put", "f_put", "p_put", "t_get"} -> inoLock
      [] OTHER -> NoThread

\* Transactions other than those of O_TRUNC take the locks of extents in
\* ascending order and the inode's last, so no threads wait for each other.
NoLockCycle ==
    \A S \in (SUBSET Thread) \ {{}} : \E t \in S : WaitsFor(t) \notin S \ {t}

\* With lock timeouts every call returns, whatever the locks it meets.
CallsTerminate ==
    \A t \in Thread : pc[t] # "idle" ~> pc[t] = "idle"

-----------------------------------------------------------------------------
(* What the repository says and the code does not keep *)

\* O_TRUNC, logged as "truncate file": the open leaves in data_cf nothing of what
\* was synced or was written through a file still open.  It deletes as many
\* extents as the size in its own copy of the inode says, which may be old.
TruncateErases ==
    [][\A t \in Thread : TruncCommit(t) =>
         \A e \in synced \cup UNION {through[h] : h \in Handle} : db'.data[e] = 0]_vars

\* A vn_fsync whose log flush is done reports success.
FsyncSucceeds ==
    [][\A t \in Thread : SyncFlush(t) /\ reg[t].mode = "sync" => ret' = "ok"]_vars
=============================================================================
