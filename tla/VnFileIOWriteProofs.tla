------------------------ MODULE VnFileIOWriteProofs ------------------------
(***************************************************************************)
(* Proofs about VnFileIO: calls never wait for each other in a cycle, and  *)
(* what a crash can leave of a write and of a truncation.                  *)
(***************************************************************************)
EXTENDS VnFileIORefsProofs, NaturalsInduction

----------------------------------------------------------------------------
(* Locks *)

\* Locks of extents belong to writes that are past them, the lock of the inode to
\* a call that has only its commit left; otherwise to the call that truncates.
LocksOrdered ==
    /\ \A e \in Ext, t \in Thread :
         extLock[e] = t =>
             pc[t] \in InTrunc \/ (pc[t] \in InWrite /\ e < reg[t].next)
    /\ \A t \in Thread : inoLock = t => pc[t] \in Committing \cup InTrunc

\* A step of one thread, which takes or releases locks of its own.
LEMMA LocksMove ==
    ASSUME LocksOrdered, NEW t \in Thread,
           \A u \in Thread \ {t} : pc'[u] = pc[u] /\ reg'[u] = reg[u],
           \A e \in Ext : \/ extLock'[e] \in {extLock[e], NoThread}
                         \/ extLock'[e] = t,
           \A e \in Ext : extLock'[e] = t =>
             pc'[t] \in InTrunc \/ (pc'[t] \in InWrite /\ e < reg'[t].next),
           inoLock' \in {inoLock, NoThread, t},
           inoLock' = t => pc'[t] \in Committing \cup InTrunc
    PROVE  LocksOrdered'
<1>0. NoThread \notin Thread
  BY ConstantsAssumption
<1>1. ASSUME NEW e \in Ext, NEW u \in Thread, extLock'[e] = u
      PROVE  pc'[u] \in InTrunc \/ (pc'[u] \in InWrite /\ e < reg'[u].next)
  <2>1. CASE u = t
    <3>1. extLock'[e] = t
      BY <1>1, <2>1
    <3>2. pc'[t] \in InTrunc \/ (pc'[t] \in InWrite /\ e < reg'[t].next)
      BY <3>1
    <3> QED  BY <2>1, <3>2
  <2>2. CASE u # t
    <3>1. extLock[e] = u
      BY <1>0, <1>1, <2>2
    <3>2. pc[u] \in InTrunc \/ (pc[u] \in InWrite /\ e < reg[u].next)
      BY <3>1, Zenon DEF LocksOrdered
    <3> QED  BY <2>2, <3>2
  <2> QED  BY <2>1, <2>2
<1>2. ASSUME NEW u \in Thread, inoLock' = u PROVE pc'[u] \in Committing \cup InTrunc
  BY <1>0, <1>2 DEF LocksOrdered
<1> QED  BY <1>1, <1>2 DEF LocksOrdered

\* The locks of a transaction that is over.
LEMMA LocksReleased ==
    ASSUME Typed, NEW t \in Thread, Unlocked(t)
    PROVE  /\ \A e \in Ext : extLock'[e] \in {extLock[e], NoThread} /\ extLock'[e] # t
           /\ inoLock' \in {inoLock, NoThread} /\ inoLock' # t
<1>0. NoThread # t
  BY ConstantsAssumption
<1> QED  BY <1>0 DEF Unlocked

\* A thread that neither writes nor truncates has no lock of an extent; one that
\* neither commits nor truncates has not the inode's.
LEMMA NoLocks ==
    ASSUME LocksOrdered, NEW t \in Thread
    PROVE  /\ pc[t] \notin InWrite \cup InTrunc => \A e \in Ext : extLock[e] # t
           /\ pc[t] \notin Committing \cup InTrunc => inoLock # t
  BY DEF LocksOrdered

\* A call begins.
LEMMA LocksBegin ==
    ASSUME Typed, LocksOrdered, NEW t \in Thread, pc[t] = "idle", NEW l \in PC, NEW r,
           Goto(t, l), Set(t, r), UNCHANGED locks
    PROVE  LocksOrdered'
<1>1. pc \in [Thread -> PC] /\ reg \in [Thread -> Register]
  BY DEF Typed, CallsTyped
<1>2. (\A e \in Ext : extLock[e] # t) /\ inoLock # t
  BY NoLocks DEF InWrite, InTrunc, Committing
<1>3. \A u \in Thread \ {t} : pc'[u] = pc[u] /\ reg'[u] = reg[u]
  BY <1>1 DEF Goto, Set
<1>4. pc'[t] = l /\ extLock' = extLock /\ inoLock' = inoLock
  BY <1>1 DEF Goto, locks
<1> QED  BY <1>2, <1>3, <1>4, LocksMove

\* A call returns.
LEMMA LocksReturn ==
    ASSUME Typed, LocksOrdered, NEW t \in Thread, NEW value, Return(t, value)
    PROVE  LocksOrdered'
<1>1. pc \in [Thread -> PC] /\ reg \in [Thread -> Register]
  BY DEF Typed, CallsTyped
<1>2. \A u \in Thread \ {t} : pc'[u] = pc[u] /\ reg'[u] = reg[u]
  BY <1>1 DEF Return, Goto
<1>3. Unlocked(t)
  BY DEF Return
<1> QED  BY <1>2, <1>3, LocksReleased, LocksMove

\* A write takes the locks of its extents in ascending order, the inode's last.
LEMMA LocksWrite ==
    ASSUME Typed, LocksOrdered, NEW t \in Thread, Write(t)
    PROVE  LocksOrdered'
<1>0. /\ pc \in [Thread -> PC] /\ reg \in [Thread -> Register] /\ reg[t] \in Register
      /\ extLock \in [Ext -> Thread \cup {NoThread}]
  BY DEF Typed, CallsTyped, LocksTyped
<1>1. \A u \in Thread \ {t} : pc'[u] = pc[u] /\ reg'[u] = reg[u]
  BY OtherThreads DEF Step
<1>2. CASE WriteExtent(t)
  <2> DEFINE e == reg[t].next
  <2>1. pc[t] = "w_ext" /\ pc' = pc /\ inoLock' = inoLock
    BY <1>2 DEF WriteExtent
  <2>2. reg'[t].next = e + 1
    <3>1. /\ [reg[t] EXCEPT !.next = e + 1].next = e + 1
          /\ [reg[t] EXCEPT !.next = e + 1, !.put = reg[t].put \cup {e}].next = e + 1
      BY <1>0 DEF Register
    <3> QED  BY <1>0, <1>2, <3>1, Zenon DEF WriteExtent, Set
  <2>3. e \in Int
    BY <1>0, Bounds DEF Register
  <2>4. extLock' = extLock \/ extLock' = [extLock EXCEPT ![e] = t]
    BY <1>2 DEF WriteExtent
  <2>5. pc'[t] \in InWrite /\ pc[t] \notin Committing \cup InTrunc
    BY <2>1 DEF InWrite, InTrunc, Committing
  <2>6. inoLock' # t
    BY <2>1, <2>5, NoLocks
  <2>7. ASSUME NEW x \in Ext, extLock'[x] = t PROVE x < reg'[t].next
    <3>1. x \in Int
      BY Bounds DEF Ext
    <3>2. x = e \/ extLock[x] = t
      BY <1>0, <2>4, <2>7
    <3>3. extLock[x] = t => x < e
      BY <2>5 DEF LocksOrdered
    <3> HIDE DEF e
    <3> QED  BY <2>2, <2>3, <3>1, <3>2, <3>3
  <2>8. \A x \in Ext : extLock'[x] \in {extLock[x], NoThread} \/ extLock'[x] = t
    BY <1>0, <2>4
  <2> QED  BY <1>1, <2>1, <2>5, <2>6, <2>7, <2>8, LocksMove
<1>3. CASE WriteCheckSize(t) \/ WriteStoreSize(t)
  <2>1. pc[t] \in {"w_ext", "w_store"} /\ reg' = reg /\ UNCHANGED <<extLock, inoLock>>
    BY <1>3 DEF WriteCheckSize, WriteStoreSize, locks
  <2>2. pc'[t] \in InWrite
    BY <1>0, <1>3 DEF WriteCheckSize, WriteStoreSize, Goto, InWrite
  <2>3. inoLock # t
    BY <2>1, NoLocks DEF Committing, InTrunc
  <2>4. \A e \in Ext : extLock[e] = t => e < reg[t].next
    BY <2>1 DEF LocksOrdered, InTrunc
  <2> QED  BY <1>1, <2>1, <2>2, <2>3, <2>4, LocksMove
<1>4. CASE WritePutInode(t)
  <2>1. /\ inoLock' = t /\ extLock' = extLock /\ pc'[t] = "w_commit"
        /\ pc[t] = "w_put"
    BY <1>0, <1>4 DEF WritePutInode, Goto
  <2>2. reg'[t].next = reg[t].next
    <3>1. [reg[t] EXCEPT !.size = memSize[reg[t].c]].next = reg[t].next
      BY <1>0 DEF Register
    <3> QED  BY <1>0, <1>4, <3>1 DEF WritePutInode, Set
  <2>3. \A e \in Ext : extLock[e] = t => e < reg[t].next
    BY <2>1 DEF LocksOrdered, InTrunc
  <2>4. pc'[t] \in InWrite /\ pc'[t] \in Committing
    BY <2>1 DEF InWrite, Committing
  <2> QED  BY <1>1, <2>1, <2>2, <2>3, <2>4, LocksMove
<1>5. CASE WriteCommit(t) \/ WriteFail(t)
  BY <1>5, LocksReturn DEF WriteCommit, WriteFail
<1> QED  BY <1>2, <1>3, <1>4, <1>5 DEF Write

\* vn_persist_inode and vn_fsync take the inode's lock alone.
LEMMA LocksOther ==
    ASSUME Typed, LocksOrdered, NEW t \in Thread, PersistInode(t) \/ Sync(t)
    PROVE  LocksOrdered'
<1>0. pc \in [Thread -> PC]
  BY DEF Typed, CallsTyped
<1>1. \A u \in Thread \ {t} : pc'[u] = pc[u] /\ reg'[u] = reg[u]
  BY OtherThreads DEF Step
<1>2. pc[t] \notin InWrite \cup InTrunc
  BY DEF PersistInode, PersistPut, PersistCommit, PersistFail, Sync, SyncPutInode,
         SyncCommit, SyncFail, SyncFlush, InWrite, InTrunc
<1>3. \A e \in Ext : extLock[e] # t
  BY <1>2, NoLocks
<1>4. CASE PersistPut(t) \/ SyncPutInode(t)
  <2>1. inoLock' = t /\ extLock' = extLock /\ pc'[t] \in {"p_commit", "f_commit"}
    BY <1>0, <1>4 DEF PersistPut, SyncPutInode, Goto
  <2>2. pc'[t] \in Committing
    BY <2>1 DEF Committing
  <2> QED  BY <1>1, <1>3, <2>1, <2>2, LocksMove
<1>5. CASE SyncCommit(t)
  <2>1. Unlocked(t)
    BY <1>5 DEF SyncCommit
  <2> QED  BY <1>1, <2>1, LocksReleased, LocksMove
<1>6. CASE \E value : Return(t, value)
  BY <1>6, LocksReturn
<1> QED
  BY <1>4, <1>5, <1>6 DEF PersistInode, PersistCommit, PersistFail, Sync, SyncFail, SyncFlush,
                          SyncReturn

\* A truncation takes the inode's lock first, but no other call is in progress.
LEMMA LocksTruncate ==
    ASSUME Typed, LocksOrdered, NEW t \in Thread, Truncate(t)
    PROVE  LocksOrdered'
<1>0. /\ pc \in [Thread -> PC] /\ extLock \in [Ext -> Thread \cup {NoThread}]
  BY DEF Typed, CallsTyped, LocksTyped
<1>1. \A u \in Thread \ {t} : pc'[u] = pc[u] /\ reg'[u] = reg[u]
  BY OtherThreads DEF Step
<1>2. CASE TruncCommit(t) \/ TruncFail(t)
  BY <1>2, LocksReturn DEF TruncCommit, TruncFail
<1>3. CASE TruncGet(t) \/ TruncDelete(t) \/ TruncSize(t) \/ TruncPutInode(t)
  <2>1. pc'[t] \in InTrunc
    BY <1>0, <1>3 DEF TruncGet, TruncDelete, TruncSize, TruncPutInode, Goto, InTrunc
  <2>2. inoLock' \in {inoLock, t}
    BY <1>3 DEF TruncGet, TruncDelete, TruncSize, TruncPutInode, locks
  <2>3. extLock' = extLock \/ extLock' = [extLock EXCEPT ![reg[t].next] = t]
    BY <1>3 DEF TruncGet, TruncDelete, TruncSize, TruncPutInode, locks
  <2>4. \A e \in Ext : extLock'[e] \in {extLock[e], NoThread} \/ extLock'[e] = t
    BY <1>0, <2>3
  <2>5. \A e \in Ext : extLock'[e] = t =>
             pc'[t] \in InTrunc \/ (pc'[t] \in InWrite /\ e < reg'[t].next)
    BY <2>1, Zenon
  <2>6. pc'[t] \in Committing \cup InTrunc /\ inoLock' \in {inoLock, NoThread, t}
    BY <2>1, <2>2
  <2> QED  BY <1>1, <2>4, <2>5, <2>6, LocksMove
<1> QED  BY <1>2, <1>3 DEF Truncate

\* No step breaks the order.
LEMMA LocksNext ==
    ASSUME Typed, LocksOrdered, [Next]_vars
    PROVE  LocksOrdered'
<1>1. ASSUME UNCHANGED <<pc, reg, locks>> PROVE LocksOrdered'
  BY <1>1 DEF LocksOrdered, locks
<1>2. ASSUME NEW c \in Copy, Lookup(c) \/ Release(c) PROVE LocksOrdered'
  BY <1>1, <1>2 DEF Lookup, Release
<1>3. ASSUME NEW t \in Thread, NEW c \in Copy, PersistBegin(t, c) PROVE LocksOrdered'
  BY <1>3, LocksBegin DEF PersistBegin, Idle, PC, InPersist
<1>4. ASSUME NEW t \in Thread, NEW h \in Handle, NEW c \in Copy,
             OpenByInode(t, h, c) \/ Open(t, h, c)
      PROVE  LocksOrdered'
  BY <1>1, <1>4 DEF OpenByInode, Open
<1>5. ASSUME NEW t \in Thread, NEW h \in Handle, NEW c \in Copy, TruncBegin(t, h, c)
      PROVE  LocksOrdered'
  <2>1. pc[t] = "idle" /\ UNCHANGED locks /\ Goto(t, "t_get") /\ \E r : Set(t, r)
    BY <1>5 DEF TruncBegin, Idle
  <2> QED  BY <2>1, LocksBegin DEF PC, InTrunc
<1>6. ASSUME NEW t \in Thread, NEW h \in Handle, NEW from \in 0 .. MaxExt,
             NEW to \in 0 .. MaxExt, WriteBegin(t, h, from, to)
      PROVE  LocksOrdered'
  <2>1. pc[t] = "idle" /\ Goto(t, "w_ext") /\ UNCHANGED locks /\ \E r : Set(t, r)
    BY <1>6, MayCallOpen DEF WriteBegin
  <2> QED  BY <2>1, LocksBegin DEF PC, InWrite
<1>7. ASSUME NEW t \in Thread, NEW h \in Handle, Read(t, h) PROVE LocksOrdered'
  BY <1>1, <1>7 DEF Read
<1>8. ASSUME NEW t \in Thread, NEW h \in Handle, NEW mode \in {"sync", "close"},
             SyncBegin(t, h, mode)
      PROVE  LocksOrdered'
  <2>1. pc[t] = "idle" /\ UNCHANGED locks /\ \E r : Set(t, r)
    BY <1>8, MayCallOpen DEF SyncBegin
  <2>2. Goto(t, "f_put") \/ Goto(t, "f_commit")
    BY <1>8 DEF SyncBegin
  <2> QED  BY <2>1, <2>2, LocksBegin DEF PC, InSync
<1>9. ASSUME Crash PROVE LocksOrdered'
  BY <1>9, ConstantsAssumption DEF Crash, LocksOrdered
<1>10. ASSUME UNCHANGED vars PROVE LocksOrdered'
  BY <1>1, <1>10 DEF vars
<1> QED
  BY <1>2, <1>3, <1>4, <1>6, <1>7, <1>8, <1>5, <1>9, <1>10, LocksTruncate, LocksWrite,
     LocksOther
     DEF Next, Step

\* A set of numbers has a least element.
LEMMA Least ==
    ASSUME NEW T \in SUBSET Nat, T # {}
    PROVE  \E x \in T : \A y \in T : x <= y
<1> DEFINE R == OpToRel(<, Nat)
<1>1. IsWellFoundedOn(R, Nat)
  BY NatLessThanWellFounded, Zenon
<1>2. \A x, y \in Nat : x < y => <<x, y>> \in R
  BY DEF OpToRel
<1> HIDE DEF R
<1>3. PICK x \in T : \A y \in T : ~(<<y, x>> \in R)
  BY <1>1, WFMin, Zenon
<1>4. \A y \in T : ~(y < x)
  BY <1>2, <1>3, Zenon
<1>5. \A y \in T : x <= y
  BY <1>4
<1> QED  BY <1>5

\* What a thread waits for.
LEMMA Waits ==
    ASSUME NEW t \in Thread, WaitsFor(t) # NoThread, pc[t] \notin InTrunc
    PROVE  \/ /\ pc[t] = "w_ext" /\ reg[t].next < reg[t].to
              /\ WaitsFor(t) = extLock[reg[t].next]
           \/ pc[t] \in {"w_put", "f_put", "p_put"} /\ WaitsFor(t) = inoLock
<1>1. CASE pc[t] = "w_ext" /\ reg[t].next < reg[t].to
  BY <1>1 DEF WaitsFor
<1>2. CASE pc[t] \in {"w_put", "f_put", "p_put"}
  BY <1>2 DEF WaitsFor
<1>3. CASE /\ ~(pc[t] = "w_ext" /\ reg[t].next < reg[t].to)
           /\ pc[t] \notin {"w_put", "f_put", "p_put"}
  BY <1>3 DEF WaitsFor, InTrunc
<1> QED  BY <1>1, <1>2, <1>3

\* A call that truncates is alone.  Among other threads of a cycle, none waits for
\* the inode, because its owner waits for nothing; and each waits for one that is
\* further in its range.
LEMMA OrderedNoCycle ==
    ASSUME Typed, Alone, LocksOrdered
    PROVE  NoLockCycle
<1> SUFFICES ASSUME NEW S \in (SUBSET Thread) \ {{}},
                    ~ \E t \in S : WaitsFor(t) \notin S \ {t}
             PROVE  FALSE
  BY Zenon DEF NoLockCycle
<1> S \in SUBSET Thread /\ S # {} /\ \A t \in S : WaitsFor(t) \in S \ {t}
  OBVIOUS
<1>0. NoThread \notin Thread /\ reg \in [Thread -> Register]
  BY ConstantsAssumption DEF Typed, CallsTyped
<1>1. ASSUME NEW t \in S PROVE pc[t] \notin InTrunc
  <2>1. CASE pc[t] \in InTrunc
    <3>1. PICK u \in S \ {t} : u = WaitsFor(t)
      OBVIOUS
    <3>2. pc[u] = "idle" /\ WaitsFor(u) # NoThread
      BY <1>0, <2>1 DEF Alone
    <3> QED  BY <3>2, Waits DEF InTrunc
  <2> QED  BY <2>1
<1>2. ASSUME NEW t \in S
      PROVE  \/ /\ pc[t] = "w_ext" /\ reg[t].next < reg[t].to
                /\ WaitsFor(t) = extLock[reg[t].next]
             \/ pc[t] \in {"w_put", "f_put", "p_put"} /\ WaitsFor(t) = inoLock
  BY <1>0, <1>1, Waits
<1>3. \A t \in S : WaitsFor(t) # inoLock
  <2> SUFFICES ASSUME NEW t \in S, WaitsFor(t) = inoLock PROVE FALSE
    OBVIOUS
  <2>1. inoLock \in S /\ pc[inoLock] \in Committing
    BY <1>1 DEF LocksOrdered
  <2> QED  BY <1>2, <2>1 DEF Committing
<1>4. \A t \in S : reg[t].next \in 0 .. MaxExt /\ reg[t].to \in 0 .. MaxExt
  BY <1>0 DEF Register
<1>5. ASSUME NEW t \in S PROVE \E u \in S : reg[t].next < reg[u].next
  <2>1. reg[t].next < reg[t].to /\ extLock[reg[t].next] \in S
    BY <1>2, <1>3
  <2>2. reg[t].next \in Ext
    BY <1>4, <2>1, Bounds DEF Ext
  <2> QED  BY <1>1, <2>1, <2>2 DEF LocksOrdered
<1> DEFINE T == {MaxExt - reg[t].next : t \in S}
<1>6. T \in SUBSET Nat /\ T # {}
  BY <1>4, Bounds
<1>7. PICK x \in T : \A y \in T : x <= y
  BY <1>6, Least, Zenon
<1>8. PICK t \in S : x = MaxExt - reg[t].next
  BY <1>7
<1>9. PICK u \in S : reg[t].next < reg[u].next
  BY <1>5
<1>10. x <= MaxExt - reg[u].next
  BY <1>7
<1> QED  BY <1>4, <1>8, <1>9, <1>10, Bounds

\* Calls never deadlock over the locks of extents and the inode, however many
\* threads write, sync and update attributes: extents are locked in ascending order
\* and the inode last, just before the commit.  A truncating open takes the inode's
\* lock first and must be alone.
THEOREM NoDeadlock ==
    ASSUME ~Truncates \/ ~TruncRace
    PROVE  Spec => []NoLockCycle
<1> DEFINE I == Typed /\ Room /\ Alone /\ LocksOrdered
<1>1. Init => I
  <2>1. Init => Alone /\ LocksOrdered
    BY ConstantsAssumption DEF Init, Alone, LocksOrdered, InTrunc
  <2> QED  BY <2>1, TypedInit
<1>2. I /\ [Next]_vars => I'
  BY TypedNext, RoomNext, AloneNext, LocksNext
<1>3. I => NoLockCycle
  BY OrderedNoCycle
<1> QED  BY <1>1, <1>2, <1>3, PTL DEF Spec

----------------------------------------------------------------------------
(* Atomic writes *)

\* Versions in the database are those of the writes committed.
Versions == \A v \in recoverable, e \in Ext : v.data[e] <= ver

\* The database takes over states that a crash could leave, or keeps the data and
\* changes the size only.
LEMMA AtomicKept ==
    ASSUME Typed, Versions, WriteAllOrNothing, UNCHANGED <<ver, wrote>>,
           \A v \in recoverable' : \E w \in recoverable : v.data = w.data
    PROVE  Versions' /\ WriteAllOrNothing'
<1>1. Versions'
  BY DEF Versions
<1>2. WriteAllOrNothing'
  BY DEF WriteAllOrNothing
<1> QED  BY <1>1, <1>2

\* The commit of a write puts all of its extents.
LEMMA AtomicWriteCommit ==
    ASSUME Typed, Room, Batches, Versions, WriteAllOrNothing, NEW t \in Thread,
           WriteCommit(t)
    PROVE  Versions' /\ WriteAllOrNothing'
<1> DEFINE put == reg[t].put
           d == [e \in Ext |-> IF e \in put THEN ver + 1 ELSE db.data[e]]
           new == Stored(d, SizeAfter(reg[t]))
<1>1. /\ recoverable' = recoverable \cup {new} /\ ver' = ver + 1
      /\ wrote' = [wrote EXCEPT ![ver + 1] = reg[t].from .. reg[t].to - 1]
  BY DEF WriteCommit, CommitNoSync
<1>2. new.data = d
  BY DEF Stored
<1>3. /\ ver \in Int /\ ver >= 0 /\ ver + 1 \in 1 .. MaxVer
      /\ wrote \in [1 .. MaxVer -> SUBSET Ext]
  <2>1. ver \in Int /\ ver >= 0 /\ wrote \in [1 .. MaxVer -> SUBSET Ext]
    BY Bounds DEF Typed, HistoryTyped
  <2>2. Writers # {}
    BY DEF WriteCommit, Writers, InWrite
  <2>3. Cardinality(Writers) # 0
    BY <2>2, WritersFinite, FS_EmptySet
  <2>4. Cardinality(Writers) >= 1
    BY <2>3, WritersFinite, FS_CardinalityType
  <2> QED  BY <2>1, <2>4, WritersFinite, Bounds DEF Room
<1>4. put = reg[t].from .. reg[t].to - 1 /\ put \subseteq Ext
  BY DEF WriteCommit, Batches, BatchOK, Typed, CallsTyped, Register
<1>5. /\ wrote'[ver + 1] = put
      /\ \A n \in 1 .. ver : wrote'[n] = wrote[n]
  BY <1>1, <1>3, <1>4
<1>6. db \in recoverable /\ recoverable \subseteq Database
  BY DEF Typed, DbTyped
<1>7. \A v \in recoverable, e \in Ext : v.data[e] \in Int /\ v.data[e] <= ver
  BY <1>6, Bounds DEF Database, Versions
<1>8. \A e \in Ext : d[e] = IF e \in put THEN ver + 1 ELSE db.data[e]
  OBVIOUS
<1> HIDE DEF d, put
<1>9. \A e \in Ext : d[e] \in Int /\ d[e] <= ver + 1
  BY <1>3, <1>6, <1>7, <1>8
<1>10. Versions'
  <2>1. \A e \in Ext : new.data[e] <= ver + 1
    BY <1>2, <1>9
  <2>2. \A v \in recoverable, e \in Ext : v.data[e] <= ver + 1
    BY <1>3, <1>7
  <2> HIDE DEF new
  <2> QED  BY <1>1, <2>1, <2>2 DEF Versions
<1>11. ASSUME NEW v \in recoverable', NEW n \in 1 .. ver',
              NEW e \in Ext, v.data[e] = n, NEW x \in wrote'[n]
       PROVE  v.data[x] >= n
  <2>0. n \in 1 .. ver \/ n = ver + 1
    BY <1>1, <1>3
  <2>1. CASE v \in recoverable
    <3>1. n \in 1 .. ver
      BY <1>3, <1>7, <1>11, <2>0, <2>1
    <3>2. wrote'[n] = wrote[n]
      BY <1>5, <3>1
    <3> QED  BY <1>11, <2>1, <3>1, <3>2 DEF WriteAllOrNothing
  <2>2. CASE v = new /\ n = ver + 1
    <3>1. x \in put /\ x \in Ext
      BY <1>4, <1>5, <1>11, <2>2, Zenon
    <3> QED  BY <1>2, <1>3, <1>8, <2>2, <3>1
  <2>3. CASE v = new /\ n \in 1 .. ver
    <3>1. v.data = d
      BY <1>2, <2>3
    <3>2. db.data[e] = n
      BY <1>3, <1>8, <1>11, <2>3, <3>1
    <3>3. x \in wrote[n] /\ x \in Ext
      <4>1. n \in 1 .. MaxVer
        BY <1>3, <2>3, Bounds
      <4>2. wrote[n] \subseteq Ext
        BY <1>3, <4>1
      <4>3. x \in wrote[n]
        BY <1>5, <1>11, <2>3
      <4> QED  BY <4>2, <4>3
    <3>4. db.data[x] >= n
      BY <1>6, <2>3, <3>2, <3>3 DEF WriteAllOrNothing
    <3> QED  BY <1>3, <1>8, <2>3, <3>1, <3>3, <3>4
  <2> HIDE DEF new
  <2> QED  BY <1>1, <2>0, <2>1, <2>2, <2>3
<1> QED  BY <1>10, <1>11 DEF WriteAllOrNothing

\* The commit of O_TRUNC deletes extents, of the file and of what the history says
\* was written.
LEMMA AtomicTruncCommit ==
    ASSUME Typed, Versions, WriteAllOrNothing, NEW t \in Thread, TruncCommit(t)
    PROVE  Versions' /\ WriteAllOrNothing'
<1> DEFINE put == reg[t].put
           d == [e \in Ext |-> IF e \in put THEN 0 ELSE db.data[e]]
           new == Stored(d, SizeAfter(reg[t]))
<1>1. recoverable' = {new} /\ ver' = ver /\ wrote' = [n \in 1 .. MaxVer |-> wrote[n] \ put]
  BY DEF TruncCommit, CommitSync
<1>2. new.data = d
  BY DEF Stored
<1>3. ver \in Int /\ ver >= 0 /\ ver <= MaxVer /\ db \in recoverable
      /\ wrote \in [1 .. MaxVer -> SUBSET Ext]
  BY Bounds DEF Typed, HistoryTyped, DbTyped
<1>4. \A e \in Ext : d[e] = IF e \in put THEN 0 ELSE db.data[e]
  OBVIOUS
<1> HIDE DEF d, put
<1>5. \A e \in Ext : new.data[e] <= ver
  BY <1>2, <1>3, <1>4 DEF Versions
<1> HIDE DEF new
<1>6. Versions'
  BY <1>1, <1>5 DEF Versions
<1>7. ASSUME NEW n \in 1 .. ver, NEW e \in Ext, new.data[e] = n, NEW x \in wrote'[n]
      PROVE  new.data[x] >= n
  <2>1. n \in 1 .. MaxVer /\ n # 0
    BY <1>3, Bounds
  <2>2. x \in wrote[n] /\ x \notin put /\ x \in Ext
    BY <1>1, <1>3, <1>7, <2>1
  <2>3. db.data[e] = n /\ new.data[x] = db.data[x]
    BY <1>2, <1>4, <1>7, <2>1, <2>2
  <2> QED  BY <1>3, <2>2, <2>3 DEF WriteAllOrNothing
<1>8. WriteAllOrNothing'
  BY <1>1, <1>7 DEF WriteAllOrNothing
<1> QED  BY <1>6, <1>8

\* A crash can leave no data that it could not leave before.
SameData ==
    /\ UNCHANGED <<ver, wrote>>
    /\ \A v \in recoverable' : \E w \in recoverable : v.data = w.data

\* Only the commits of writes and of O_TRUNC change data.
LEMMA DataSteps ==
    ASSUME Typed, [Next]_vars
    PROVE  SameData \/ \E t \in Thread : WriteCommit(t) \/ TruncCommit(t)
<1>0. db \in recoverable
  BY DEF Typed, DbTyped
<1>1. ASSUME UNCHANGED <<db_, ver, wrote>> PROVE SameData
  BY <1>1 DEF db_, SameData
<1>2. ASSUME NEW s, CommitNoSync(Stored(db.data, s)), UNCHANGED <<ver, wrote>>
      PROVE  SameData
  <2>1. Stored(db.data, s).data = db.data
    BY DEF Stored
  <2>2. \A v \in recoverable' : \E w \in recoverable : v.data = w.data
    BY <1>0, <1>2, <2>1 DEF CommitNoSync
  <2> QED  BY <1>2, <2>2 DEF SameData
<1>3. ASSUME NEW t \in Thread, PersistInode(t) PROVE SameData
  BY <1>1, <1>2, <1>3 DEF PersistInode, PersistPut, PersistCommit, PersistFail, history
<1>4. ASSUME NEW t \in Thread, Truncate(t) PROVE SameData \/ TruncCommit(t)
  BY <1>1, <1>4
     DEF Truncate, TruncGet, TruncDelete, TruncSize, TruncPutInode, TruncFail, history
<1>5. ASSUME NEW t \in Thread, Write(t) PROVE SameData \/ WriteCommit(t)
  BY <1>1, <1>5
     DEF Write, WriteExtent, WriteCheckSize, WriteStoreSize, WritePutInode, WriteFail, history
<1>6. ASSUME NEW t \in Thread, Sync(t) PROVE SameData
  <2>1. CASE SyncFlush(t)
    <3>1. UNCHANGED <<ver, wrote>> /\ \A v \in recoverable' : v = db
      BY <2>1 DEF SyncFlush, SyncReturn
    <3> QED  BY <1>0, <3>1 DEF SameData
  <2>2. CASE SyncCommit(t)
    BY <1>2, <2>2 DEF SyncCommit, history
  <2>3. CASE SyncPutInode(t) \/ SyncFail(t)
    BY <1>1, <2>3 DEF SyncPutInode, SyncFail, SyncReturn, history
  <2> QED  BY <1>6, <2>1, <2>2, <2>3 DEF Sync
<1>7. ASSUME Crash PROVE SameData
  <2>1. UNCHANGED <<ver, wrote>> /\ \A v \in recoverable' : v \in recoverable
    BY <1>7 DEF Crash, history
  <2> QED  BY <2>1 DEF SameData
<1>8. ASSUME NEW c \in Copy, Lookup(c) \/ Release(c) PROVE SameData
  BY <1>1, <1>8 DEF Lookup, Release, history
<1>9. ASSUME NEW t \in Thread, NEW c \in Copy, PersistBegin(t, c)
      PROVE  SameData
  BY <1>1, <1>9 DEF PersistBegin, history
<1>10. ASSUME NEW t \in Thread, NEW h \in Handle, NEW c \in Copy,
              OpenByInode(t, h, c) \/ Open(t, h, c) \/ TruncBegin(t, h, c)
       PROVE  SameData
  BY <1>1, <1>10 DEF OpenByInode, Open, TruncBegin, history
<1>11. ASSUME NEW t \in Thread, NEW h \in Handle,
              \/ \E from, to \in 0 .. MaxExt : WriteBegin(t, h, from, to)
              \/ Read(t, h)
              \/ \E mode \in {"sync", "close"} : SyncBegin(t, h, mode)
       PROVE  SameData
  BY <1>1, <1>11, Zenon DEF WriteBegin, Read, SyncBegin, history
<1>12. ASSUME UNCHANGED vars PROVE SameData
  BY <1>1, <1>12 DEF vars, history
<1> QED
  BY <1>3, <1>4, <1>5, <1>6, <1>7, <1>8, <1>9, <1>10, <1>11, <1>12 DEF Next, Step

\* Every step keeps writes atomic.
LEMMA AtomicNext ==
    ASSUME Typed, Room, Batches, Versions, WriteAllOrNothing, [Next]_vars
    PROVE  Versions' /\ WriteAllOrNothing'
  BY DataSteps, AtomicKept, AtomicWriteCommit, AtomicTruncCommit, Zenon DEF SameData

\* A vn_write is atomic in every state a crash can leave, as long as no wait for a
\* lock times out (the statuses of Put and Merge are ignored, so that one that does
\* leaves its extent out): any number of threads may write and share files, sizes
\* may race, commits fail and files be truncated meanwhile.
THEOREM WritesAtomic ==
    ASSUME ~LockTimeouts
    PROVE  Spec => []WriteAllOrNothing
<1> DEFINE I == Inv /\ Batches /\ Versions /\ WriteAllOrNothing
<1>1. Init => I
  <2> SUFFICES ASSUME Init PROVE Batches /\ Versions /\ WriteAllOrNothing
    BY InvInit
  <2>1. Batches
    BY DEF Init, Batches, BatchOK
  <2>2. Versions
    BY DEF Init, Versions, EmptyFile, Stored
  <2>3. WriteAllOrNothing
    BY DEF Init, WriteAllOrNothing
  <2> QED  BY <2>1, <2>2, <2>3
<1>2. I /\ [Next]_vars => I'
  BY InvNext, BatchesNext, AtomicNext DEF Inv
<1>3. I => WriteAllOrNothing
  OBVIOUS
<1> QED  BY <1>1, <1>2, <1>3, PTL DEF Spec
----------------------------------------------------------------------------
(* What an O_TRUNC has deleted *)

\* A write's transaction has extents of its range only, which are behind `next'.
InsideOK(p, r) == p \in InWrite => r.from <= r.next /\ r.put \subseteq r.from .. r.next - 1

Inside == \A t \in Thread : InsideOK(pc[t], reg[t])

\* A segment that is put or left out because its lock times out.
LEMMA InsideWriteExtent ==
    ASSUME Typed, Inside, NEW t \in Thread, WriteExtent(t)
    PROVE  Inside'
<1>0. pc' = pc /\ pc[t] = "w_ext" /\ pc \in [Thread -> PC] /\ reg \in [Thread -> Register]
  BY DEF WriteExtent, Typed, CallsTyped
<1>1. reg[t] \in Register /\ InsideOK(pc[t], reg[t])
  BY <1>0 DEF Inside
<1>2. /\ reg[t].from \in Int /\ reg[t].next \in Int /\ reg[t].from <= reg[t].next
      /\ reg[t].put \subseteq reg[t].from .. reg[t].next - 1
  BY <1>0, <1>1, Bounds DEF Register, InsideOK, InWrite
<1>3. ASSUME NEW r, Set(t, r), InsideOK(pc[t], r) PROVE Inside'
  BY <1>0, <1>3 DEF Set, Inside
<1>4. CASE Set(t, [reg[t] EXCEPT !.next = reg[t].next + 1,
                                 !.put = reg[t].put \cup {reg[t].next}])
  <2> DEFINE r == [reg[t] EXCEPT !.next = reg[t].next + 1,
                                 !.put = reg[t].put \cup {reg[t].next}]
  <2>1. r.from = reg[t].from /\ r.next = reg[t].next + 1
        /\ r.put = reg[t].put \cup {reg[t].next}
    BY <1>1 DEF Register
  <2> HIDE DEF r
  <2>2. InsideOK(pc[t], r)
    BY <1>2, <2>1 DEF InsideOK
  <2> QED  BY <1>3, <1>4, <2>2 DEF r
<1>5. CASE Set(t, [reg[t] EXCEPT !.next = reg[t].next + 1])
  <2> DEFINE r == [reg[t] EXCEPT !.next = reg[t].next + 1]
  <2>1. r.from = reg[t].from /\ r.next = reg[t].next + 1 /\ r.put = reg[t].put
    BY <1>1 DEF Register
  <2> HIDE DEF r
  <2>2. InsideOK(pc[t], r)
    BY <1>2, <2>1 DEF InsideOK
  <2> QED  BY <1>3, <1>5, <2>2 DEF r
<1> QED  BY <1>4, <1>5 DEF WriteExtent

\* A step of a call, which moves on in its write or is not in one.
LEMMA InsideStep ==
    ASSUME Typed, Inside, NEW t \in Thread, Step(t)
    PROVE  Inside'
<1>0. pc \in [Thread -> PC] /\ reg \in [Thread -> Register]
  BY DEF Typed, CallsTyped
<1>1. \A u \in Thread \ {t} : pc'[u] = pc[u] /\ reg'[u] = reg[u]
  BY OtherThreads
<1>2. SUFFICES ASSUME ~WriteExtent(t) PROVE InsideOK(pc'[t], reg'[t])
  <2>1. CASE WriteExtent(t)
    BY <2>1, InsideWriteExtent
  <2>2. CASE ~WriteExtent(t)
    BY <1>1, <1>2, <2>2 DEF Inside
  <2> QED  BY <2>1, <2>2
<1>3. reg[t] \in Register /\ InsideOK(pc[t], reg[t])
  BY <1>0 DEF Inside
<1>4. CASE WriteCheckSize(t) \/ WriteStoreSize(t)
  <2>1. reg' = reg /\ pc[t] \in InWrite
    BY <1>4 DEF WriteCheckSize, WriteStoreSize, InWrite
  <2> QED  BY <1>3, <2>1 DEF InsideOK
<1>5. CASE WritePutInode(t)
  <2> DEFINE r == [reg[t] EXCEPT !.size = memSize[reg[t].c]]
  <2>1. pc[t] \in InWrite /\ Set(t, r)
    BY <1>5 DEF WritePutInode, InWrite
  <2>2. r.from = reg[t].from /\ r.next = reg[t].next /\ r.put = reg[t].put
    BY <1>3 DEF Register
  <2> HIDE DEF r
  <2>3. reg'[t] = r
    BY <1>0, <2>1 DEF Set
  <2> QED  BY <1>3, <2>1, <2>2, <2>3 DEF InsideOK
<1>6. CASE WriteCommit(t) \/ WriteFail(t)
  <2>1. Goto(t, "idle")
    BY <1>6, Zenon DEF WriteCommit, WriteFail, Return
  <2> QED  BY <1>0, <2>1 DEF Goto, InsideOK, InWrite
<1>7. CASE PersistInode(t) \/ Truncate(t) \/ Sync(t)
  <2>1. CASE PersistInode(t)
    BY <1>0, <2>1 DEF PersistInode, PersistPut, PersistCommit, PersistFail, Return, Goto,
                      InWrite, InsideOK
  <2>2. CASE Truncate(t)
    BY <1>0, <2>2 DEF Truncate, TruncGet, TruncDelete, TruncSize, TruncPutInode,
                      TruncCommit, TruncFail, Return, Goto, InWrite, InsideOK
  <2>3. CASE Sync(t)
    BY <1>0, <2>3 DEF Sync, SyncPutInode, SyncCommit, SyncFail, SyncFlush, SyncReturn,
                      Return, Goto, InWrite, InsideOK
  <2> QED  BY <1>7, <2>1, <2>2, <2>3
<1> QED  BY <1>2, <1>4, <1>5, <1>6, <1>7 DEF Step, Write

\* A write begins with an empty transaction; no other call puts extents.
LEMMA InsideNext ==
    ASSUME Typed, Inside, [Next]_vars
    PROVE  Inside'
<1>0. pc \in [Thread -> PC] /\ reg \in [Thread -> Register]
  BY DEF Typed, CallsTyped
<1>1. ASSUME NEW t \in Thread, NEW l, NEW r, Goto(t, l), Set(t, r), InsideOK(l, r)
      PROVE  Inside'
  BY <1>0, <1>1 DEF Goto, Set, Inside
<1>2. ASSUME UNCHANGED <<pc, reg>> PROVE Inside'
  BY <1>2 DEF Inside
<1>3. ASSUME NEW t \in Thread, NEW h \in Handle, NEW from \in 0 .. MaxExt,
             NEW to \in 0 .. MaxExt, WriteBegin(t, h, from, to)
      PROVE  Inside'
  <2> DEFINE r == Locals(h, copyOf[h], from, to, {}, "none")
  <2>1. Goto(t, "w_ext") /\ Set(t, r)
    BY <1>3 DEF WriteBegin
  <2>2. r.from = from /\ r.next = from /\ r.put = {} /\ from <= from
    BY Bounds DEF Locals
  <2> HIDE DEF r
  <2>3. InsideOK("w_ext", r)
    BY <2>2 DEF InsideOK
  <2> QED  BY <1>1, <2>1, <2>3
<1>4. ASSUME NEW t \in Thread, NEW h \in Handle, NEW mode \in {"sync", "close"},
             SyncBegin(t, h, mode)
      PROVE  Inside'
  <2>1. Goto(t, "f_put") \/ Goto(t, "f_commit")
    BY <1>4 DEF SyncBegin
  <2>2. \E r : Set(t, r)
    BY <1>4 DEF SyncBegin
  <2> QED  BY <1>1, <2>1, <2>2 DEF InsideOK, InWrite
<1>5. ASSUME NEW t \in Thread, NEW h \in Handle, NEW c \in Copy, TruncBegin(t, h, c)
      PROVE  Inside'
  <2>1. \E r : Goto(t, "t_get") /\ Set(t, r)
    BY <1>5 DEF TruncBegin
  <2> QED  BY <1>1, <2>1 DEF InsideOK, InWrite
<1>6. ASSUME NEW t \in Thread, NEW c \in Copy, PersistBegin(t, c) PROVE Inside'
  <2>1. \E r : Goto(t, "p_put") /\ Set(t, r)
    BY <1>6 DEF PersistBegin
  <2> QED  BY <1>1, <2>1 DEF InsideOK, InWrite
<1>7. ASSUME Crash PROVE Inside'
  BY <1>7, Zenon DEF Crash, Inside, InsideOK, InWrite
<1>8. ASSUME NEW c \in Copy, Lookup(c) \/ Release(c) PROVE Inside'
  BY <1>2, <1>8, Zenon DEF Lookup, Release
<1>9. ASSUME NEW t \in Thread, NEW h \in Handle, NEW c \in Copy,
             OpenByInode(t, h, c) \/ Open(t, h, c)
      PROVE  Inside'
  BY <1>2, <1>9 DEF OpenByInode, Open
<1>10. ASSUME NEW t \in Thread, NEW h \in Handle, Read(t, h) PROVE Inside'
  BY <1>2, <1>10 DEF Read
<1>11. ASSUME UNCHANGED vars PROVE Inside'
  BY <1>2, <1>11 DEF vars
<1> QED
  BY <1>3, <1>4, <1>5, <1>6, <1>7, <1>8, <1>9, <1>10, <1>11, InsideStep DEF Next

\* The commit of a write puts its number into extents of its range.
LEMMA ErasedWriteCommit ==
    ASSUME Typed, Room, Inside, Versions, ErasedStaysErased, NEW t \in Thread, WriteCommit(t)
    PROVE  Versions' /\ ErasedStaysErased'
<1> DEFINE put == reg[t].put
           d == [e \in Ext |-> IF e \in put THEN ver + 1 ELSE db.data[e]]
           new == Stored(d, SizeAfter(reg[t]))
<1>1. /\ recoverable' = recoverable \cup {new} /\ ver' = ver + 1
      /\ wrote' = [wrote EXCEPT ![ver + 1] = reg[t].from .. reg[t].to - 1]
  BY DEF WriteCommit, CommitNoSync
<1>2. new.data = d
  BY DEF Stored
<1>3. /\ pc[t] \in InWrite /\ ver \in Int /\ ver >= 0 /\ ver + 1 \in 1 .. MaxVer
      /\ wrote \in [1 .. MaxVer -> SUBSET Ext]
  <2>1. ver \in Int /\ ver >= 0 /\ wrote \in [1 .. MaxVer -> SUBSET Ext]
    BY Bounds DEF Typed, HistoryTyped
  <2>2. pc[t] \in InWrite
    BY DEF WriteCommit, InWrite
  <2> QED  BY <2>1, <2>2, RoomForWrite
<1>4. put \subseteq reg[t].from .. reg[t].to - 1
  <2>1. reg[t] \in Register /\ LocalsOK(pc[t], reg[t]) /\ InsideOK(pc[t], reg[t])
    BY DEF Typed, CallsTyped, Inside
  <2>2. reg[t].from \in Int /\ reg[t].next \in Int /\ reg[t].to \in Int
    BY <2>1, Bounds DEF Register
  <2>3. reg[t].next <= reg[t].to /\ put \subseteq reg[t].from .. reg[t].next - 1
    BY <1>3, <2>1 DEF LocalsOK, InsideOK
  <2> HIDE DEF put
  <2> QED  BY <2>2, <2>3
<1>5. \A e \in Ext : d[e] = IF e \in put THEN ver + 1 ELSE db.data[e]
  OBVIOUS
<1> HIDE DEF d, put
<1>6. /\ db \in recoverable
      /\ \A v \in recoverable, e \in Ext : v.data[e] \in Int /\ v.data[e] >= 0 /\ v.data[e] <= ver
  BY Bounds DEF Typed, DbTyped, Database, Versions
<1>7. /\ wrote'[ver + 1] = reg[t].from .. reg[t].to - 1
      /\ \A n \in 1 .. ver : wrote'[n] = wrote[n]
  BY <1>1, <1>3
<1>8. Versions'
  <2>1. \A e \in Ext : new.data[e] <= ver + 1
    BY <1>2, <1>3, <1>5, <1>6
  <2>2. \A v \in recoverable, e \in Ext : v.data[e] <= ver + 1
    BY <1>3, <1>6
  <2> HIDE DEF new
  <2> QED  BY <1>1, <2>1, <2>2 DEF Versions
<1>9. ASSUME NEW v \in recoverable, NEW e \in Ext, v.data[e] # 0
      PROVE  e \in wrote'[v.data[e]]
  <2>1. v.data[e] \in 1 .. ver
    BY <1>3, <1>6, <1>9
  <2> QED  BY <1>7, <1>9, <2>1 DEF ErasedStaysErased
<1>10. ASSUME NEW e \in Ext, new.data[e] # 0 PROVE e \in wrote'[new.data[e]]
  <2>1. CASE e \in put
    BY <1>2, <1>4, <1>5, <1>7, <2>1
  <2>2. CASE e \notin put
    BY <1>2, <1>5, <1>6, <1>9, <1>10, <2>2
  <2> QED  BY <2>1, <2>2
<1> HIDE DEF new
<1>11. ErasedStaysErased'
  BY <1>1, <1>9, <1>10 DEF ErasedStaysErased
<1> QED  BY <1>8, <1>11

\* The commit of O_TRUNC is synced: a crash can leave only what it has left.
LEMMA ErasedTruncCommit ==
    ASSUME Typed, Versions, ErasedStaysErased, NEW t \in Thread, TruncCommit(t)
    PROVE  Versions' /\ ErasedStaysErased'
<1> DEFINE put == reg[t].put
           d == [e \in Ext |-> IF e \in put THEN 0 ELSE db.data[e]]
           new == Stored(d, SizeAfter(reg[t]))
<1>1. recoverable' = {new} /\ ver' = ver /\ wrote' = [n \in 1 .. MaxVer |-> wrote[n] \ put]
  BY DEF TruncCommit, CommitSync
<1>2. new.data = d
  BY DEF Stored
<1>3. ver \in Int /\ ver >= 0 /\ ver <= MaxVer
  BY Bounds DEF Typed, HistoryTyped
<1>4. db \in recoverable /\ \A e \in Ext : db.data[e] \in 0 .. MaxVer /\ db.data[e] <= ver
  BY DEF Typed, DbTyped, Database, Versions
<1>5. \A e \in Ext : d[e] = IF e \in put THEN 0 ELSE db.data[e]
  OBVIOUS
<1> HIDE DEF d, put
<1>6. \A e \in Ext : new.data[e] <= ver
  BY <1>2, <1>3, <1>4, <1>5
<1>7. ASSUME NEW e \in Ext, new.data[e] # 0 PROVE e \in wrote'[new.data[e]]
  <2>1. e \notin put /\ new.data[e] = db.data[e]
    BY <1>2, <1>5, <1>7
  <2>2. db.data[e] \in 1 .. MaxVer /\ e \in wrote[db.data[e]]
    BY <1>4, <1>7, <2>1, Bounds DEF ErasedStaysErased
  <2> QED  BY <1>1, <2>1, <2>2
<1> HIDE DEF new
<1>8. Versions'
  BY <1>1, <1>6 DEF Versions
<1>9. ErasedStaysErased'
  BY <1>1, <1>7 DEF ErasedStaysErased
<1> QED  BY <1>8, <1>9

\* What a completed open with O_TRUNC has deleted of a write stays deleted in every
\* state that a crash can leave, and no extent ever holds data of a write that was
\* not for it.  Nothing is assumed: writes may run beside the truncation, sizes race,
\* files be shared, waits for locks time out and commits fail.
THEOREM ErasedDataStayGone == Spec => []ErasedStaysErased
<1> DEFINE I == Typed /\ Room /\ Inside /\ Versions /\ ErasedStaysErased
<1>1. Init => I
  <2> SUFFICES ASSUME Init PROVE Inside /\ Versions /\ ErasedStaysErased
    BY TypedInit
  <2>1. Inside
    BY DEF Init, Inside, InsideOK, InWrite
  <2>2. Versions
    BY DEF Init, Versions, EmptyFile, Stored
  <2>3. ErasedStaysErased
    BY DEF Init, ErasedStaysErased, EmptyFile, Stored
  <2> QED  BY <2>1, <2>2, <2>3
<1>2. I /\ [Next]_vars => I'
  <2> SUFFICES ASSUME I, [Next]_vars PROVE I'
    OBVIOUS
  <2>1. Versions' /\ ErasedStaysErased'
    <3>1. SameData => Versions' /\ ErasedStaysErased'
      BY DEF SameData, Versions, ErasedStaysErased
    <3> QED  BY <3>1, DataSteps, ErasedWriteCommit, ErasedTruncCommit, Zenon
  <2> QED  BY <2>1, TypedNext, RoomNext, InsideNext
<1>3. I => ErasedStaysErased
  OBVIOUS
<1> QED  BY <1>1, <1>2, <1>3, PTL DEF Spec
=============================================================================
