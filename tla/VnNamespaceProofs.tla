------------------------- MODULE VnNamespaceProofs -------------------------
(***************************************************************************)
(* Proofs about VnNamespace for any number of threads, names, directories, *)
(* inode numbers and link counts.                                          *)
(***************************************************************************)
EXTENDS VnNamespace, TLAPS

-----------------------------------------------------------------------------
(* Type correctness *)

\* A call runs only while the volume is mounted, and its local variables are
\* set where a later step reads them.
RegOK ==
    \A t \in Thread :
        /\ pc[t] # "idle" => mounted
        /\ pc[t] \in InCreate \cup InUnlink => reg[t].key \in Key /\ reg[t].ino \in Ino
        /\ pc[t] = "c_commit" => reg[t].seed \in Seeds

Typed == TypeOK /\ RegOK

USE DEF VN_ROOT_INO, VN_FIRST_USER_INO, NoIno, Stored, WithEntry, WithLinks, Locals

\* No call, mount or crash takes a variable out of its type.
LEMMA TypedInit == Init => Typed
<1> SUFFICES ASSUME Init PROVE Typed
  OBVIOUS
<1>1. FormattedDb \in Database
  BY ConstantsAssumption DEF FormattedDb, Database, Ino, Seeds
<1>2. Reg0 \in Register
  BY ConstantsAssumption DEF Reg0, Register, Ino, Seeds
<1> QED
  BY <1>1, <1>2, ConstantsAssumption DEF Init, Typed, TypeOK, RegOK, PC, InCreate, InUnlink, CreatePut

\* Every step, of every call and of a crash, keeps the variables in their domains.
LEMMA TypedNext == Typed /\ [Next]_vars => Typed'
<1> SUFFICES ASSUME Typed, [Next]_vars PROVE Typed'
  OBVIOUS
<1> USE ConstantsAssumption DEF Typed, TypeOK, RegOK, PC, InCreate, InUnlink, CreatePut
<1>r. Reg0 \in Register
  BY DEF Reg0, Register, Ino, Seeds
<1>1. ASSUME NEW t \in Thread, Create(t) PROVE Typed'
  <2>1. ASSUME NEW k \in Key, CreateLoadSeed(t, k) PROVE Typed'
    BY <2>1 DEF CreateLoadSeed, Goto, locks, Register, Ino, Seeds
  <2>2. CASE CreateStoreSeed(t)
    BY <2>2 DEF CreateStoreSeed, Goto, locks, Ino, Seeds
  <2>3. CASE CreateGet(t)
    BY <2>3 DEF CreateGet, Goto
  <2>4. CASE CreateExists(t)
    BY <2>4, <1>r DEF CreateExists, Return, Goto, Unlocked
  <2>5. CASE CreateGetTimeout(t)
    BY <2>5 DEF CreateGetTimeout, Goto, locks
  <2>6. CASE CreatePutName(t)
    BY <2>6 DEF CreatePutName, Goto
  <2>7. CASE CreatePutInode(t)
    BY <2>7 DEF CreatePutInode, Goto
  <2>8. CASE CreatePutSeed(t)
    BY <2>8 DEF CreatePutSeed, Goto, Register
  <2>9. CASE CreateCommit(t)
    BY <2>9, <1>r DEF CreateCommit, CommitSync, Return, Goto, Unlocked, Database
  <2>10. CASE CreateFail(t)
    BY <2>10, <1>r DEF CreateFail, Return, Goto, Unlocked
  <2> QED
    BY <1>1, <2>1, <2>2, <2>3, <2>4, <2>5, <2>6, <2>7, <2>8, <2>9, <2>10 DEF Create
<1>2. ASSUME NEW t \in Thread, Unlink(t) PROVE Typed'
  <2>1. ASSUME NEW k \in Key, UnlinkLookupName(t, k) PROVE Typed'
    BY <2>1 DEF UnlinkLookupName, Goto, locks, Register, Database
  <2>2. CASE UnlinkLookupInode(t)
    <3>1. CASE db.links[reg[t].ino] = 0
      BY <2>2, <3>1, <1>r DEF UnlinkLookupInode, Return, Goto, Unlocked
    <3>2. CASE db.links[reg[t].ino] # 0
      <4>1. db.links[reg[t].ino] - 1 \in 0 .. MaxLinks
        BY <2>2, <3>2 DEF UnlinkLookupInode, Database
      <4>2. reg' \in [Thread -> Register]
        BY <2>2, <3>2, <4>1 DEF UnlinkLookupInode, Register
      <4> QED
        BY <2>2, <3>2, <4>2 DEF UnlinkLookupInode, Goto, locks
    <3> QED
      BY <3>1, <3>2
  <2>3. CASE UnlinkDeleteName(t)
    BY <2>3 DEF UnlinkDeleteName, Goto
  <2>4. CASE UnlinkPutInode(t)
    BY <2>4 DEF UnlinkPutInode, Goto
  <2>5. CASE UnlinkCommit(t)
    <3>1. db' \in Database /\ recoverable' \subseteq Database /\ db' \in recoverable'
      <4>1. CASE reg[t].links # 0
        BY <2>5, <4>1 DEF UnlinkCommit, CommitSync, Stored, WithLinks, Database, Register
      <4>2. CASE reg[t].links = 0
        BY <2>5, <4>2 DEF UnlinkCommit, CommitSync, Stored, WithEntry, Database
      <4> QED
        BY <4>1, <4>2
    <3> QED
      BY <2>5, <3>1, <1>r DEF UnlinkCommit, Return, Goto, Unlocked
  <2>6. CASE UnlinkFail(t)
    BY <2>6, <1>r DEF UnlinkFail, Return, Goto, Unlocked
  <2> QED
    BY <1>2, <2>1, <2>2, <2>3, <2>4, <2>5, <2>6 DEF Unlink
<1>3. ASSUME NEW t \in Thread, Iterate(t) PROVE Typed'
  <2>1. ASSUME NEW d \in Dir, IterBegin(t, d) PROVE Typed'
    BY <2>1 DEF IterBegin, Goto, locks
  <2>2. ASSUME NEW e \in Name \X Ino, IterNext(t, e) PROVE Typed'
    BY <2>2 DEF IterNext, locks
  <2>3. CASE IterRelease(t)
    BY <2>3 DEF IterRelease, Goto, locks
  <2> QED
    BY <1>3, <2>1, <2>2, <2>3 DEF Iterate
<1>4. ASSUME NEW i \in Ino, NEW n \in 1 .. MaxLinks, PersistInode(i, n) PROVE Typed'
  BY <1>4 DEF PersistInode, CommitNoSync, Database, locks
<1>5. CASE FlushFs
  BY <1>5 DEF FlushFs, locks
<1>6. CASE Mount
  BY <1>6 DEF Mount, locks, Database, Seeds
<1>7. CASE Umount
  BY <1>7 DEF Umount, locks
<1>8. CASE Crash
  BY <1>8, <1>r DEF Crash
<1>9. CASE UNCHANGED vars
  BY <1>9 DEF vars, locks
<1> QED
  BY <1>1, <1>2, <1>3, <1>4, <1>5, <1>6, <1>7, <1>8, <1>9 DEF Next

\* Every variable keeps the type of the data it stands for.
THEOREM TypeCorrect == Spec => []TypeOK
<1>1. Typed => TypeOK
  BY DEF Typed
<1> QED
  BY <1>1, TypedInit, TypedNext, PTL DEF Spec

-----------------------------------------------------------------------------
(* Entries and inode records *)

\* An inode record, once stored, is in every state a crash can leave, and
\* whatever number a running unlink or iterator remembers has one.
RecordsKept ==
    /\ \A v \in recoverable : \A i \in Ino : v.links[i] # 0 <=> db.links[i] # 0
    /\ \A t \in Thread :
         /\ pc[t] \in InUnlink => db.links[reg[t].ino] # 0
         /\ \A e \in iter[t] : db.links[e[2]] # 0

Kept == NoDanglingEntry /\ NamespaceDurable /\ RecordsKept

\* A formatted volume has no entries and no records to lose.
LEMMA KeptInit == Init => Kept
BY ConstantsAssumption DEF Init, Kept, NoDanglingEntry, NamespaceDurable, RecordsKept,
   FormattedDb, InUnlink, Ino

\* No step of a call removes an inode record or leaves an entry without one:
\* vn_create_file puts both in one batch and vn_unlink keeps the record.
LEMMA KeptNext == Typed /\ Typed' /\ Kept /\ [Next]_vars => Kept'
<1> SUFFICES ASSUME Typed, Typed', Kept, [Next]_vars PROVE Kept'
  OBVIOUS
<1> USE ConstantsAssumption DEF InUnlink
<1>t. /\ db \in Database /\ recoverable \subseteq Database /\ db \in recoverable
      /\ pc \in [Thread -> PC] /\ reg \in [Thread -> Register]
      /\ iter \in [Thread -> SUBSET (Name \X Ino)]
      /\ \A t \in Thread : pc[t] \in InCreate \cup InUnlink
                             => reg[t].key \in Key /\ reg[t].ino \in Ino
  BY DEF Typed, TypeOK, RegOK
<1> USE DEF Kept, NoDanglingEntry, NamespaceDurable, RecordsKept
<1>1. ASSUME NEW t \in Thread, Create(t) PROVE Kept'
  <2>1. CASE CreateCommit(t)
    <3>1. reg[t].key \in Key /\ reg[t].ino \in Ino
      BY <2>1, <1>t DEF CreateCommit, InCreate, CreatePut
    <3>2. /\ db' = Stored(WithEntry(reg[t].key, reg[t].ino), WithLinks(reg[t].ino, 1), reg[t].seed)
          /\ recoverable' = {db'}
      BY <2>1 DEF CreateCommit, CommitSync
    <3>3. \A i \in Ino : db.links[i] # 0 => db'.links[i] # 0
      BY <3>1, <3>2, <1>t DEF Database
    <3>4. NoDanglingEntry'
      BY <3>1, <3>2, <1>t DEF Database
    <3> QED
      <4>1. /\ \A u \in Thread \ {t} : pc'[u] = pc[u] /\ reg'[u] = reg[u]
            /\ pc'[t] \notin InUnlink /\ iter' = iter
        BY <2>1, <1>t DEF CreateCommit, Return, Goto
      <4>2. \A u \in Thread : pc'[u] \in InUnlink => db'.links[reg'[u].ino] # 0
        BY <4>1, <3>3, <1>t
      <4>3. \A u \in Thread : \A e \in iter'[u] : db'.links[e[2]] # 0
        BY <4>1, <3>3, <1>t
      <4>4. RecordsKept' /\ NamespaceDurable'
        BY <3>2, <4>2, <4>3
      <4> QED
        BY <3>4, <4>4
  <2>2. CASE ~CreateCommit(t)
    <3>1. UNCHANGED <<db, recoverable, iter>> /\ pc'[t] \notin InUnlink
      BY <1>1, <2>2, <1>t DEF Create, CreateLoadSeed, CreateStoreSeed, CreateGet, CreateExists,
         CreateGetTimeout, CreatePutName, CreatePutInode, CreatePutSeed, CreateFail, Return, Goto
    <3>2. \A u \in Thread \ {t} : pc'[u] = pc[u] /\ reg'[u] = reg[u]
      BY <1>1, <2>2, <1>t DEF Create, CreateLoadSeed, CreateStoreSeed, CreateGet, CreateExists,
         CreateGetTimeout, CreatePutName, CreatePutInode, CreatePutSeed, CreateFail, Return, Goto
    <3> QED
      BY <3>1, <3>2
  <2> QED
    BY <2>1, <2>2
<1>2. ASSUME NEW t \in Thread, Unlink(t) PROVE Kept'
  <2>1. ASSUME NEW k \in Key, UnlinkLookupName(t, k) PROVE Kept'
    <3>1. db.links[db.dirent[k]] # 0
      BY <2>1, <1>t DEF UnlinkLookupName
    <3> QED
      BY <2>1, <3>1, <1>t DEF UnlinkLookupName, Goto
  <2>2. CASE UnlinkLookupInode(t)
    BY <2>2, <1>t DEF UnlinkLookupInode, Return, Goto
  <2>3. CASE UnlinkDeleteName(t)
    BY <2>3, <1>t DEF UnlinkDeleteName, Goto
  <2>4. CASE UnlinkPutInode(t)
    BY <2>4, <1>t DEF UnlinkPutInode, Goto
  <2>5. CASE UnlinkCommit(t)
    <3>1. reg[t].key \in Key /\ reg[t].ino \in Ino
      BY <2>5, <1>t DEF UnlinkCommit
    <3>2. /\ iter' = iter
          /\ \A u \in Thread : pc'[u] \in InUnlink => pc[u] \in InUnlink /\ reg'[u] = reg[u]
      BY <2>5, <1>t DEF UnlinkCommit, Return, Goto
    <3>3. CASE reg[t].links # 0
      <4>1. /\ db' = Stored(db.dirent, WithLinks(reg[t].ino, reg[t].links), db.seed)
            /\ recoverable' = {db'}
        BY <2>5, <3>3 DEF UnlinkCommit, CommitSync
      <4>2. \A i \in Ino : db.links[i] # 0 => db'.links[i] # 0
        BY <3>1, <3>3, <4>1, <1>t DEF Database
      <4>3. NoDanglingEntry'
        BY <4>1, <4>2, <1>t DEF Database
      <4> QED
        BY <3>2, <4>1, <4>2, <4>3, <1>t
    <3>4. CASE reg[t].links = 0 /\ dirLock[reg[t].key] = t
      <4>1. /\ db' = Stored(WithEntry(reg[t].key, NoIno), db.links, db.seed)
            /\ recoverable' = {db'}
        BY <2>5, <3>4 DEF UnlinkCommit, CommitSync
      <4>2. NoDanglingEntry'
        BY <3>1, <4>1, <1>t DEF Database
      <4> QED
        BY <3>2, <4>1, <4>2, <1>t
    <3>5. CASE reg[t].links = 0 /\ dirLock[reg[t].key] # t
      BY <2>5, <3>2, <3>5 DEF UnlinkCommit
    <3> QED
      BY <3>3, <3>4, <3>5
  <2>6. CASE UnlinkFail(t)
    BY <2>6, <1>t DEF UnlinkFail, Return, Goto
  <2> QED
    BY <1>2, <2>1, <2>2, <2>3, <2>4, <2>5, <2>6 DEF Unlink
<1>3. ASSUME NEW t \in Thread, Iterate(t) PROVE Kept'
  <2>1. ASSUME NEW d \in Dir, IterBegin(t, d) PROVE Kept'
    <3>1. \A e \in iter'[t] : db.links[e[2]] # 0
      <4>1. ASSUME NEW e \in Name \X Ino, db.dirent[<<d, e[1]>>] = e[2]
            PROVE  db.links[e[2]] # 0
        BY <4>1, <1>t DEF Key, Ino
      <4> QED
        BY <2>1, <4>1, <1>t DEF IterBegin
    <3> QED
      BY <2>1, <3>1, <1>t DEF IterBegin, Goto
  <2>2. ASSUME NEW e \in Name \X Ino, IterNext(t, e) PROVE Kept'
    BY <2>2, <1>t DEF IterNext
  <2>3. CASE IterRelease(t)
    BY <2>3, <1>t DEF IterRelease, Goto
  <2> QED
    BY <1>3, <2>1, <2>2, <2>3 DEF Iterate
<1>4. ASSUME NEW i \in Ino, NEW n \in 1 .. MaxLinks, PersistInode(i, n) PROVE Kept'
  <2>1. /\ db' = Stored(db.dirent, WithLinks(i, n), db.seed)
        /\ recoverable' = recoverable \cup {db'}
        /\ db.links[i] # 0 /\ UNCHANGED <<pc, reg, iter>>
    BY <1>4 DEF PersistInode, CommitNoSync
  <2>2. \A j \in Ino : db'.links[j] # 0 <=> db.links[j] # 0
    BY <2>1, <1>t DEF Database
  <2>3. NoDanglingEntry'
    BY <2>1, <2>2, <1>t DEF Database
  <2>4. NamespaceDurable'
    BY <2>1
  <2>5. RecordsKept'
    BY <2>1, <2>2, <1>t DEF Database, Register, PC
  <2> QED
    BY <2>3, <2>4, <2>5
<1>5. CASE FlushFs
  BY <1>5, <1>t DEF FlushFs
<1>6. CASE Mount
  BY <1>6 DEF Mount
<1>7. CASE Umount
  BY <1>7, <1>t DEF Umount
<1>8. CASE Crash
  BY <1>8, <1>t DEF Crash
<1>9. CASE UNCHANGED vars
  BY <1>9 DEF vars
<1> QED
  BY <1>1, <1>2, <1>3, <1>4, <1>5, <1>6, <1>7, <1>8, <1>9 DEF Next

\* The two invariants hold in every state of every behaviour.
LEMMA KeptAlways == Spec => [](Typed /\ Kept)
BY TypedInit, TypedNext, KeptInit, KeptNext, PTL DEF Spec

\* In every state a crash can leave, every entry leads to an inode record.
THEOREM EntriesHaveInodes == Spec => []NoDanglingEntry
BY KeptAlways, PTL DEF Kept

\* A crash at any moment loses no committed create or unlink.
THEOREM NamespaceSurvivesCrash == Spec => []NamespaceDurable
BY KeptAlways, PTL DEF Kept

\* No lookup and no iterator ever meets a missing inode record.
THEOREM LookupsFindInodes == Spec => []InodeNeverLost
<1>1. Kept => InodeNeverLost
  BY DEF Kept, RecordsKept, InodeNeverLost, InUnlink
<1> QED
  BY <1>1, KeptAlways, PTL


-----------------------------------------------------------------------------
(* Locks *)

\* Who holds a lock is past the step that takes it and before its commit.
LocksOK ==
    /\ \A k \in Key, t \in Thread : dirLock[k] = t =>
         reg[t].key = k /\ pc[t] \in CreatePut \cup {"u_commit"}
    /\ \A i \in Ino, t \in Thread : inoLock[i] = t =>
         reg[t].ino = i /\ pc[t] \in {"c_seed", "c_commit", "u_commit"}
    /\ \A t \in Thread : seedLock = t => pc[t] = "c_commit"

\* No lock is held before the first mount.
LEMMA LocksInit == Init => LocksOK
BY ConstantsAssumption DEF Init, LocksOK

\* Every call takes its locks at the steps LocksOK names and frees them when it
\* returns, on the error paths too.
LEMMA LocksNext == Typed /\ LocksOK /\ [Next]_vars => LocksOK'
<1> SUFFICES ASSUME Typed, LocksOK, [Next]_vars PROVE LocksOK'
  OBVIOUS
<1> USE ConstantsAssumption DEF LocksOK, CreatePut
<1>t. /\ pc \in [Thread -> PC] /\ reg \in [Thread -> Register]
      /\ dirLock \in [Key -> Thread \cup {NoThread}]
      /\ inoLock \in [Ino -> Thread \cup {NoThread}]
  BY DEF Typed, TypeOK
<1>r. ASSUME NEW t \in Thread, Return(t) PROVE LocksOK'
  BY <1>r, <1>t DEF Return, Goto, Unlocked
<1>1. ASSUME NEW t \in Thread, Create(t) PROVE LocksOK'
  <2>1. ASSUME NEW k \in Key, CreateLoadSeed(t, k) PROVE LocksOK'
    BY <2>1, <1>t DEF CreateLoadSeed, Goto, locks
  <2>2. CASE CreateStoreSeed(t)
    BY <2>2, <1>t DEF CreateStoreSeed, Goto, locks
  <2>3. CASE CreateGet(t)
    BY <2>3, <1>t DEF CreateGet, Goto
  <2>4. CASE CreateGetTimeout(t)
    BY <2>4, <1>t DEF CreateGetTimeout, Goto, locks
  <2>5. CASE CreatePutName(t)
    BY <2>5, <1>t DEF CreatePutName, Goto
  <2>6. CASE CreatePutInode(t)
    BY <2>6, <1>t DEF CreatePutInode, Goto
  <2>7. CASE CreatePutSeed(t)
    BY <2>7, <1>t DEF CreatePutSeed, Goto
  <2>8. CASE CreateExists(t) \/ CreateCommit(t) \/ CreateFail(t)
    BY <2>8, <1>r DEF CreateExists, CreateCommit, CreateFail
  <2> QED
    BY <1>1, <2>1, <2>2, <2>3, <2>4, <2>5, <2>6, <2>7, <2>8 DEF Create
<1>2. ASSUME NEW t \in Thread, Unlink(t) PROVE LocksOK'
  <2>1. ASSUME NEW k \in Key, UnlinkLookupName(t, k) PROVE LocksOK'
    BY <2>1, <1>t DEF UnlinkLookupName, Goto, locks
  <2>2. CASE UnlinkLookupInode(t)
    <3>1. CASE db.links[reg[t].ino] = 0
      BY <2>2, <3>1, <1>r DEF UnlinkLookupInode
    <3>2. CASE db.links[reg[t].ino] # 0
      BY <2>2, <3>2, <1>t DEF UnlinkLookupInode, Goto, locks
    <3> QED
      BY <3>1, <3>2
  <2>3. CASE UnlinkDeleteName(t)
    BY <2>3, <1>t DEF UnlinkDeleteName, Goto
  <2>4. CASE UnlinkPutInode(t)
    BY <2>4, <1>t DEF UnlinkPutInode, Goto
  <2>5. CASE UnlinkCommit(t) \/ UnlinkFail(t)
    BY <2>5, <1>r DEF UnlinkCommit, UnlinkFail
  <2> QED
    BY <1>2, <2>1, <2>2, <2>3, <2>4, <2>5 DEF Unlink
<1>3. ASSUME NEW t \in Thread, Iterate(t) PROVE LocksOK'
  <2>1. /\ UNCHANGED <<reg, dirLock, inoLock, seedLock>>
        /\ \A u \in Thread \ {t} : pc'[u] = pc[u]
        /\ pc[t] \in {"idle", "iterate"} /\ pc'[t] \in {"idle", "iterate"}
    BY <1>3, <1>t DEF Iterate, IterBegin, IterNext, IterRelease, Goto, locks
  <2> QED
    BY <2>1
<1>4. ASSUME NEW i \in Ino, NEW n \in 1 .. MaxLinks, PersistInode(i, n) PROVE LocksOK'
  BY <1>4 DEF PersistInode, locks
<1>5. CASE FlushFs \/ Mount \/ Umount
  BY <1>5 DEF FlushFs, Mount, Umount, locks
<1>6. CASE Crash
  BY <1>6 DEF Crash
<1>7. CASE UNCHANGED vars
  BY <1>7 DEF vars, locks
<1> QED
  BY <1>1, <1>2, <1>3, <1>4, <1>5, <1>6, <1>7 DEF Next

\* Whoever holds the seed's lock can commit; if nobody does, a holder of an
\* inode's lock can go on; if there is none, a holder of a name's lock can;
\* and if no lock is held nobody waits.
THEOREM NoCircularWait == Spec => []NoLockCycle
<1>1. Typed /\ LocksOK => NoLockCycle
  <2> SUFFICES ASSUME Typed, LocksOK, NEW t \in Thread, InTransaction(t)
               PROVE  \E u \in Thread : InTransaction(u) /\ ~Blocked(u)
    BY DEF NoLockCycle
  <2> USE ConstantsAssumption
      DEF InTransaction, InCreate, InUnlink, CreatePut, Free
  <2>t. /\ dirLock \in [Key -> Thread \cup {NoThread}]
        /\ inoLock \in [Ino -> Thread \cup {NoThread}]
        /\ seedLock \in Thread \cup {NoThread}
        /\ \A u \in Thread : InTransaction(u) => reg[u].key \in Key /\ reg[u].ino \in Ino
    BY DEF Typed, TypeOK, RegOK
  <2>1. CASE seedLock \in Thread
    <3>1. InTransaction(seedLock) /\ ~Blocked(seedLock)
      BY <2>1 DEF LocksOK, Blocked
    <3> QED
      BY <2>1, <3>1
  <2>2. ASSUME seedLock = NoThread, NEW i \in Ino, inoLock[i] \in Thread
        PROVE  InTransaction(inoLock[i]) /\ ~Blocked(inoLock[i])
    BY <2>2 DEF LocksOK, Blocked
  <2>3. ASSUME seedLock = NoThread, \A i \in Ino : inoLock[i] = NoThread,
               NEW k \in Key, dirLock[k] \in Thread
        PROVE  InTransaction(dirLock[k]) /\ ~Blocked(dirLock[k])
    BY <2>3, <2>t DEF LocksOK, Blocked
  <2>4. CASE /\ seedLock = NoThread
             /\ \A i \in Ino : inoLock[i] = NoThread
             /\ \A k \in Key : dirLock[k] = NoThread
    BY <2>4, <2>t DEF Blocked
  <2> QED
    BY <2>1, <2>2, <2>3, <2>4, <2>t
<1> QED
  BY <1>1, TypedInit, TypedNext, LocksInit, LocksNext, PTL DEF Spec


-----------------------------------------------------------------------------
(* What the commits write, key by key.                                       *)

\* The batch of vn_create_file: the entry, the inode record, the seed.
LEMMA CreateCommitEffect ==
  ASSUME Typed, NEW t \in Thread, CreateCommit(t)
  PROVE  /\ pc[t] = "c_commit" /\ reg[t].key \in Key /\ reg[t].ino \in Ino
         /\ db'.dirent = WithEntry(reg[t].key, reg[t].ino) /\ db'.seed = reg[t].seed
         /\ \A k \in Key : db'.dirent[k] = IF k = reg[t].key THEN reg[t].ino ELSE db.dirent[k]
         /\ \A i \in Ino : db'.links[i] = IF i = reg[t].ino THEN 1 ELSE db.links[i]
<1>1. pc[t] = "c_commit" /\ reg[t].key \in Key /\ reg[t].ino \in Ino
  BY DEF CreateCommit, Typed, RegOK, InCreate, CreatePut
<1>2. /\ db'.dirent = WithEntry(reg[t].key, reg[t].ino)
      /\ db'.links = WithLinks(reg[t].ino, 1) /\ db'.seed = reg[t].seed
  BY DEF CreateCommit, CommitSync, Stored
<1>3. db.dirent \in [Key -> Ino \cup {NoIno}] /\ db.links \in [Ino -> 0 .. MaxLinks]
  BY DEF Typed, TypeOK, Database
<1>4. \A k \in Key : db'.dirent[k] = IF k = reg[t].key THEN reg[t].ino ELSE db.dirent[k]
  BY <1>1, <1>2, <1>3 DEF WithEntry
<1>5. \A i \in Ino : db'.links[i] = IF i = reg[t].ino THEN 1 ELSE db.links[i]
  BY <1>1, <1>2, <1>3 DEF WithLinks
<1> QED
  BY <1>1, <1>2, <1>4, <1>5

\* The batch of vn_unlink: one smaller link count, or no entry any more, which
\* needs the lock of its key, or nothing.
LEMMA UnlinkCommitEffect ==
  ASSUME Typed, NEW t \in Thread, UnlinkCommit(t)
  PROVE  /\ pc[t] = "u_commit" /\ reg[t].key \in Key /\ reg[t].ino \in Ino
         /\ db'.seed = db.seed
         /\ \/ /\ db'.dirent = db.dirent
            \/ /\ db'.dirent = WithEntry(reg[t].key, NoIno) /\ dirLock[reg[t].key] = t
               /\ \A k \in Key : db'.dirent[k] = IF k = reg[t].key THEN NoIno ELSE db.dirent[k]
         /\ \/ db'.links = db.links
            \/ \A i \in Ino : IF i = reg[t].ino THEN db'.links[i] # 0
                                                ELSE db'.links[i] = db.links[i]
<1>1. pc[t] = "u_commit" /\ reg[t].key \in Key /\ reg[t].ino \in Ino
  BY DEF UnlinkCommit, Typed, RegOK, InUnlink
<1>2. db.dirent \in [Key -> Ino \cup {NoIno}] /\ db.links \in [Ino -> 0 .. MaxLinks]
  BY DEF Typed, TypeOK, Database
<1>3. CASE /\ reg[t].links # 0
           /\ CommitSync(Stored(db.dirent, WithLinks(reg[t].ino, reg[t].links), db.seed))
  <2>1. /\ db'.dirent = db.dirent /\ db'.seed = db.seed
        /\ db'.links = WithLinks(reg[t].ino, reg[t].links)
    BY <1>3 DEF CommitSync, Stored
  <2>2. \A i \in Ino : IF i = reg[t].ino THEN db'.links[i] # 0 ELSE db'.links[i] = db.links[i]
    BY <1>1, <1>2, <1>3, <2>1 DEF WithLinks
  <2> QED
    BY <1>1, <2>1, <2>2
<1>4. CASE /\ reg[t].links = 0 /\ dirLock[reg[t].key] = t
           /\ CommitSync(Stored(WithEntry(reg[t].key, NoIno), db.links, db.seed))
  <2>1. /\ db'.dirent = WithEntry(reg[t].key, NoIno) /\ db'.seed = db.seed
        /\ db'.links = db.links
    BY <1>4 DEF CommitSync, Stored
  <2>2. \A k \in Key : db'.dirent[k] = IF k = reg[t].key THEN NoIno ELSE db.dirent[k]
    BY <1>1, <1>2, <2>1 DEF WithEntry
  <2> QED
    BY <1>1, <1>4, <2>1, <2>2
<1>5. CASE UNCHANGED <<db, recoverable>>
  BY <1>1, <1>5
<1> QED
  BY <1>3, <1>4, <1>5 DEF UnlinkCommit

\* vn_unlink adds and removes no inode record.
LEMMA UnlinkKeepsRecords ==
  ASSUME Typed, Kept, NEW t \in Thread, UnlinkCommit(t)
  PROVE  \A i \in Ino : db'.links[i] = 0 <=> db.links[i] = 0
<1>1. db.links[reg[t].ino] # 0
  BY DEF UnlinkCommit, InUnlink, Kept, RecordsKept
<1>2. CASE db'.links = db.links
  BY <1>2
<1>3. CASE \A i \in Ino : IF i = reg[t].ino THEN db'.links[i] # 0
                                            ELSE db'.links[i] = db.links[i]
  BY <1>1, <1>3
<1> QED
  BY <1>2, <1>3, UnlinkCommitEffect

\* vn_persist_inode changes one link count, and not to 0.
LEMMA PersistInodeEffect ==
  ASSUME Typed, NEW i \in Ino, NEW n \in 1 .. MaxLinks, PersistInode(i, n)
  PROVE  /\ db'.dirent = db.dirent /\ db'.seed = db.seed
         /\ \A j \in Ino : db'.links[j] = 0 <=> db.links[j] = 0
<1>1. /\ db.links[i] # 0 /\ db'.dirent = db.dirent /\ db'.seed = db.seed
      /\ db'.links = WithLinks(i, n)
  BY DEF PersistInode, CommitNoSync, Stored
<1>2. db.links \in [Ino -> 0 .. MaxLinks] /\ n # 0
  BY ConstantsAssumption DEF Typed, TypeOK, Database
<1>3. \A j \in Ino : db'.links[j] = IF j = i THEN n ELSE db.links[j]
  BY <1>1, <1>2 DEF WithLinks
<1> QED
  BY <1>1, <1>2, <1>3

-----------------------------------------------------------------------------
(* The seed.  These results need that no two executions of inode_seed++      *)
(* interleave (~SeedRace); they hold with and without lock timeouts.         *)

\* A create has drawn its number and has not ended.
Drawn(t) == pc[t] \in {"c_get"} \cup CreatePut

\* The seed in memory is above the stored one, which is above every stored
\* number, and no two entries share one.
SeedDb ==
    /\ mounted => db.seed <= seed
    /\ \A i \in Ino : db.links[i] # 0 => i < db.seed
    /\ \A j, k \in Key : db.dirent[j] # NoIno /\ db.dirent[j] = db.dirent[k] => j = k

\* At most one create is between the load and the store of inode_seed++.
SeedStore ==
    \A t \in Thread : pc[t] = "c_store" =>
        reg[t].ino = seed /\ \A u \in Thread : pc[u] = "c_store" => u = t

\* The numbers being created are distinct, not stored yet, below the seed.
SeedDrawn ==
    /\ \A t \in Thread : Drawn(t) => reg[t].ino < seed /\ db.links[reg[t].ino] = 0
    /\ \A t, u \in Thread : Drawn(t) /\ Drawn(u) /\ reg[t].ino = reg[u].ino => t = u

\* The seed value waiting to be committed was read under the lock of its key,
\* so it is not older than the stored one.
SeedPut ==
    \A t \in Thread : pc[t] = "c_commit" =>
        /\ seedLock = t
        /\ reg[t].ino < reg[t].seed
        /\ db.seed <= reg[t].seed /\ reg[t].seed <= seed

SeedOK == SeedDb /\ SeedStore /\ SeedDrawn /\ SeedPut

\* The seed vn_mkfs_vivefs stores is above every number in use.
LEMMA SeedInit == Init => SeedOK
BY ConstantsAssumption
   DEF Init, SeedOK, SeedDb, SeedStore, SeedDrawn, SeedPut, FormattedDb, Drawn, CreatePut, Ino

\* A step of t that neither draws a number, nor reads the seed, nor commits.
Quiet(t) ==
    /\ UNCHANGED <<db, mounted, seed>>
    /\ \A u \in Thread \ {t} :
         pc'[u] = pc[u] /\ reg'[u] = reg[u] /\ (seedLock = u => seedLock' = u)
    /\ pc'[t] \notin {"c_store", "c_commit"}
    /\ Drawn(t)' => Drawn(t) /\ reg'[t].ino = reg[t].ino

\* Quiet steps disturb no part of the invariant about numbers.
LEMMA QuietSeed ==
  ASSUME SeedOK, NEW t \in Thread, Quiet(t) PROVE SeedOK'
<1> DEFINE D(u) == Drawn(u)
<1>1. UNCHANGED <<db, mounted, seed>>
  BY DEF Quiet
<1>2. \A u \in Thread : D(u)' => D(u) /\ reg'[u].ino = reg[u].ino
  BY DEF Quiet, Drawn
<1>3. \A u \in Thread : pc'[u] \in {"c_store", "c_commit"} =>
        u # t /\ pc'[u] = pc[u] /\ reg'[u] = reg[u] /\ (seedLock = u => seedLock' = u)
  BY DEF Quiet
<1>4. SeedDb'
  BY <1>1 DEF SeedOK, SeedDb
<1>5. SeedStore'
  BY <1>1, <1>3 DEF SeedOK, SeedStore
<1>6. SeedPut'
  BY <1>1, <1>3 DEF SeedOK, SeedPut
<1>7. SeedDrawn'
  <2>1. SeedDrawn
    BY DEF SeedOK
  <2> QED
    BY <1>1, <1>2, <2>1 DEF SeedDrawn
<1> QED
  BY <1>4, <1>5, <1>6, <1>7 DEF SeedOK

\* With an atomic generate_inode_no every step keeps drawn numbers distinct and
\* below the seed, the stored seed included.
LEMMA SeedNext ==
  ASSUME ~SeedRace
  PROVE  Typed /\ Typed' /\ Kept /\ LocksOK /\ SeedOK /\ [Next]_vars => SeedOK'
<1> SUFFICES ASSUME Typed, Typed', Kept, LocksOK, SeedOK, [Next]_vars PROVE SeedOK'
  OBVIOUS
<1>t. /\ db \in Database /\ seed \in Seeds \cup {0}
      /\ pc \in [Thread -> PC] /\ reg \in [Thread -> Register]
      /\ \A t \in Thread : pc[t] # "idle" => mounted
  BY DEF Typed, TypeOK, RegOK
<1>k. \A t \in Thread : pc[t] \in InCreate \cup InUnlink
                          => reg[t].key \in Key /\ reg[t].ino \in Ino
  BY DEF Typed, RegOK
<1>s. mounted => seed \in Seeds
  BY DEF Typed, TypeOK
<1>i. \A u \in Thread : Drawn(u) => reg[u].ino \in Ino
  BY <1>k DEF Drawn, CreatePut, InCreate
<1>j. /\ \A i \in Ino : i \in Int
      /\ mounted => seed \in Int
      /\ \A u \in Thread : Drawn(u) => reg[u].ino \in Int
  BY <1>s, <1>i, ConstantsAssumption DEF Ino, Seeds
<1>p. /\ db.seed \in Seeds /\ db.seed \in Int
      /\ \A t \in Thread : pc[t] = "c_commit" => reg[t].seed \in Seeds /\ reg[t].seed \in Int
  BY <1>t, ConstantsAssumption DEF Typed, RegOK, Database, Seeds
<1>o. SeedDb /\ SeedStore /\ SeedDrawn /\ SeedPut
  BY DEF SeedOK
<1>r. ASSUME NEW t \in Thread, Return(t), UNCHANGED <<db, mounted, seed>> PROVE SeedOK'
  <2>1. Quiet(t)
    BY <1>r, <1>t DEF Return, Goto, Quiet, Drawn, CreatePut
  <2> QED
    BY <2>1, QuietSeed
<1>1. ASSUME NEW t \in Thread, Create(t) PROVE SeedOK'
  <2>1. ASSUME NEW k \in Key, CreateLoadSeed(t, k) PROVE SeedOK'
    <3>1. /\ UNCHANGED <<db, mounted, seed, seedLock>>
          /\ \A u \in Thread \ {t} : pc'[u] = pc[u] /\ reg'[u] = reg[u] /\ pc[u] # "c_store"
          /\ pc'[t] = "c_store" /\ reg'[t].ino = seed
      BY <2>1, <1>t DEF CreateLoadSeed, Goto, locks, Locals
    <3>2. \A u \in Thread : pc'[u] \in {"c_get", "c_commit"} \cup CreatePut
                              => pc'[u] = pc[u] /\ reg'[u] = reg[u]
      BY <3>1 DEF CreatePut
    <3>3. SeedDb'
      BY <1>o, <3>1 DEF SeedDb
    <3>4. SeedStore'
      BY <3>1 DEF SeedStore
    <3>5. SeedDrawn'
      BY <1>o, <3>1, <3>2 DEF SeedDrawn, Drawn
    <3>6. SeedPut'
      BY <1>o, <3>1, <3>2 DEF SeedPut
    <3> QED
      BY <3>3, <3>4, <3>5, <3>6 DEF SeedOK
  <2>2. CASE CreateStoreSeed(t)
    <3>1. /\ reg[t].ino = seed /\ seed' = seed + 1
          /\ seed \in Seeds /\ mounted /\ reg[t].ino \in Ino
      BY <2>2, <1>t, <1>s, <1>k, <1>o DEF CreateStoreSeed, InCreate, SeedStore
    <3>2. /\ UNCHANGED <<db, mounted, reg, seedLock>>
          /\ \A u \in Thread \ {t} : pc'[u] = pc[u] /\ pc[u] # "c_store"
          /\ pc'[t] = "c_get"
      BY <2>2, <1>t, <1>o DEF CreateStoreSeed, Goto, locks, SeedStore
    <3>3. db.links[seed] = 0
      BY <3>1, <1>o, <1>j, <1>p DEF SeedDb
    <3>4. SeedDb'
      BY <1>o, <1>j, <1>p, <3>1, <3>2 DEF SeedDb
    <3>5. SeedStore'
      BY <3>2 DEF SeedStore
    <3>6. \A u \in Thread : Drawn(u)' => u = t \/ Drawn(u)
      BY <3>2 DEF Drawn
    <3>7. SeedDrawn'
      <4>1. \A u \in Thread : Drawn(u)' => reg'[u].ino < seed' /\ db'.links[reg'[u].ino] = 0
        BY <1>o, <1>i, <1>j, <3>1, <3>2, <3>3, <3>6 DEF SeedDrawn
      <4>2. \A u \in Thread : Drawn(u) => reg[u].ino # seed
        BY <1>o, <1>i, <1>j, <3>1 DEF SeedDrawn
      <4>3. \A u, v \in Thread : Drawn(u)' /\ Drawn(v)' /\ reg'[u].ino = reg'[v].ino => u = v
        BY <1>o, <3>1, <3>2, <3>6, <4>2 DEF SeedDrawn
      <4> QED
        BY <4>1, <4>3 DEF SeedDrawn
    <3>8. SeedPut'
      <4>1. \A u \in Thread : pc'[u] = "c_commit" => pc[u] = "c_commit" /\ reg[u].seed \in Int
        BY <3>2, <1>p
      <4> QED
        BY <1>o, <1>j, <3>1, <3>2, <4>1 DEF SeedPut
    <3> QED
      BY <3>4, <3>5, <3>7, <3>8 DEF SeedOK
  <2>3. CASE CreateGet(t) \/ CreateGetTimeout(t)
    <3>1. Quiet(t)
      BY <2>3, <1>t DEF CreateGet, CreateGetTimeout, Goto, locks, Quiet, Drawn, CreatePut
    <3> QED
      BY <3>1, QuietSeed
  <2>5. CASE CreatePutName(t) \/ CreatePutInode(t)
    <3>1. Quiet(t)
      BY <2>5, <1>t DEF CreatePutName, CreatePutInode, Goto, Quiet, Drawn, CreatePut
    <3> QED
      BY <3>1, QuietSeed
  <2>7. CASE CreatePutSeed(t)
    <3>1. /\ mounted /\ seed \in Seeds
          /\ \A u \in Thread : pc[u] # "c_commit"
      BY <2>7, <1>t, <1>s, <1>o, ConstantsAssumption DEF CreatePutSeed, Free, SeedPut
    <3>2. /\ UNCHANGED <<db, mounted, seed>> /\ seedLock' = t
          /\ \A u \in Thread \ {t} : pc'[u] = pc[u] /\ reg'[u] = reg[u]
          /\ pc[t] = "c_seed" /\ pc'[t] = "c_commit"
          /\ reg'[t].ino = reg[t].ino /\ reg'[t].seed = seed
      BY <2>7, <1>t DEF CreatePutSeed, Goto, Locals
    <3>3. SeedDb'
      BY <1>o, <3>2 DEF SeedDb
    <3>4. SeedStore'
      BY <1>o, <3>2 DEF SeedStore
    <3>5. \A u \in Thread : /\ reg'[u].ino = reg[u].ino
                            /\ Drawn(u)' => Drawn(u)
      BY <3>2 DEF Drawn, CreatePut
    <3>6. SeedDrawn'
      BY <1>o, <3>2, <3>5 DEF SeedDrawn
    <3>7. reg[t].ino < seed /\ db.seed <= seed
      BY <1>o, <3>1, <3>2 DEF SeedDb, SeedDrawn, Drawn, CreatePut
    <3>8. SeedPut'
      BY <3>1, <3>2, <3>7, <1>j DEF SeedPut
    <3> QED
      BY <3>3, <3>4, <3>6, <3>8 DEF SeedOK
  <2>8. CASE CreateExists(t) \/ CreateFail(t)
    BY <2>8, <1>r DEF CreateExists, CreateFail
  <2>9. CASE CreateCommit(t)
    <3>1. /\ reg[t].key \in Key /\ reg[t].ino \in Ino /\ reg[t].ino \in Int
          /\ UNCHANGED <<mounted, seed>> /\ pc[t] = "c_commit"
      BY <2>9, <1>j, CreateCommitEffect DEF CreateCommit
    <3>2. /\ reg[t].seed \in Seeds /\ reg[t].ino < reg[t].seed
          /\ db.seed <= reg[t].seed /\ reg[t].seed <= seed
          /\ db.links[reg[t].ino] = 0
      BY <3>1, <1>p, <1>o DEF SeedPut, SeedDrawn, Drawn, CreatePut
    <3>3. /\ \A u \in Thread \ {t} : pc'[u] = pc[u] /\ reg'[u] = reg[u] /\ pc[u] # "c_commit"
          /\ pc'[t] = "idle"
      BY <2>9, <1>t, <1>o DEF CreateCommit, Return, Goto, SeedPut
    <3>4. /\ db'.seed = reg[t].seed
          /\ \A i \in Ino : db'.links[i] = IF i = reg[t].ino THEN 1 ELSE db.links[i]
          /\ \A k \in Key : db'.dirent[k] = IF k = reg[t].key THEN reg[t].ino ELSE db.dirent[k]
      BY <2>9, CreateCommitEffect
    <3>5. \A k \in Key : db.dirent[k] # reg[t].ino
      <4>1. \A k \in Key : db.dirent[k] # NoIno => db.links[db.dirent[k]] # 0
        BY DEF Kept, NoDanglingEntry, Typed, TypeOK
      <4>2. reg[t].ino # NoIno
        BY <3>1 DEF Ino, NoIno, VN_FIRST_USER_INO
      <4> QED
        BY <3>2, <4>1, <4>2
    <3>6. SeedDb'
      <4>1. ASSUME NEW i \in Ino, db'.links[i] # 0 PROVE i < db'.seed
        <5>1. i = reg[t].ino \/ db.links[i] # 0
          BY <3>4, <4>1
        <5>2. db.links[i] # 0 => i < db.seed
          BY <1>o DEF SeedDb
        <5>3. i \in Int /\ db.seed \in Int /\ reg[t].seed \in Int
          BY <1>j, <1>p, <3>1
        <5> QED
          BY <3>2, <3>4, <5>1, <5>2, <5>3
      <4>2. \A j, k \in Key : db'.dirent[j] # NoIno /\ db'.dirent[j] = db'.dirent[k] => j = k
        BY <3>4, <3>5, <1>o DEF SeedDb
      <4>3. mounted' => db'.seed <= seed'
        BY <3>1, <3>2, <3>4
      <4> QED
        BY <4>1, <4>2, <4>3 DEF SeedDb
    <3>7. SeedStore'
      BY <1>o, <3>1, <3>3 DEF SeedStore
    <3>8. SeedDrawn'
      <4>1. \A u \in Thread : Drawn(u)' => u # t /\ Drawn(u) /\ reg'[u] = reg[u]
        BY <3>3 DEF Drawn, CreatePut
      <4>2. Drawn(t)
        BY <3>1 DEF Drawn, CreatePut
      <4>3. \A u \in Thread : Drawn(u)' => reg[u].ino # reg[t].ino
        BY <4>1, <4>2, <1>o DEF SeedDrawn
      <4> QED
        <5>1. ASSUME NEW u \in Thread, Drawn(u)'
              PROVE  reg'[u].ino < seed' /\ db'.links[reg'[u].ino] = 0
          <6>1. reg'[u].ino = reg[u].ino /\ reg[u].ino \in Ino /\ reg[u].ino # reg[t].ino
            BY <5>1, <4>1, <4>3, <1>i
          <6>2. reg[u].ino < seed /\ db.links[reg[u].ino] = 0
            BY <5>1, <4>1, <1>o DEF SeedDrawn
          <6> QED
            BY <6>1, <6>2, <3>1, <3>4
        <5>2. \A u, v \in Thread : Drawn(u)' /\ Drawn(v)' /\ reg'[u].ino = reg'[v].ino => u = v
          BY <4>1, <1>o DEF SeedDrawn
        <5> QED
          BY <5>1, <5>2 DEF SeedDrawn
    <3>9. SeedPut'
      BY <3>3 DEF SeedPut
    <3> QED
      BY <3>6, <3>7, <3>8, <3>9 DEF SeedOK
  <2> QED
    BY <1>1, <2>1, <2>2, <2>3, <2>5, <2>7, <2>8, <2>9 DEF Create
<1>b. ASSUME UNCHANGED <<mounted, seed>>, db'.seed = db.seed,
             \A i \in Ino : db'.links[i] = 0 <=> db.links[i] = 0,
             \A k \in Key : db'.dirent[k] \in {db.dirent[k], NoIno},
             \A u \in Thread : pc'[u] # pc[u] \/ reg'[u] # reg[u] => pc'[u] = "idle",
             \A u \in Thread : pc'[u] # "idle" /\ seedLock = u => seedLock' = u
      PROVE  SeedOK'
  <2>1. \A u \in Thread : pc'[u] # "idle" => pc'[u] = pc[u] /\ reg'[u] = reg[u]
    BY <1>b
  <2>2. \A u \in Thread : Drawn(u)' => Drawn(u) /\ reg'[u] = reg[u]
    BY <2>1 DEF Drawn, CreatePut
  <2>3. SeedDb'
    BY <1>b, <1>o DEF SeedDb
  <2>4. SeedStore'
    BY <1>b, <1>o, <2>1 DEF SeedStore
  <2>5. SeedDrawn'
    <3>1. ASSUME NEW u \in Thread, Drawn(u)'
          PROVE  reg'[u].ino < seed' /\ db'.links[reg'[u].ino] = 0
      <4>1. /\ reg'[u].ino = reg[u].ino /\ reg[u].ino \in Ino
            /\ reg[u].ino < seed /\ db.links[reg[u].ino] = 0
        BY <3>1, <2>2, <1>i, <1>o DEF SeedDrawn
      <4> QED
        BY <4>1, <1>b
    <3>2. \A u, v \in Thread : Drawn(u)' /\ Drawn(v)' /\ reg'[u].ino = reg'[v].ino => u = v
      BY <1>o, <2>2 DEF SeedDrawn
    <3> QED
      BY <3>1, <3>2 DEF SeedDrawn
  <2>6. SeedPut'
    BY <1>b, <1>o, <2>1 DEF SeedPut
  <2> QED
    BY <2>3, <2>4, <2>5, <2>6 DEF SeedOK
<1>2. ASSUME NEW t \in Thread, Unlink(t) PROVE SeedOK'
  <2>1. ASSUME NEW k \in Key, UnlinkLookupName(t, k) PROVE Quiet(t)
    BY <2>1, <1>t DEF UnlinkLookupName, Goto, locks, Quiet, Drawn, CreatePut
  <2>2. CASE UnlinkLookupInode(t)
    <3>1. CASE db.links[reg[t].ino] = 0
      BY <2>2, <3>1, <1>r DEF UnlinkLookupInode
    <3>2. CASE db.links[reg[t].ino] # 0
      <4>1. Quiet(t)
        BY <2>2, <3>2, <1>t DEF UnlinkLookupInode, Goto, locks, Quiet, Drawn, CreatePut
      <4> QED
        BY <4>1, QuietSeed
    <3> QED
      BY <3>1, <3>2
  <2>3. ASSUME UnlinkDeleteName(t) PROVE Quiet(t)
    BY <2>3, <1>t DEF UnlinkDeleteName, Goto, Quiet, Drawn, CreatePut
  <2>4. ASSUME UnlinkPutInode(t) PROVE Quiet(t)
    BY <2>4, <1>t DEF UnlinkPutInode, Goto, Quiet, Drawn, CreatePut
  <2>5. CASE UnlinkCommit(t)
    <3>1. /\ UNCHANGED <<mounted, seed>> /\ pc'[t] = "idle"
          /\ \A u \in Thread \ {t} : pc'[u] = pc[u] /\ reg'[u] = reg[u]
          /\ \A u \in Thread : seedLock = u /\ u # t => seedLock' = u
      BY <2>5, <1>t DEF UnlinkCommit, Return, Goto
    <3>3. \A i \in Ino : db'.links[i] = 0 <=> db.links[i] = 0
      BY <2>5, UnlinkKeepsRecords
    <3>4. db'.seed = db.seed /\ \A k \in Key : db'.dirent[k] \in {db.dirent[k], NoIno}
      BY <2>5, UnlinkCommitEffect
    <3> QED
      BY <3>1, <3>3, <3>4, <1>b
  <2>6. CASE UnlinkFail(t)
    BY <2>6, <1>r DEF UnlinkFail
  <2> QED
    BY <1>2, <2>1, <2>2, <2>3, <2>4, <2>5, <2>6, QuietSeed DEF Unlink
<1>3. ASSUME NEW t \in Thread, Iterate(t) PROVE SeedOK'
  <2>1. /\ UNCHANGED <<db, mounted, seed, reg, seedLock>>
        /\ \A u \in Thread \ {t} : pc'[u] = pc[u]
        /\ pc'[t] \in {"idle", "iterate"}
    BY <1>3, <1>t DEF Iterate, IterBegin, IterNext, IterRelease, Goto, locks
  <2>2. Quiet(t)
    BY <2>1 DEF Quiet, Drawn, CreatePut
  <2> QED
    BY <2>2, QuietSeed
<1>4. ASSUME NEW i \in Ino, NEW n \in 1 .. MaxLinks, PersistInode(i, n) PROVE SeedOK'
  <2>1. UNCHANGED <<mounted, seed, pc, reg, seedLock>>
    BY <1>4 DEF PersistInode, locks
  <2> QED
    BY <1>4, <2>1, <1>b, PersistInodeEffect
<1>5. CASE FlushFs
  <2>1. UNCHANGED <<db, mounted, seed, pc, reg, seedLock>>
    BY <1>5 DEF FlushFs, locks
  <2> QED
    BY <2>1, <1>b
<1>6. CASE Mount
  <2>1. /\ UNCHANGED <<db, pc, reg, seedLock>> /\ seed' = db.seed
        /\ \A u \in Thread : pc[u] = "idle"
    BY <1>6, <1>t DEF Mount, locks
  <2>2. SeedDb'
    BY <2>1, <1>o, <1>j, <1>p DEF SeedDb
  <2> QED
    BY <2>1, <2>2 DEF SeedOK, SeedStore, SeedDrawn, SeedPut, Drawn, CreatePut
<1>7. CASE Umount
  <2>1. UNCHANGED <<db, pc>> /\ ~mounted' /\ \A u \in Thread : pc[u] = "idle"
    BY <1>7 DEF Umount
  <2> QED
    BY <2>1, <1>o DEF SeedOK, SeedDb, SeedStore, SeedDrawn, SeedPut, Drawn, CreatePut
<1>8. CASE Crash
  <2>1. /\ db'.dirent = db.dirent /\ db'.seed = db.seed
        /\ ~mounted' /\ \A u \in Thread : pc'[u] = "idle"
    BY <1>8 DEF Crash, Kept, NamespaceDurable
  <2>2. \A i \in Ino : db'.links[i] # 0 <=> db.links[i] # 0
    BY <1>8 DEF Crash, Kept, RecordsKept
  <2>3. SeedDb'
    BY <2>1, <2>2, <1>o DEF SeedDb
  <2> QED
    BY <2>1, <2>3 DEF SeedOK, SeedStore, SeedDrawn, SeedPut, Drawn, CreatePut
<1>9. CASE UNCHANGED vars
  <2>1. UNCHANGED <<db, mounted, seed, pc, reg, seedLock>>
    BY <1>9 DEF vars, locks
  <2> QED
    BY <2>1, <1>b
<1> QED
  BY <1>1, <1>2, <1>3, <1>4, <1>5, <1>6, <1>7, <1>8, <1>9 DEF Next

\* The invariant about inode numbers, with those it rests on, always holds.
LEMMA SeedAlways ==
  ASSUME ~SeedRace PROVE Spec => [](Typed /\ Kept /\ LocksOK /\ SeedOK)
<1>1. Typed /\ Typed' /\ Kept /\ LocksOK /\ SeedOK /\ [Next]_vars => SeedOK'
  BY SeedNext
<1> QED
  BY <1>1, TypedInit, TypedNext, KeptInit, KeptNext, LocksInit, LocksNext, SeedInit, PTL DEF Spec

\* Two entries never share an inode, before or after any crash.
THEOREM InodesUnique == ASSUME ~SeedRace PROVE Spec => []UniqueInode
<1>1. Kept /\ SeedOK => UniqueInode
  BY DEF Kept, NamespaceDurable, SeedOK, SeedDb, UniqueInode
<1> QED
  BY <1>1, SeedAlways, PTL

\* A number handed out once is never handed out again, not after a crash
\* and a remount either.
THEOREM SeedNeverReused == ASSUME ~SeedRace PROVE Spec => []SeedAboveInodes
<1>1. Kept /\ SeedOK => SeedAboveInodes
  BY DEF Kept, NamespaceDurable, RecordsKept, SeedOK, SeedDb, SeedAboveInodes
<1> QED
  BY <1>1, SeedAlways, PTL


-----------------------------------------------------------------------------
(* Names.  These results need that no wait for a lock times out.             *)

\* Past GetForUpdate, a create holds the lock of a name that is still free.
NamesOK ==
    \A t \in Thread : pc[t] \in CreatePut =>
        dirLock[reg[t].key] = t /\ db.dirent[reg[t].key] = NoIno

\* No create is in progress before the first mount.
LEMMA NamesInit == Init => NamesOK
BY DEF Init, NamesOK, CreatePut

\* The lock GetForUpdate takes keeps other calls off the name until the commit.
LEMMA NamesNext ==
  ASSUME ~LockTimeouts
  PROVE  Typed /\ Kept /\ NamesOK /\ [Next]_vars => NamesOK'
<1> SUFFICES ASSUME Typed, Kept, NamesOK, [Next]_vars PROVE NamesOK'
  OBVIOUS
<1> USE ConstantsAssumption DEF NamesOK, CreatePut
<1>t. /\ db \in Database /\ db \in recoverable
      /\ pc \in [Thread -> PC] /\ reg \in [Thread -> Register]
      /\ dirLock \in [Key -> Thread \cup {NoThread}]
      /\ \A t \in Thread : pc[t] \in InCreate \cup InUnlink
                             => reg[t].key \in Key /\ reg[t].ino \in Ino
  BY DEF Typed, TypeOK, RegOK
<1>k. \A u \in Thread : pc[u] \in CreatePut => reg[u].key \in Key
  BY <1>t DEF InCreate
<1>r. ASSUME NEW t \in Thread, Return(t),
             \A k \in Key : db'.dirent[k] # db.dirent[k] => dirLock[k] = t
      PROVE  NamesOK'
  <2>1. /\ \A u \in Thread \ {t} : pc'[u] = pc[u] /\ reg'[u] = reg[u]
        /\ pc'[t] = "idle"
        /\ \A k \in Key : dirLock[k] # t => dirLock'[k] = dirLock[k]
    BY <1>r, <1>t DEF Return, Goto, Unlocked
  <2> QED
    BY <1>r, <1>k, <2>1
<1>1. ASSUME NEW t \in Thread, Create(t) PROVE NamesOK'
  <2>1. ASSUME NEW k \in Key, CreateLoadSeed(t, k) PROVE NamesOK'
    BY <2>1, <1>t DEF CreateLoadSeed, Goto, locks
  <2>2. CASE CreateStoreSeed(t)
    BY <2>2, <1>t DEF CreateStoreSeed, Goto, locks
  <2>3. CASE CreateGet(t)
    <3>1. /\ reg[t].key \in Key /\ Free(dirLock[reg[t].key], t)
          /\ db.dirent[reg[t].key] = NoIno /\ UNCHANGED <<db, reg>>
          /\ dirLock' = [dirLock EXCEPT ![reg[t].key] = t]
          /\ \A u \in Thread \ {t} : pc'[u] = pc[u]
      BY <2>3, <1>t DEF CreateGet, Goto, InCreate
    <3>2. ASSUME NEW u \in Thread \ {t}, pc[u] \in CreatePut PROVE dirLock'[reg[u].key] = u
      <4>1. reg[u].key \in Key /\ dirLock[reg[u].key] = u
        BY <3>2, <1>k
      <4>2. reg[u].key # reg[t].key
        BY <3>1, <4>1 DEF Free
      <4> QED
        BY <3>1, <4>1, <4>2, <1>t
    <3>3. dirLock'[reg[t].key] = t
      BY <3>1, <1>t
    <3> QED
      BY <3>1, <3>2, <3>3
  <2>4. CASE CreateGetTimeout(t)
    BY <2>4 DEF CreateGetTimeout, TimesOut
  <2>5. CASE CreatePutName(t)
    BY <2>5, <1>t, <1>k DEF CreatePutName, Goto
  <2>6. CASE CreatePutInode(t)
    BY <2>6, <1>t DEF CreatePutInode, Goto
  <2>7. CASE CreatePutSeed(t)
    BY <2>7, <1>t DEF CreatePutSeed, Goto
  <2>8. CASE CreateExists(t) \/ CreateFail(t)
    BY <2>8, <1>r DEF CreateExists, CreateFail
  <2>9. CASE CreateCommit(t)
    <3>1. \A k \in Key : db'.dirent[k] # db.dirent[k] => dirLock[k] = t
      BY <2>9, CreateCommitEffect
    <3> QED
      BY <2>9, <3>1, <1>r DEF CreateCommit
  <2> QED
    BY <1>1, <2>1, <2>2, <2>3, <2>4, <2>5, <2>6, <2>7, <2>8, <2>9 DEF Create
<1>2. ASSUME NEW t \in Thread, Unlink(t) PROVE NamesOK'
  <2>1. ASSUME NEW k \in Key, UnlinkLookupName(t, k) PROVE NamesOK'
    BY <2>1, <1>t DEF UnlinkLookupName, Goto, locks
  <2>2. CASE UnlinkLookupInode(t)
    <3>1. CASE db.links[reg[t].ino] = 0
      BY <2>2, <3>1, <1>r DEF UnlinkLookupInode
    <3>2. CASE db.links[reg[t].ino] # 0
      BY <2>2, <3>2, <1>t DEF UnlinkLookupInode, Goto, locks
    <3> QED
      BY <3>1, <3>2
  <2>3. CASE UnlinkDeleteName(t)
    <3>1. /\ reg[t].key \in Key /\ UNCHANGED <<db, reg>>
          /\ \A u \in Thread \ {t} : pc'[u] = pc[u]
          /\ pc'[t] = "u_commit"
          /\ Free(dirLock[reg[t].key], t) /\ dirLock' = [dirLock EXCEPT ![reg[t].key] = t]
      BY <2>3, <1>t DEF UnlinkDeleteName, Goto, InUnlink, TimesOut
    <3>2. ASSUME NEW u \in Thread \ {t}, pc[u] \in CreatePut PROVE dirLock'[reg[u].key] = u
      <4>1. reg[u].key \in Key /\ dirLock[reg[u].key] = u
        BY <3>2, <1>k
      <4>2. reg[u].key # reg[t].key
        BY <3>1, <4>1 DEF Free
      <4> QED
        BY <3>1, <4>1, <4>2, <1>t
    <3> QED
      BY <3>1, <3>2
  <2>4. CASE UnlinkPutInode(t)
    BY <2>4, <1>t DEF UnlinkPutInode, Goto
  <2>5. CASE UnlinkCommit(t)
    <3>1. \A k \in Key : db'.dirent[k] # db.dirent[k] => dirLock[k] = t
      BY <2>5, UnlinkCommitEffect
    <3> QED
      BY <2>5, <3>1, <1>r DEF UnlinkCommit
  <2>6. CASE UnlinkFail(t)
    BY <2>6, <1>r DEF UnlinkFail
  <2> QED
    BY <1>2, <2>1, <2>2, <2>3, <2>4, <2>5, <2>6 DEF Unlink
<1>3. ASSUME NEW t \in Thread, Iterate(t) PROVE NamesOK'
  BY <1>3, <1>t DEF Iterate, IterBegin, IterNext, IterRelease, Goto, locks
<1>4. ASSUME NEW i \in Ino, NEW n \in 1 .. MaxLinks, PersistInode(i, n) PROVE NamesOK'
  BY <1>4 DEF PersistInode, CommitNoSync, locks
<1>5. CASE FlushFs \/ Mount \/ Umount
  BY <1>5 DEF FlushFs, Mount, Umount, locks
<1>6. CASE Crash
  BY <1>6 DEF Crash
<1>7. CASE UNCHANGED vars
  BY <1>7 DEF vars, locks
<1> QED
  BY <1>1, <1>2, <1>3, <1>4, <1>5, <1>6, <1>7 DEF Next

\* How a step may change the entries and the set of inode records.
LEMMA VisibleStep ==
  ASSUME Typed, Kept, NamesOK, [Next]_vars
  PROVE  \/ \E t \in Thread :
               /\ pc[t] = "c_commit" /\ db.dirent[reg[t].key] = NoIno
               /\ reg[t].key \in Key /\ reg[t].ino \in Ino
               /\ db'.dirent = WithEntry(reg[t].key, reg[t].ino)
               /\ \A i \in Ino : db'.links[i] # 0 <=> (db.links[i] # 0 \/ i = reg[t].ino)
         \/ /\ \/ db'.dirent = db.dirent
               \/ \E k \in Key : db'.dirent = WithEntry(k, NoIno)
            /\ \A i \in Ino : db'.links[i] # 0 <=> db.links[i] # 0
<1> USE ConstantsAssumption
<1>t. /\ db \in Database /\ reg \in [Thread -> Register]
      /\ \A t \in Thread : pc[t] \in InCreate \cup InUnlink
                             => reg[t].key \in Key /\ reg[t].ino \in Ino
  BY DEF Typed, TypeOK, RegOK
<1>1. ASSUME NEW t \in Thread, CreateCommit(t)
      PROVE  /\ pc[t] = "c_commit" /\ db.dirent[reg[t].key] = NoIno
             /\ reg[t].key \in Key /\ reg[t].ino \in Ino
             /\ db'.dirent = WithEntry(reg[t].key, reg[t].ino)
             /\ \A i \in Ino : db'.links[i] # 0 <=> (db.links[i] # 0 \/ i = reg[t].ino)
  <2>1. db.dirent[reg[t].key] = NoIno
    BY <1>1 DEF CreateCommit, NamesOK, CreatePut
  <2>2. \A i \in Ino : db'.links[i] = IF i = reg[t].ino THEN 1 ELSE db.links[i]
    BY <1>1, CreateCommitEffect
  <2>3. \A i \in Ino : db'.links[i] # 0 <=> (db.links[i] # 0 \/ i = reg[t].ino)
    BY <2>2
  <2> QED
    BY <1>1, <2>1, <2>3, CreateCommitEffect
<1>2. ASSUME NEW t \in Thread, UnlinkCommit(t)
      PROVE  /\ \/ db'.dirent = db.dirent
                \/ \E k \in Key : db'.dirent = WithEntry(k, NoIno)
             /\ \A i \in Ino : db'.links[i] # 0 <=> db.links[i] # 0
  <2>1. \A i \in Ino : db'.links[i] = 0 <=> db.links[i] = 0
    BY <1>2, UnlinkKeepsRecords
  <2>2. \/ db'.dirent = db.dirent
        \/ \E k \in Key : db'.dirent = WithEntry(k, NoIno)
    BY <1>2, UnlinkCommitEffect
  <2> QED
    BY <2>1, <2>2
<1>3. ASSUME NEW i \in Ino, NEW n \in 1 .. MaxLinks, PersistInode(i, n)
      PROVE  /\ db'.dirent = db.dirent
             /\ \A j \in Ino : db'.links[j] # 0 <=> db.links[j] # 0
  BY <1>3, PersistInodeEffect
<1>4. CASE Crash
  BY <1>4 DEF Crash, Kept, NamespaceDurable, RecordsKept
<1>5. ASSUME NEW t \in Thread, Create(t), ~CreateCommit(t) PROVE db' = db
  BY <1>5 DEF Create, CreateLoadSeed, CreateStoreSeed, CreateGet, CreateExists,
     CreateGetTimeout, CreatePutName, CreatePutInode, CreatePutSeed, CreateFail
<1>6. ASSUME NEW t \in Thread, Unlink(t), ~UnlinkCommit(t) PROVE db' = db
  BY <1>6 DEF Unlink, UnlinkLookupName, UnlinkLookupInode, UnlinkDeleteName,
     UnlinkPutInode, UnlinkFail
<1>7. ASSUME NEW t \in Thread, Iterate(t) PROVE db' = db
  BY <1>7 DEF Iterate, IterBegin, IterNext, IterRelease
<1>8. CASE FlushFs \/ Mount \/ Umount \/ UNCHANGED vars
  BY <1>8 DEF FlushFs, Mount, Umount, vars
<1> QED
  BY <1>1, <1>2, <1>3, <1>4, <1>5, <1>6, <1>7, <1>8 DEF Next

\* However calls and crashes interleave, and even when two creates draw the
\* same number, no create replaces an entry.
THEOREM EntriesNeverReplaced ==
  ASSUME ~LockTimeouts PROVE Spec => CreateNeverReplaces
<1>1. Typed /\ Kept /\ NamesOK /\ [Next]_vars => NamesOK'
  BY NamesNext
<1>2. Typed /\ Kept /\ NamesOK /\ [Next]_vars =>
        [\A k \in Key : db.dirent[k] # NoIno /\ db'.dirent[k] # NoIno
                          => db'.dirent[k] = db.dirent[k]]_vars
  <2> SUFFICES ASSUME Typed, Kept, NamesOK, [Next]_vars, NEW k \in Key,
                      db.dirent[k] # NoIno, db'.dirent[k] # NoIno
               PROVE  db'.dirent[k] = db.dirent[k]
    OBVIOUS
  <2>1. db.dirent \in [Key -> Ino \cup {NoIno}]
    BY DEF Typed, TypeOK, Database
  <2> QED
    BY VisibleStep, <2>1
<1> QED
  BY <1>1, <1>2, TypedInit, TypedNext, KeptInit, KeptNext, NamesInit, PTL
     DEF Spec, CreateNeverReplaces

\* The name space implements the atomic, durable directory of VnDirectory.
THEOREM NamespaceIsDirectory ==
  ASSUME ~SeedRace, ~LockTimeouts PROVE Spec => ImplementsDirectory
<1>1. Typed /\ Kept /\ NamesOK /\ [Next]_vars => NamesOK'
  BY NamesNext
<1>2. Init => Directory!Init
  BY ConstantsAssumption DEF Init, Directory!Init, FormattedDb
<1>3. Typed /\ Kept /\ SeedOK /\ NamesOK /\ [Next]_vars
        => [Directory!Next]_<<db.dirent, {i \in Ino : db.links[i] # 0}>>
  <2> SUFFICES ASSUME Typed, Kept, SeedOK, NamesOK, [Next]_vars
               PROVE  [Directory!Next]_<<db.dirent, {i \in Ino : db.links[i] # 0}>>
    OBVIOUS
  <2>t. db.dirent \in [Key -> Ino \cup {NoIno}]
    BY DEF Typed, TypeOK, Database
  <2>1. ASSUME NEW t \in Thread,
               pc[t] = "c_commit", db.dirent[reg[t].key] = NoIno,
               reg[t].key \in Key, reg[t].ino \in Ino,
               db'.dirent = WithEntry(reg[t].key, reg[t].ino),
               \A i \in Ino : db'.links[i] # 0 <=> (db.links[i] # 0 \/ i = reg[t].ino)
        PROVE  Directory!Create(reg[t].key, reg[t].ino)
    <3>1. db.links[reg[t].ino] = 0
      BY <2>1 DEF SeedOK, SeedDrawn, Drawn, CreatePut
    <3> QED
      BY <2>1, <3>1 DEF Directory!Create
  <2>2. ASSUME NEW k \in Key, db'.dirent = WithEntry(k, NoIno), db.dirent[k] # NoIno,
               \A i \in Ino : db'.links[i] # 0 <=> db.links[i] # 0
        PROVE  Directory!Unlink(k)
    BY <2>2 DEF Directory!Unlink
  <2>3. ASSUME NEW k \in Key, db'.dirent = WithEntry(k, NoIno), db.dirent[k] = NoIno
        PROVE  db'.dirent = db.dirent
    BY <2>3, <2>t
  <2>4. ASSUME db'.dirent = db.dirent,
               \A i \in Ino : db'.links[i] # 0 <=> db.links[i] # 0
        PROVE  UNCHANGED <<db.dirent, {i \in Ino : db.links[i] # 0}>>
    BY <2>4
  <2>5. CASE \E t \in Thread :
               /\ pc[t] = "c_commit" /\ db.dirent[reg[t].key] = NoIno
               /\ reg[t].key \in Key /\ reg[t].ino \in Ino
               /\ db'.dirent = WithEntry(reg[t].key, reg[t].ino)
               /\ \A i \in Ino : db'.links[i] # 0 <=> (db.links[i] # 0 \/ i = reg[t].ino)
    <3>1. PICK t \in Thread :
               /\ pc[t] = "c_commit" /\ db.dirent[reg[t].key] = NoIno
               /\ reg[t].key \in Key /\ reg[t].ino \in Ino
               /\ db'.dirent = WithEntry(reg[t].key, reg[t].ino)
               /\ \A i \in Ino : db'.links[i] # 0 <=> (db.links[i] # 0 \/ i = reg[t].ino)
      BY <2>5
    <3>2. Directory!Create(reg[t].key, reg[t].ino)
      BY <2>1, <3>1
    <3> QED
      BY <3>1, <3>2 DEF Directory!Next, Directory!Create
  <2>6. CASE /\ \/ db'.dirent = db.dirent
                \/ \E k \in Key : db'.dirent = WithEntry(k, NoIno)
             /\ \A i \in Ino : db'.links[i] # 0 <=> db.links[i] # 0
    <3>1. CASE db'.dirent = db.dirent
      BY <2>4, <2>6, <3>1
    <3>2. ASSUME NEW k \in Key, db'.dirent = WithEntry(k, NoIno), db.dirent[k] # NoIno
          PROVE  Directory!Next
      BY <2>2, <2>6, <3>2 DEF Directory!Next
    <3> QED
      BY <2>3, <2>6, <3>1, <3>2
  <2> QED
    BY <2>5, <2>6, VisibleStep
<1> QED
  BY <1>1, <1>2, <1>3, SeedAlways, NamesInit, PTL
     DEF Spec, ImplementsDirectory, Directory!Spec

=============================================================================
