---------------------------- MODULE VnNamespace ----------------------------
(***************************************************************************)
(* The name space of a mounted ViveNAS file system: directory entries,     *)
(* inode records and the inode-number seed, all kept in the RocksDB column *)
(* family meta_cf, and the calls that change them (vn_create_file,         *)
(* vn_unlink, vn_persist_inode), look them up (vn_lookup_inode_no) or list *)
(* them (vn_begin_iterate_dir, vn_next_inode), made concurrently by the    *)
(* worker threads of the NFS server.  Each database call is a step of its  *)
(* own, so the calls interleave as they do in the program.                 *)
(*                                                                         *)
(* RocksDB is external.  A transaction locks every key it writes or reads  *)
(* for update until it ends; a lock request may time out (1 s by default)  *)
(* and then fails.  A commit with sync = TRUE (meta_opt) makes itself and  *)
(* every earlier commit durable; a commit with sync = FALSE (data_opt) is  *)
(* durable only after a later sync, and a crash recovers some prefix of    *)
(* the commits that contains the durable ones.  `recoverable' is the set   *)
(* of the database states such a prefix can leave.                         *)
(***************************************************************************)
EXTENDS Integers, FiniteSets

CONSTANTS
    Thread,        \* worker threads of the NFS server
    NoThread,      \* owner of a free lock
    Name,          \* file names
    Dir,           \* inode numbers callers use as parent directory
    MaxIno,        \* bound: largest inode number ever handed out
    MaxLinks,      \* bound: largest link count a caller stores in an inode
    SeedRace,      \* TRUE: two executions of inode_seed++ may interleave
    LockTimeouts   \* TRUE: a wait for a key lock may time out

VN_ROOT_INO == 2
VN_FIRST_USER_INO == 12
NoIno == 0         \* "0  No such inode"

Ino == VN_FIRST_USER_INO .. MaxIno
Seeds == VN_FIRST_USER_INO .. MaxIno + 1
Key == Dir \X Name       \* file_key, "<parent inode number>_<name>"
NoKey == <<>>

ASSUME ConstantsAssumption ==
    /\ NoThread \notin Thread
    /\ MaxIno \in Nat /\ MaxIno >= VN_FIRST_USER_INO
    /\ MaxLinks \in Nat /\ MaxLinks >= 1
    /\ Dir \subseteq {VN_ROOT_INO} \cup Ino
    /\ SeedRace \in BOOLEAN /\ LockTimeouts \in BOOLEAN

VARIABLES
    db,            \* meta_cf as a Get sees it now
    recoverable,   \* what meta_cf can be after a crash
    mounted,       \* a ViveFsContext exists
    seed,          \* ctx->inode_seed
    pc,            \* next step of the call each thread is in
    reg,           \* its local variables
    iter,          \* entries an open directory iterator has still to yield
    dirLock,       \* lock of each file key
    inoLock,       \* lock of each inode key
    seedLock       \* lock of INODE_SEED_KEY

locks == <<dirLock, inoLock, seedLock>>
vars == <<db, recoverable, mounted, seed, pc, reg, iter, locks>>

\* dirent: file key -> inode number; links: inode number -> i_links_count of
\* its record, 0 when there is no record; seed: value of INODE_SEED_KEY.
Database == [dirent : [Key -> Ino \cup {NoIno}],
             links  : [Ino -> 0 .. MaxLinks],
             seed   : Seeds]

CreatePut == {"c_put", "c_inode", "c_seed", "c_commit"}
InCreate == {"c_store", "c_get"} \cup CreatePut
InUnlink == {"u_inode", "u_write", "u_commit"}
PC == {"idle", "iterate"} \cup InCreate \cup InUnlink

Locals(k, i, s, n) == [key |-> k, ino |-> i, seed |-> s, links |-> n]
Reg0 == Locals(NoKey, NoIno, 0, 0)
Register == [key : Key \cup {NoKey}, ino : Ino \cup {NoIno},
             seed : Seeds \cup {0}, links : 0 .. MaxLinks]

Stored(d, l, s) == [dirent |-> d, links |-> l, seed |-> s]
FormattedDb ==
    Stored([k \in Key |-> NoIno], [i \in Ino |-> 0], VN_FIRST_USER_INO)

\* A volume vn_mkfs_vivefs has formatted and nobody has mounted yet.
Init ==
    /\ db = FormattedDb
    /\ recoverable = {FormattedDb}
    /\ mounted = FALSE
    /\ seed = 0
    /\ pc = [t \in Thread |-> "idle"]
    /\ reg = [t \in Thread |-> Reg0]
    /\ iter = [t \in Thread |-> {}]
    /\ dirLock = [k \in Key |-> NoThread]
    /\ inoLock = [i \in Ino |-> NoThread]
    /\ seedLock = NoThread

-----------------------------------------------------------------------------
(* Transactions *)

Free(owner, t) == owner \in {NoThread, t}
TimesOut(owner, t) == LockTimeouts /\ ~Free(owner, t)

Goto(t, l) == pc' = [pc EXCEPT ![t] = l]

\* The tables with one record put.
WithEntry(k, i) == [db.dirent EXCEPT ![k] = i]
WithLinks(i, n) == [db.links EXCEPT ![i] = n]

\* Commit with meta_opt and with data_opt.
CommitSync(new) == db' = new /\ recoverable' = {new}
CommitNoSync(new) == db' = new /\ recoverable' = recoverable \cup {new}

Unlocked(f, t) == [x \in DOMAIN f |-> IF f[x] = t THEN NoThread ELSE f[x]]

\* The end of every call: the transaction is committed or rolled back and
\* deleted, which frees its locks.
Return(t) ==
    /\ Goto(t, "idle")
    /\ reg' = [reg EXCEPT ![t] = Reg0]
    /\ dirLock' = Unlocked(dirLock, t)
    /\ inoLock' = Unlocked(inoLock, t)
    /\ seedLock' = IF seedLock = t THEN NoThread ELSE seedLock

\* A parent directory a caller can name: the root, or one with a record.
KnownDir(d) == d # VN_ROOT_INO => db.links[d] # 0

-----------------------------------------------------------------------------
(* vn_create_file *)

\* generate_inode_no() is `return inode_seed++', a load and a store of a
\* plain int64_t shared by all threads.
CreateLoadSeed(t, k) ==
    /\ mounted /\ pc[t] = "idle" /\ KnownDir(k[1])
    /\ seed <= MaxIno
    /\ SeedRace \/ \A u \in Thread : pc[u] # "c_store"
    /\ reg' = [reg EXCEPT ![t] = Locals(k, seed, 0, 0)]
    /\ Goto(t, "c_store")
    /\ UNCHANGED <<db, recoverable, mounted, seed, iter, locks>>

\* Mutant: `return inode_seed' without the increment.
CreateStoreSeed_NoIncrement(t) ==
    /\ pc[t] = "c_store"
    /\ Goto(t, "c_get")
    /\ UNCHANGED <<db, recoverable, mounted, seed, reg, iter, locks>>

CreateStoreSeed(t) ==
    /\ pc[t] = "c_store"
    /\ seed' = reg[t].ino + 1
    /\ Goto(t, "c_get")
    /\ UNCHANGED <<db, recoverable, mounted, reg, iter, locks>>

\* Mutant: Get instead of GetForUpdate.
CreateGet_NoLock(t) ==
    /\ pc[t] = "c_get" /\ Free(dirLock[reg[t].key], t)
    /\ db.dirent[reg[t].key] = NoIno
    /\ Goto(t, "c_put")
    /\ UNCHANGED <<db, recoverable, mounted, seed, reg, iter, locks>>

\* GetForUpdate(file_key) finds the name free ...
CreateGet(t) ==
    LET k == reg[t].key IN
    /\ pc[t] = "c_get" /\ Free(dirLock[k], t)
    /\ db.dirent[k] = NoIno
    /\ dirLock' = [dirLock EXCEPT ![k] = t]
    /\ Goto(t, "c_put")
    /\ UNCHANGED <<db, recoverable, mounted, seed, reg, iter, inoLock, seedLock>>

\* Mutant: the early return forgets to roll the transaction back.
CreateExists_NoRollback(t) ==
    LET k == reg[t].key IN
    /\ pc[t] = "c_get" /\ Free(dirLock[k], t)
    /\ db.dirent[k] # NoIno
    /\ Goto(t, "idle")
    /\ reg' = [reg EXCEPT ![t] = Reg0]
    /\ dirLock' = [dirLock EXCEPT ![k] = t]
    /\ UNCHANGED <<db, recoverable, mounted, seed, iter, inoLock, seedLock>>

\* ... or taken: -EEXIST, the number drawn from the seed is lost ...
CreateExists(t) ==
    LET k == reg[t].key IN
    /\ pc[t] = "c_get" /\ Free(dirLock[k], t)
    /\ db.dirent[k] # NoIno
    /\ Return(t)
    /\ UNCHANGED <<db, recoverable, mounted, seed, iter>>

\* ... or does not get the lock in time.  Only s.ok() is tested, so the call
\* carries on as if the name were free.
CreateGetTimeout(t) ==
    /\ pc[t] = "c_get" /\ TimesOut(dirLock[reg[t].key], t)
    /\ Goto(t, "c_put")
    /\ UNCHANGED <<db, recoverable, mounted, seed, reg, iter, locks>>

\* Put(file_key)
CreatePutName(t) ==
    LET k == reg[t].key IN
    /\ pc[t] = "c_put" /\ Free(dirLock[k], t)
    /\ dirLock' = [dirLock EXCEPT ![k] = t]
    /\ Goto(t, "c_inode")
    /\ UNCHANGED <<db, recoverable, mounted, seed, reg, iter, inoLock, seedLock>>

\* _vn_persist_inode
CreatePutInode(t) ==
    LET i == reg[t].ino IN
    /\ pc[t] = "c_inode" /\ Free(inoLock[i], t)
    /\ inoLock' = [inoLock EXCEPT ![i] = t]
    /\ Goto(t, "c_seed")
    /\ UNCHANGED <<db, recoverable, mounted, seed, reg, iter, dirLock, seedLock>>

\* Mutant: the successor of the call's own number is stored.
CreatePutSeed_OwnNumber(t) ==
    /\ pc[t] = "c_seed" /\ Free(seedLock, t)
    /\ seedLock' = t
    /\ reg' = [reg EXCEPT ![t] = Locals(@.key, @.ino, @.ino + 1, 0)]
    /\ Goto(t, "c_commit")
    /\ UNCHANGED <<db, recoverable, mounted, seed, iter, dirLock, inoLock>>

\* Put(INODE_SEED_KEY): the slice points at ctx->inode_seed itself, whose
\* value is copied once the lock of the key is held.
CreatePutSeed(t) ==
    /\ pc[t] = "c_seed" /\ Free(seedLock, t)
    /\ seedLock' = t
    /\ reg' = [reg EXCEPT ![t] = Locals(@.key, @.ino, seed, 0)]
    /\ Goto(t, "c_commit")
    /\ UNCHANGED <<db, recoverable, mounted, seed, iter, dirLock, inoLock>>

\* Mutants: the inode is not put, data_opt is used, the seed is not put.
CreateCommit_NoInode(t) ==
    LET r == reg[t] IN
    /\ pc[t] = "c_commit"
    /\ CommitSync(Stored(WithEntry(r.key, r.ino), db.links, r.seed))
    /\ Return(t)
    /\ UNCHANGED <<mounted, seed, iter>>

CreateCommit_NoSync(t) ==
    LET r == reg[t] IN
    /\ pc[t] = "c_commit"
    /\ CommitNoSync(Stored(WithEntry(r.key, r.ino), WithLinks(r.ino, 1), r.seed))
    /\ Return(t)
    /\ UNCHANGED <<mounted, seed, iter>>

CreateCommit_NoSeed(t) ==
    LET r == reg[t] IN
    /\ pc[t] = "c_commit"
    /\ CommitSync(Stored(WithEntry(r.key, r.ino), WithLinks(r.ino, 1), db.seed))
    /\ Return(t)
    /\ UNCHANGED <<mounted, seed, iter>>

\* Commit, in one batch, of the entry, an inode with one link and the seed.
CreateCommit(t) ==
    LET r == reg[t] IN
    /\ pc[t] = "c_commit"
    /\ CommitSync(Stored(WithEntry(r.key, r.ino), WithLinks(r.ino, 1), r.seed))
    /\ Return(t)
    /\ UNCHANGED <<mounted, seed, iter>>

\* -EIO: a Put that times out on its lock, or a Commit that fails.
CreateFail(t) ==
    /\ \/ pc[t] = "c_put" /\ TimesOut(dirLock[reg[t].key], t)
       \/ pc[t] = "c_inode" /\ TimesOut(inoLock[reg[t].ino], t)
       \/ pc[t] = "c_seed" /\ TimesOut(seedLock, t)
       \/ pc[t] = "c_commit"
    /\ Return(t)
    /\ UNCHANGED <<db, recoverable, mounted, seed, iter>>

Create(t) ==
    \/ \E k \in Key : CreateLoadSeed(t, k)
    \/ CreateStoreSeed(t) \/ CreateGet(t) \/ CreateExists(t)
    \/ CreateGetTimeout(t) \/ CreatePutName(t) \/ CreatePutInode(t)
    \/ CreatePutSeed(t) \/ CreateCommit(t) \/ CreateFail(t)
-----------------------------------------------------------------------------
(* vn_unlink.  vn_lookup_inode_no reads the entry and then the inode, two   *)
(* Gets outside any transaction; a name that is not found ends the call     *)
(* with -ENOENT and changes nothing.                                        *)

UnlinkLookupName(t, k) ==
    /\ mounted /\ pc[t] = "idle"
    /\ db.dirent[k] # NoIno
    /\ reg' = [reg EXCEPT ![t] = Locals(k, db.dirent[k], 0, 0)]
    /\ Goto(t, "u_inode")
    /\ UNCHANGED <<db, recoverable, mounted, seed, iter, locks>>

\* --inode->i_links_count acts on the private copy just read.  When the record
\* is missing ("inode lost") the lookup fails and vn_unlink returns -ENOENT.
UnlinkLookupInode(t) ==
    LET n == db.links[reg[t].ino] IN
    /\ pc[t] = "u_inode"
    /\ IF n = 0
         THEN Return(t)
         ELSE /\ reg' = [reg EXCEPT ![t] = Locals(@.key, @.ino, 0, n - 1)]
              /\ Goto(t, "u_write")
              /\ UNCHANGED locks
    /\ UNCHANGED <<db, recoverable, mounted, seed, iter>>

\* The last link: Delete(file_key).  The extents are deleted from default_cf,
\* where there are none, and the inode record stays.  The status of Delete is
\* not looked at: when the lock is not obtained the batch stays empty.
UnlinkDeleteName(t) ==
    LET k == reg[t].key IN
    /\ pc[t] = "u_write" /\ reg[t].links = 0
    /\ \/ Free(dirLock[k], t) /\ dirLock' = [dirLock EXCEPT ![k] = t]
       \/ TimesOut(dirLock[k], t) /\ UNCHANGED dirLock
    /\ Goto(t, "u_commit")
    /\ UNCHANGED <<db, recoverable, mounted, seed, reg, iter, inoLock, seedLock>>

\* More links: _vn_persist_inode of the copy; the entry stays.
UnlinkPutInode(t) ==
    LET i == reg[t].ino IN
    /\ pc[t] = "u_write" /\ reg[t].links # 0 /\ Free(inoLock[i], t)
    /\ inoLock' = [inoLock EXCEPT ![i] = t]
    /\ Goto(t, "u_commit")
    /\ UNCHANGED <<db, recoverable, mounted, seed, reg, iter, dirLock, seedLock>>

\* Mutant: the inode record is deleted with the last link.
UnlinkCommit_FreesInode(t) ==
    LET r == reg[t] IN
    /\ pc[t] = "u_commit"
    /\ CommitSync(Stored(IF r.links = 0 THEN WithEntry(r.key, NoIno) ELSE db.dirent,
                         WithLinks(r.ino, r.links), db.seed))
    /\ Return(t)
    /\ UNCHANGED <<mounted, seed, iter>>

\* The commit of a batch that is empty because its Delete timed out changes
\* nothing, and the call returns 0 all the same.
UnlinkCommit(t) ==
    LET r == reg[t] IN
    /\ pc[t] = "u_commit"
    /\ \/ r.links # 0 /\ CommitSync(Stored(db.dirent, WithLinks(r.ino, r.links), db.seed))
       \/ /\ r.links = 0 /\ dirLock[r.key] = t
          /\ CommitSync(Stored(WithEntry(r.key, NoIno), db.links, db.seed))
       \/ /\ r.links = 0 /\ dirLock[r.key] # t
          /\ UNCHANGED <<db, recoverable>>
    /\ Return(t)
    /\ UNCHANGED <<mounted, seed, iter>>

\* -EIO: the inode's lock times out, or the Commit fails.
UnlinkFail(t) ==
    /\ \/ pc[t] = "u_write" /\ reg[t].links # 0
          /\ TimesOut(inoLock[reg[t].ino], t)
       \/ pc[t] = "u_commit"
    /\ Return(t)
    /\ UNCHANGED <<db, recoverable, mounted, seed, iter>>

Unlink(t) ==
    \/ \E k \in Key : UnlinkLookupName(t, k)
    \/ UnlinkLookupInode(t) \/ UnlinkDeleteName(t) \/ UnlinkPutInode(t)
    \/ UnlinkCommit(t) \/ UnlinkFail(t)

-----------------------------------------------------------------------------
(* Directory iteration.  The iterator works on the snapshot of meta_cf taken *)
(* when it is created; the inode of each entry is read from the database as  *)
(* it is when the entry is yielded.                                          *)

IterBegin(t, d) ==
    /\ mounted /\ pc[t] = "idle" /\ KnownDir(d)
    /\ iter' = [iter EXCEPT ![t] =
                  {e \in Name \X Ino : db.dirent[<<d, e[1]>>] = e[2]}]
    /\ Goto(t, "iterate")
    /\ UNCHANGED <<db, recoverable, mounted, seed, reg, locks>>

\* vn_next_inode yields the entry and moves on; it does not move on, and
\* returns NULL, when the inode record is gone.
IterNext(t, e) ==
    /\ pc[t] = "iterate" /\ e \in iter[t]
    /\ db.links[e[2]] # 0
    /\ iter' = [iter EXCEPT ![t] = @ \ {e}]
    /\ UNCHANGED <<db, recoverable, mounted, seed, pc, reg, locks>>

IterRelease(t) ==
    /\ pc[t] = "iterate"
    /\ iter' = [iter EXCEPT ![t] = {}]
    /\ Goto(t, "idle")
    /\ UNCHANGED <<db, recoverable, mounted, seed, reg, locks>>

Iterate(t) ==
    \/ \E d \in Dir : IterBegin(t, d)
    \/ \E e \in Name \X Ino : IterNext(t, e)
    \/ IterRelease(t)

-----------------------------------------------------------------------------
(* The inode and the volume as a whole *)

\* vn_persist_inode: a caller stores an inode it holds, with the attributes
\* (here the link count) it has set, in a transaction without sync.
PersistInode(i, n) ==
    /\ mounted /\ db.links[i] # 0 /\ inoLock[i] = NoThread
    /\ CommitNoSync(Stored(db.dirent, WithLinks(i, n), db.seed))
    /\ UNCHANGED <<mounted, seed, pc, reg, iter, locks>>

\* FlushWAL(TRUE) in vn_fsync, Flush of the column families in vn_flush_fs:
\* every commit so far becomes durable.
FlushFs ==
    /\ mounted /\ recoverable # {db}
    /\ recoverable' = {db}
    /\ UNCHANGED <<db, mounted, seed, pc, reg, iter, locks>>

\* Mutant: the stored seed is not read.
Mount_NoSeed ==
    /\ ~mounted
    /\ mounted' = TRUE
    /\ UNCHANGED <<db, recoverable, seed, pc, reg, iter, locks>>

Mount ==
    /\ ~mounted
    /\ mounted' = TRUE
    /\ seed' = db.seed
    /\ UNCHANGED <<db, recoverable, pc, reg, iter, locks>>

\* The NFS server drains its workers before it calls vn_umount.
Umount ==
    /\ mounted /\ \A t \in Thread : pc[t] = "idle"
    /\ mounted' = FALSE /\ seed' = 0
    /\ recoverable' = {db}
    /\ UNCHANGED <<db, pc, reg, iter, locks>>

\* The process dies at any point; what is in memory is gone.
Crash ==
    /\ mounted
    /\ mounted' = FALSE /\ seed' = 0
    /\ db' \in recoverable /\ recoverable' = {db'}
    /\ pc' = [t \in Thread |-> "idle"]
    /\ reg' = [t \in Thread |-> Reg0]
    /\ iter' = [t \in Thread |-> {}]
    /\ dirLock' = [k \in Key |-> NoThread]
    /\ inoLock' = [i \in Ino |-> NoThread]
    /\ seedLock' = NoThread

Next ==
    \/ \E t \in Thread : Create(t) \/ Unlink(t) \/ Iterate(t)
    \/ \E i \in Ino, n \in 1 .. MaxLinks : PersistInode(i, n)
    \/ FlushFs \/ Mount \/ Umount \/ Crash

Spec == Init /\ [][Next]_vars

-----------------------------------------------------------------------------
(* Properties *)

\* Every variable has the type of the data it stands for, and the current
\* database is one a crash may leave.
TypeOK ==
    /\ db \in Database
    /\ recoverable \subseteq Database /\ db \in recoverable
    /\ mounted \in BOOLEAN
    /\ seed \in Seeds \cup {0} /\ (mounted => seed # 0)
    /\ pc \in [Thread -> PC]
    /\ reg \in [Thread -> Register]
    /\ iter \in [Thread -> SUBSET (Name \X Ino)]
    /\ dirLock \in [Key -> Thread \cup {NoThread}]
    /\ inoLock \in [Ino -> Thread \cup {NoThread}]
    /\ seedLock \in Thread \cup {NoThread}

\* Whatever a crash recovers, a directory entry leads to an inode record:
\* vn_create_file writes both in one transaction and vn_unlink never deletes
\* the record.
NoDanglingEntry ==
    \A v \in recoverable : \A k \in Key :
        v.dirent[k] # NoIno => v.links[v.dirent[k]] # 0

\* A crash undoes no committed vn_create_file or vn_unlink and never moves
\* the seed back, even when inode updates made without sync are lost.
NamespaceDurable ==
    \A v \in recoverable : v.dirent = db.dirent /\ v.seed = db.seed

\* The "inode lost" branches are dead: the inode a lookup is about to read,
\* or an iterator is about to yield, has its record although other threads
\* may unlink the entry in between.
InodeNeverLost ==
    \A t \in Thread :
        /\ pc[t] = "u_inode" => db.links[reg[t].ino] # 0
        /\ \A e \in iter[t] : db.links[e[2]] # 0

\* No two directory entries share an inode, in any state a crash can leave.
UniqueInode ==
    \A v \in recoverable : \A j, k \in Key :
        v.dirent[j] # NoIno /\ v.dirent[j] = v.dirent[k] => j = k

\* A remount never hands out a number again: the stored seed is above every
\* stored inode number.
SeedAboveInodes ==
    \A v \in recoverable : \A i \in Ino : v.links[i] # 0 => i < v.seed

\* The step of t is waiting for a lock that another thread holds.
Blocked(t) ==
    \/ pc[t] \in {"c_get", "c_put"} /\ ~Free(dirLock[reg[t].key], t)
    \/ pc[t] = "c_inode" /\ ~Free(inoLock[reg[t].ino], t)
    \/ pc[t] = "c_seed" /\ ~Free(seedLock, t)
    \/ pc[t] = "u_write" /\ reg[t].links = 0 /\ ~Free(dirLock[reg[t].key], t)
    \/ pc[t] = "u_write" /\ reg[t].links # 0 /\ ~Free(inoLock[reg[t].ino], t)

InTransaction(t) == pc[t] \in InCreate \cup InUnlink

\* The order in which the calls lock keys (name, inode, seed) never makes
\* them wait for each other in a circle, so no lock timeout is needed to
\* resolve one: some call inside a transaction can go on.
NoLockCycle ==
    (\E t \in Thread : InTransaction(t)) =>
        \E t \in Thread : InTransaction(t) /\ ~Blocked(t)

\* vn_create_file never replaces an entry: an entry changes only by being
\* removed or by being created where there was none.
CreateNeverReplaces ==
    [][\A k \in Key : db.dirent[k] # NoIno /\ db'.dirent[k] # NoIno
                        => db'.dirent[k] = db.dirent[k]]_vars

-----------------------------------------------------------------------------
(* Refinement *)

Directory == INSTANCE VnDirectory
    WITH dirent <- db.dirent, used <- {i \in Ino : db.links[i] # 0}

\* The concurrent, crashing name space is an atomic, durable directory:
\* every step of vn_create_file, vn_unlink, a crash or a remount creates one
\* entry under a fresh number, removes one, or changes nothing visible.
ImplementsDirectory == Directory!Spec

=============================================================================
