---------------------------- MODULE VnLifecycle ----------------------------
(***************************************************************************)
(* The life of a volume: mkfs.vn formats it step by step, servers mount,   *)
(* flush and unmount it, processes die between any two steps.  Mirrors     *)
(* vn_mkfs.cpp and the mount, unmount and flush calls of vn_main.cpp.      *)
(*                                                                         *)
(* The database is reduced to what these calls read and write: the set of  *)
(* column families (in RocksDB's manifest, durable at once), the two       *)
(* records of the format, and the number of commits of the file system.    *)
(***************************************************************************)
EXTENDS Naturals, FiniteSets

CONSTANTS
    Process,     \* processes: runs of mkfs.vn and of the NFS server
    MaxCommit,   \* bound: commits of the file system
    CallsFail,   \* RocksDB calls whose status the code tests may fail
    SilentFails, \* RocksDB calls whose status the code ignores may fail
    Exclusive    \* nobody starts a process while another has the volume open

ASSUME ConstantsAssumption ==
    /\ MaxCommit \in Nat
    /\ {CallsFail, SilentFails, Exclusive} \subseteq BOOLEAN

VARIABLES
    phase,       \* where each process is
    last,        \* what its last call returned, or printed
    cancelled,   \* processes that have cancelled RocksDB's background work
    families,    \* column families in the manifest, besides the default one
    db,          \* what a Get sees
    recoverable, \* the databases that the death of a process can leave
    acked,       \* history: commits that a call has promised to be durable
    reported     \* history: mkfs.vn has printed "Format successed"

vars == <<phase, last, cancelled, families, db, recoverable, acked, reported>>

store == <<families, db, recoverable, acked>>

Family == {"meta_cf", "data_cf"}

Phase == {"down", "mk_meta", "mk_data", "mk_put", "mk_flush", "mk_exit",
          "up", "flushing", "closing"}

Mounted == {"up", "flushing", "closing"}

Outcome == {"none", "formatted", "format_failed", "format_segv", "debugged",
            "mounted", "mount_null", "mount_segv", "flushed", "flush_eio",
            "unmounted"}

\* sb: the superblock's magic and version, seed: whether the record exists.
Database == [sb : {"none", "ours", "other"}, seed : BOOLEAN, n : 0..MaxCommit]

Blank == [sb |-> "none", seed |-> FALSE, n |-> 0]

\* A volume of an incompatible version.
Foreign == [sb |-> "other", seed |-> TRUE, n |-> 0]

----------------------------------------------------------------------------
(* RocksDB and the file-system plugin *)

\* RocksDB takes the lock file before it opens a database.
LockFile(p) == TRUE

CanOpen(p) ==
    /\ phase[p] = "down"
    /\ Exclusive => \A q \in Process : phase[q] = "down"
    /\ LockFile(p)

\* RocksDB opens a database only with all of the families it has.
OpensWith(fams) == families = fams

\* A call whose status the code tests returns an error.
Fails == CallsFail

\* A process ends, by exit or by a crash, when `survivors` may be left.
Ends(p, result, survivors) ==
    /\ \E r \in survivors : db' = r /\ recoverable' = {r}
    /\ phase' = [phase EXCEPT ![p] = "down"]
    /\ last' = [last EXCEPT ![p] = result]
    /\ cancelled' = cancelled \ {p}

\* Everything that can be left when a Flush or FlushWAL(true) was asked for.
Flushed == IF SilentFails THEN {{db}, recoverable} ELSE {{db}}

\* Mutant: the destructor forgets FlushWAL.
Destroy_NoFlushWAL(p, result) == Ends(p, result, recoverable)

\* ~ViveFsContext: FlushWAL(true), Close; no status is looked at.
Destroy(p, result) == \E survivors \in Flushed : Ends(p, result, survivors)

Goes(p, to) ==
    /\ phase' = [phase EXCEPT ![p] = to]
    /\ UNCHANGED <<last, cancelled>>

----------------------------------------------------------------------------
(* mkfs.vn *)

\* Mutant: mkfs.vn formats whatever it finds.
MkfsOpen_Anything(p) ==
    /\ CanOpen(p)
    /\ Goes(p, "mk_meta")
    /\ UNCHANGED <<store, reported>>

\* Opens with the default family only.  If that fails ~ViveFsContext calls
\* a method of the null pointer db, and the process dies.
MkfsOpen(p) ==
    /\ CanOpen(p)
    /\ \/ OpensWith({}) /\ Goes(p, "mk_meta")
       \/ /\ ~OpensWith({}) \/ Fails
          /\ last' = [last EXCEPT ![p] = "format_segv"]
          /\ UNCHANGED <<phase, cancelled>>
    /\ UNCHANGED <<store, reported>>

\* Mutant: the error path returns 0.
CreateFails_ReturnsZero(p) ==
    /\ Fails
    /\ Destroy(p, "formatted")
    /\ reported' = TRUE
    /\ UNCHANGED <<families, acked>>

\* A failing CreateColumnFamily returns through ~ViveFsContext.
CreateFails(p) ==
    /\ Fails
    /\ Destroy(p, "format_failed")
    /\ UNCHANGED <<families, acked, reported>>

CreateFamily(p, at, f, to) ==
    /\ phase[p] = at
    /\ \/ /\ families' = families \cup {f}
          /\ Goes(p, to)
          /\ UNCHANGED <<db, recoverable, acked, reported>>
       \/ CreateFails(p)

MkfsCreateMeta(p) == CreateFamily(p, "mk_meta", "meta_cf", "mk_data")

MkfsCreateData(p) == CreateFamily(p, "mk_data", "data_cf", "mk_put")

\* Superblock and seed in one transaction, not synced; CHECKED_CALL ends the
\* process when a call fails.
MkfsPut(p) ==
    /\ phase[p] = "mk_put"
    /\ \/ /\ db' = [db EXCEPT !.sb = "ours", !.seed = TRUE]
          /\ recoverable' = recoverable \cup {db'}
          /\ Goes(p, "mk_flush")
       \/ Fails /\ Ends(p, "format_failed", recoverable)
    /\ UNCHANGED <<families, acked, reported>>

\* The Get of the seed only logs; the status of Flush is ignored.
MkfsFlush(p) ==
    /\ phase[p] = "mk_flush"
    /\ recoverable' \in Flushed
    /\ Goes(p, "mk_exit")
    /\ UNCHANGED <<families, db, acked, reported>>

\* vn_mkfs_vivefs returns 0 through ~ViveFsContext, then main prints.
MkfsExit(p) ==
    /\ phase[p] = "mk_exit"
    /\ Destroy(p, "formatted")
    /\ reported' = TRUE
    /\ UNCHANGED <<families, acked>>

\* mkfs.vn -d opens all families, reads the seed and leaves; FATAL otherwise.
DebugRun(p) ==
    /\ CanOpen(p)
    /\ OpensWith(Family)
    /\ Destroy(p, "debugged")
    /\ UNCHANGED <<families, acked, reported>>

----------------------------------------------------------------------------
(* The server *)

\* Mutant: the superblock is not compared.
MountChecks_AnyVersion == db.seed

\* Seed and superblock exist, magic and version are this program's.
MountChecks == db.seed /\ db.sb = "ours"

\* A failed open returns through ~ViveFsContext with db NULL; a failed check
\* closes the database and returns NULL.
Mount(p) ==
    /\ CanOpen(p)
    /\ \/ /\ OpensWith(Family) /\ MountChecks
          /\ phase' = [phase EXCEPT ![p] = "up"]
          /\ last' = [last EXCEPT ![p] = "mounted"]
          /\ UNCHANGED <<cancelled, db, recoverable>>
       \/ /\ ~OpensWith(Family) \/ Fails
          /\ last' = [last EXCEPT ![p] = "mount_segv"]
          /\ UNCHANGED <<phase, cancelled, db, recoverable>>
       \/ /\ OpensWith(Family)
          /\ ~MountChecks \/ Fails
          /\ Destroy(p, "mount_null")
    /\ UNCHANGED <<families, acked, reported>>

\* Mutant: an unsynced commit writes no log.
Commit_NotLogged(p, sync) ==
    /\ phase[p] \in Mounted
    /\ db.n < MaxCommit
    /\ db' = [db EXCEPT !.n = @ + 1]
    /\ recoverable' = IF sync THEN {db'} ELSE recoverable
    /\ acked' = IF sync THEN db'.n ELSE acked
    /\ UNCHANGED <<phase, last, cancelled, families, reported>>

\* Commits of other threads: name-space ones with meta_opt (sync), data with
\* data_opt.  Nothing stops them while a flush or an unmount is running.
Commit(p, sync) ==
    /\ phase[p] \in Mounted
    /\ db.n < MaxCommit
    /\ db' = [db EXCEPT !.n = @ + 1]
    /\ recoverable' = IF sync THEN {db'} ELSE recoverable \cup {db'}
    /\ acked' = IF sync THEN db'.n ELSE acked
    /\ UNCHANGED <<phase, last, cancelled, families, reported>>

\* Flush writes the memtables; once background work is cancelled it fails.
\* SyncWAL does not write the buffered log (manual_wal_flush).
FlushFs(p) ==
    /\ phase[p] = "up"
    /\ \/ /\ p \notin cancelled
          /\ recoverable' = {db}
          /\ acked' = db.n
          /\ Goes(p, "flushing")
       \/ /\ p \in cancelled \/ Fails
          /\ last' = [last EXCEPT ![p] = "flush_eio"]
          /\ UNCHANGED <<phase, cancelled, recoverable, acked>>
    /\ UNCHANGED <<families, db, reported>>

\* A failing SyncWAL returns before the background work is cancelled.
FlushFsReturn(p) ==
    /\ phase[p] = "flushing"
    /\ phase' = [phase EXCEPT ![p] = "up"]
    /\ \/ /\ last' = [last EXCEPT ![p] = "flushed"]
          /\ cancelled' = cancelled \cup {p}
       \/ /\ Fails
          /\ last' = [last EXCEPT ![p] = "flush_eio"]
          /\ UNCHANGED cancelled
    /\ UNCHANGED <<store, reported>>

\* Flush, SyncWAL and CancelAllBackgroundWork of vn_umount, statuses ignored.
UmountFlush(p) ==
    /\ phase[p] = "up"
    /\ IF p \in cancelled THEN UNCHANGED recoverable
                          ELSE recoverable' \in Flushed
    /\ cancelled' = cancelled \cup {p}
    /\ phase' = [phase EXCEPT ![p] = "closing"]
    /\ UNCHANGED <<last, families, db, acked, reported>>

\* delete ctx, return 0.
UmountDelete(p) ==
    /\ phase[p] = "closing"
    /\ Destroy(p, "unmounted")
    /\ acked' = db.n
    /\ UNCHANGED <<families, reported>>

Crash(p) ==
    /\ phase[p] # "down"
    /\ Ends(p, "none", recoverable)
    /\ UNCHANGED <<families, acked, reported>>

----------------------------------------------------------------------------
Init ==
    /\ phase = [p \in Process |-> "down"]
    /\ last = [p \in Process |-> "none"]
    /\ cancelled = {}
    /\ \/ families = {} /\ db = Blank
       \/ families = Family /\ db = Foreign
    /\ recoverable = {db}
    /\ acked = 0
    /\ reported = FALSE

Mkfs(p) ==
    \/ MkfsOpen(p)
    \/ MkfsCreateMeta(p)
    \/ MkfsCreateData(p)
    \/ MkfsPut(p)
    \/ MkfsFlush(p)
    \/ MkfsExit(p)
    \/ DebugRun(p)

Server(p) ==
    \/ Mount(p)
    \/ \E sync \in BOOLEAN : Commit(p, sync)
    \/ FlushFs(p)
    \/ FlushFsReturn(p)
    \/ UmountFlush(p)
    \/ UmountDelete(p)

Next == \E p \in Process : Mkfs(p) \/ Server(p) \/ Crash(p)

Spec == Init /\ [][Next]_vars

----------------------------------------------------------------------------
(* Properties *)

\* Every variable has its type, and the database is one that may be left.
TypeOK ==
    /\ phase \in [Process -> Phase]
    /\ last \in [Process -> Outcome]
    /\ cancelled \subseteq Process
    /\ families \subseteq Family
    /\ db \in Database
    /\ recoverable \subseteq Database
    /\ db \in recoverable
    /\ acked \in 0..MaxCommit
    /\ reported \in BOOLEAN

Formatted(r) == r.sb = "ours" /\ r.seed

\* A server only ever works on a complete format: both families, and both
\* records in every database that its death could leave.  Half a format, or
\* one of another version, is refused by vn_mount.
MountOnlyFormatted ==
    (\E p \in Process : phase[p] \in Mounted)
        => families = Family /\ \A r \in recoverable : Formatted(r)

\* Once mkfs.vn has printed "Format successed", every crash of any process
\* leaves a volume that vn_mount accepts.
FormatDurable ==
    reported => families = Family /\ \A r \in recoverable : Formatted(r)

\* No commit is lost that a synced commit, a vn_flush_fs that returned 0 or a
\* vn_umount covers, whatever runs or dies afterwards; this includes a
\* vn_umount whose Flush fails because vn_flush_fs cancelled background work.
AckedSurvive == \A r \in recoverable : acked <= r.n

\* Families without the format's records, and nobody at work on them.
Half ==
    /\ families # {}
    /\ \A p \in Process : phase[p] = "down"
    /\ ~Formatted(db)

\* An mkfs.vn that died after its first family leaves a volume that no later
\* mkfs.vn, mount or crash ever turns into a usable one or an empty one.
HalfFormatFinal == [][Half => Half']_vars

----------------------------------------------------------------------------
(* What the repository says and the code does not keep *)

\* vn_pfaof.cpp, LockFile: "Used to prevent concurrent access to the same db
\* by multiple processes."
OneOpener == Cardinality({p \in Process : phase[p] # "down"}) <= 1
=============================================================================
