# ViveNAS in TLA+

ViveNAS is a user-space file system for an NFS server (nfs-ganesha).  It keeps
everything in one RocksDB `TransactionDB`: names, inodes and the inode-number
seed in the column family `meta_cf`, file data in 64 KB extents in `data_cf`.
RocksDB itself runs on PureFlash append-only files through a file-system
plugin.  This directory holds TLA+ modules that model the calls of ViveNAS, TLC
configurations that check them on small instances, and TLAPS proofs.

`PROJECT.json` maps each definition to the source lines it models and lists the
runs, mutants, findings, hazards and theorems.

## 1. The system and its parts

| Part | Source | State | Operations | Model |
|---|---|---|---|---|
| Name space | `vn_file.cpp`, `vn_main.cpp` | entries, inode records, seed (stored and in memory) | `vn_create_file`, `vn_unlink`, `vn_lookup_inode_no`, directory iterator, `vn_persist_inode`, `generate_inode_no` | `VnNamespace` |
| Extent merge operator | `vn_data_merge.cpp` | base value and deltas of an extent | `_merge`, `PartialMerge`, `FullMergeV2` | `VnExtentMerge` |
| File I/O | `vn_file.cpp` | in-memory inodes with `ref_cnt`, open files with `dirty`, extents, recorded size | open (also `O_TRUNC`), write, read, fsync, close, `vn_persist_inode` | `VnFileIO` |
| Segmentation | `vn_file.cpp` | bytes of extents, `i_size`, caller's buffers | loops of `vn_write`, `vn_writev`, `vn_read`, `vn_readv` | `VnSegments` |
| Mount, unmount, flush, mkfs | `vn_main.cpp`, `vn_mkfs.cpp` | column families, superblock, seed record, background work, context | `vn_mkfs_vivefs`, `vn_debug_run`, `vn_mount`, `vn_flush_fs`, `vn_umount`, `~ViveFsContext` | `VnLifecycle` |
| Keys | `vn_vivenas_internal.h`, `vn_file.cpp` | keys of `meta_cf` as bytes | key construction, prefix scan | `VnKeys` |
| PureFlash plugin | `vn_pfaof.cpp` | files, handles, references, reader and writer counts | the RocksDB `FileSystem` interface | `VnPfAof`; `LockFile` in `VnLifecycle` |
| Superblock text, options, rename stub, test helper | | none that changes | | not modelled |

How they interact: worker threads of the NFS server call the name-space and
file operations concurrently, with no lock of ViveNAS's own.  All mutual
exclusion comes from the key locks of RocksDB transactions.  Two kinds of state
are outside of them: the seed in `ViveFsContext`, and the inodes and files in
memory (`i_size`, `dirty`, `ref_cnt`).  Data commits are not synced; name-space
commits are.  RocksDB calls the merge operator when it reads, flushes or
compacts, at moments and on groups of operands that it chooses.  `mkfs.vn` and
the server are processes of their own; what one of them leaves when it ends or
dies is what the next one finds.

What is hard here, and is therefore in the models: the interleaving of database
calls of several threads; lock waits that time out (1 s by default) and the code
that ignores their status; crashes between commits, with synced and unsynced
ones, also between the steps of `mkfs.vn`; calls whose status is not looked at;
private copies of one inode; the order of merges; boundary offsets; keys of
different kinds in one key space.

## 2. The modules

Modelling of RocksDB (external, the same in `VnNamespace` and `VnFileIO`): a
transaction locks each key it writes or reads for update and keeps the lock to
its end; a lock request that cannot be met waits and, when `LockTimeouts` is
TRUE, may fail; a commit is atomic.  `recoverable` is the set of database states
that a crash can leave: a synced commit makes it `{new}`, an unsynced one adds
`new`, `FlushWAL(true)` makes it `{db}`, and a crash picks one member.

* **`VnNamespace`** — one step for each database call of `vn_create_file`,
  `vn_unlink` and the directory iterator; `vn_persist_inode`, mount, unmount,
  flush and crash are single steps.  `generate_inode_no` is a load and a store.
  `vn_rename_file` is a stub that changes nothing and has no action.  The
  cancelling of background work in `vn_flush_fs` is not visible here.  That calls
  name only directories that have a record (`KnownDir`) is assumed of the caller:
  the code that would look is commented out (`vn_file.cpp:91`).
  **`VnDirectory`** is what it promises: an atomic, durable directory with fresh
  inode numbers.  `MCNamespace` adds symmetry over threads and names.
* **`VnExtentMerge`** — one extent: `Write` (Put or Merge), `Erase`, and the two
  compactions that RocksDB may do at any time.  `Get` is a full merge.
  **`VnExtent`** is what it promises: an array of bytes.
* **`VnFileIO`** — one file, several open `ViveFile`s, and one or more in-memory
  inodes for it.  The unit of data is an extent, whose content is the number of
  the write that stored it.  `O_TRUNC`, write, persist and fsync are sequences
  of steps; failing lock waits, commits and log flushes take the code's early
  returns.  A read only marks the file dirty here.  History variables record
  what was asked for (`wrote`, `through`) and synced (`synced`); the commit of a
  truncation takes the extents it deletes out of `wrote`, which then says what of
  each write may still be there.
* **`VnSegments`** — the same calls for one thread and byte by byte: cutting a
  range into extents, gathering from and scattering to `iovec`s, `size_t`
  arithmetic modulo `Word`, the assertion in `vn_writev`.  **`VnPosixFile`** is
  what it promises: a sequence of bytes.

* **`VnLifecycle`** — the volume as a whole: each process is in a phase of
  `mkfs.vn` or of a server (`phase`), the manifest has a set of column families
  (`families`, durable at once), and the database is reduced to the superblock,
  the presence of the seed record, and the number of commits.  RocksDB opens a
  volume only with exactly its families.  A tested call may fail when
  `CallsFail`, an untested one when `SilentFails`.  With `manual_wal_flush` a
  commit stays in a buffer until a flush or `FlushWAL`; `SyncWAL` does not write
  the buffer, and `Flush` fails after `CancelAllBackgroundWork`.  A failed open
  ends the process: the destructor uses the null `db`.  `acked` and `reported`
  are history: what calls that returned have promised.
* **`VnPfAof`** — the handles RocksDB holds on append-only files, and the shared
  `PfAof` object of each file with its three counters.  A byte is the number of
  the `NewWritableFile` call that led to it.  The constructor of a reader may
  throw (`read_cache.init`), after the object's counters were raised.  `given` and
  `lost` are history: the bytes a reader has delivered, each with its place, and
  the constructors that threw.  PureFlash (external) may return a short count or
  an error from a read, may fail to sync, and may keep any part of a file that
  contains its synced bytes when the process dies.  `MCPfAof` adds symmetry over
  names and handles.
* **`VnKeys`** — `meta_cf` as a map from byte strings, in RocksDB's order, with
  create, unlink and the directory scan for one thread; `VnNamespace` has their
  interleavings with abstract keys.  `entry` is history: the directory as its
  users see it.  `MCKeys` gives the names.

The abstract modules are specifications, not translations, and have no map.

### Constants that stand for assumptions

`SeedRace`, `LockTimeouts`, `GapWrites`, `SizeRace`, `SharedHandles`,
`CommitFails`, `Truncates`, `TruncRace`, the size of `Copy`, the set `Odd`,
`CallsFail`, `SilentFails`, the negation of `Exclusive`, `ReadFails`, `Reuses`,
and the numbers in `Ino` of `VnKeys` switch on behaviour
that the code allows.  A property that fails with the switch on is
checked with it off (what the code guarantees under the assumption) and appears
as a violation run, or in the table after them, with it on (what the code really
allows).

## 3. Runs

Passing runs:

| Run | Shows | Bounds |
|---|---|---|
| `namespace` | `TypeOK`, `NoDanglingEntry`, `NamespaceDurable`, `InodeNeverLost`, `NoLockCycle` with timeouts, seed race, crashes | 2 threads, 1 name in 2 directories, 2 inode numbers, 2 links |
| `directory` | `UniqueInode`, `SeedAboveInodes`, `CreateNeverReplaces`, `ImplementsDirectory` if `inode_seed++` is atomic and no lock wait times out | the same with 3 inode numbers |
| `extent` | `TypeOK`, `LastWriteVisible`, and `DeltasTouch`, `ImplementsExtent`, if segments touch | 3-byte extent, 3 deltas |
| `fileio` | `TypeOK`, `FsyncDurable`, `WriteAllOrNothing`, `SizeRecorded`, `NoLockCycle`, `ErasedStaysErased` with one shared inode, no faults but crashes | 2 threads, 2 files, 2 extents, 2 writes |
| `termination` | `RefsCounted`, `ErasedStaysErased`, `CallsTerminate` with lock timeouts, failing commits and truncation at any time | 2 threads, 2 files, 1 extent, 1 write |
| `segments` | `TypeOK`, `ImplementsPosixFile` for aligned reads inside the file and writes of at least a byte | 2-byte extents, files of 5 bytes, calls of 4 bytes, 2 buffers |
| `lifecycle` | `TypeOK`, `MountOnlyFormatted`, `FormatDurable`, `AckedSurvive`, `HalfFormatFinal` with failing tested calls and crashes, for processes that use the volume one after the other | 2 processes, 3 commits |
| `pfaof` | `TypeOK`, `CountsMatch`, `ReadsStable` with failing reads, syncs and constructors, used names and crashes | 2 files of 2 bytes, 2 handles, 2 writable files, failing reads move back by 1, 1 throw per file |
| `keys` | `KeysSeparate`, `ListingExact` for inode numbers whose bytes do not begin like an entry | names `a`, `3a`, `3_a`; inode numbers 23, 50, 51 |

Violation runs, each with an entry under `findings`:

| Run | What happens |
|---|---|
| `create_timeout` | `GetForUpdate` times out, the create goes on and replaces an entry |
| `extent_gap` | merging two deltas with a gap puts zeros over older bytes |
| `unaligned_read` | a read inside an extent returns the extent's first bytes |

The models show more of the same kind when the constants of a run are changed;
no run is kept for these:

| Change | Property that fails | What happens |
|---|---|---|
| `directory` with `SeedRace = TRUE` | `UniqueInode` | two threads in `generate_inode_no` draw one number, and two names share an inode (`vn_main.cpp:206`) |
| `fileio` with `Copy = {c1, c2}`, `Truncates = FALSE` | `SizeRecorded` | each open has an inode of its own; a file opened earlier writes its smaller size over the recorded one (`vn_file.cpp:303`) |
| `fileio` with `SizeRace = TRUE` | `SizeRecorded` | two writers on one inode, the smaller size is stored last (`vn_file.cpp:301`) |
| `fileio` with `CommitFails = TRUE` | `SizeRecorded` | `vn_fsync` clears `dirty`, its commit fails, and nothing remembers that the size is not recorded (`vn_file.cpp:676`) |
| `fileio` with `Copy = {c1, c2}`, without symmetry | `TruncateErases` | an inode looked up when the file was empty, a write through another open, then `vn_open_file_by_inode` with `O_TRUNC` on the first: it counts the extents by its own `i_size`, 0, and deletes none, although no two calls overlap (`vn_file.cpp:185`) |
| `fileio` with `LockTimeouts = TRUE` | `WriteAllOrNothing` | a segment whose lock timed out is left out and `len` is returned (`vn_file.cpp:292`) |
| `fileio` with `SharedHandles = TRUE` | `FsyncDurable` | `dirty` is cleared before the commit, another thread's fsync skips the inode (`vn_file.cpp:308`) |
| `fileio`, without symmetry | `FsyncSucceeds` | a successful `vn_fsync` returns `-EIO` (`vn_file.cpp:687`) |
| `extent` | `MergeAssertion` | a segment at the last offset of an extent fails the assertion in `_merge` (`vn_data_merge.cpp:102`) |
| `segments` with `Odd = {"past_end"}` | `ImplementsPosixFile` | a read behind the end gets a length that has wrapped around (`vn_file.cpp:417`) |
| `segments` with `Odd = {"empty"}` | `ImplementsPosixFile` | a write of no bytes extends the file (`vn_file.cpp:301`) |
| `segments` with `Odd = {"empty"}` | `SegmentAssertion` | a `vn_writev` of no bytes fails its assertion (`vn_file.cpp:357`) |
| `lifecycle` with `SilentFails = TRUE` | `FormatDurable`, `AckedSurvive` | the `Flush` of `mkfs.vn` and the `FlushWAL` of the destructor fail and success is reported (`vn_mkfs.cpp:99`, `vn_main.cpp:210`) |
| `lifecycle` with `Exclusive = FALSE` | `OneOpener` | two processes open one volume: `LockFile` always succeeds (`vn_pfaof.cpp:545`), "Used to prevent concurrent access to the same db by multiple processes" (`:526`) |
| `pfaof` | `SyncedSurvives` | `Sync` and `Flush` drop the result of `PfAof::sync` and return OK (`vn_pfaof.cpp:284`) |
| `pfaof` | `FreshWritable` | `NewWritableFile` continues an existing file (`vn_pfaof.cpp:372`), "Deletes any existing file with the same name" (`:359`) |
| `pfaof` | `ReadersNeedFiles` | opening for reading creates the file (`vn_pfaof.cpp:326`), "If the file does not exist, returns a non-OK status" (`:316`) |
| `pfaof` | `SkipStopsAtEnd` | `Skip` goes past the end (`vn_pfaof.cpp:143`), "skipping will stop at the end of the file" (`:138`) |
| `keys` with `Ino = {23, 24370}` | `ListingExact` | the inode key of 24370 is `2_` and six NULs, and the root directory lists it (`vn_file.cpp:81`); "prefix search '102_'" (`docs/key-problem.md:99`) |

Why the bounds are enough to be interesting: two threads suffice for each race
in the code, which are all between two calls; two directories, one of them
created in the run, let a create and an unlink meet on one key and on two; three
deltas give a compaction a neighbour on each side to disagree with, and three
bytes are the fewest with a gap; two extents let a write be torn and locks be
taken in two orders; files of five bytes over two-byte extents have a partial
last extent and writes over three.  (`fileio` with three extents passes as well,
2.1 million states.)  `Word` only has to be larger than any sum of
valid offsets; a wrapped value is then recognisable.  `termination` uses one
extent and one write because what it asks is about locks, references and
returns.  In `lifecycle` the second process meets what any
first one has left, at whatever step it died, and three commits are enough for a
synced one between two that are not.  In `pfaof` two handles are a reader and a
writer of one file, or two that share an object; two names are a rename.  In
`keys` the directories 2 and 23 with the names chosen give keys that differ in
the place of `_` only, and 50 and 51 have inode keys that begin with the digits
`2` and `3`.  `MaxVer`, `MaxIno`, `MaxLinks`, `MaxDeltas`, `MaxSize`, `MaxLen`,
`MaxIov`, `MaxCommit`, `MaxGen`, `MaxBack` and `MaxLost` are bounds in guards, named as such
where they are declared.

Symmetry is used over threads, names, handles and inode copies only in runs
whose properties are invariants or box-actions, never with liveness.

Deadlock is checked in every run.

### Fairness

Only `termination` assumes any: weak fairness of `Step(t)`, the next step of the
call that thread `t` is in.  The operating system schedules threads, and a wait
for a key lock ends with the lock or with RocksDB's timeout.  Starting calls,
crashes and the choice of the outcome are not fair.  The property needs
`LockTimeouts`: `O_TRUNC` locks the inode and then extents, `vn_write` extents
and then the inode, so without the timeout two threads may wait for ever (the
mutant `TimesOut_Never` shows it).

## 4. What is proved

`VnNamespaceProofs` (for any threads, names, directories and bounds):

* `TypeCorrect`: `TypeOK` with `RegOK` (local variables are set where they are
  read) is inductive.
* `EntriesHaveInodes`, `NamespaceSurvivesCrash`, `LookupsFindInodes` from the
  inductive `Kept`: the invariants over `recoverable` and `RecordsKept`, that the
  states a crash can leave have the same inode records, and that an inode number
  an unlink or an iterator remembers has one.  `InodeNeverLost` alone says nothing
  about unsynced states.
* `NoCircularWait` from `LocksOK`: which locks a thread can hold at each step,
  that is, that keys are locked in the order name, inode, seed.
* `InodesUnique`, `SeedNeverReused`, assuming `~SeedRace`, from `SeedOK`: the
  numbers calls have drawn differ from each other and from those stored, and all
  are below the seed in memory.  The stored seed alone is not inductive, since
  commits may happen in another order than the draws.
* `EntriesNeverReplaced`, assuming `~LockTimeouts`, from `NamesOK`: between
  `GetForUpdate` and the commit the call holds the lock and the name is free.
* `NamespaceIsDirectory`, assuming both: each step maps to a step of
  `VnDirectory` or to a stutter (lemma `VisibleStep`).

`VnExtentMergeProofs` (for any extent size, bytes and number of deltas):

* `TypeCorrect`; `NoGaps`, assuming `~GapWrites`, from `Contiguous`: deltas
  touch their neighbours and the newest delta, if there is one, spans the last
  segment written, which is what relates the next write to the newest delta.
* `ExtentIsByteArray`, assuming `~GapWrites`: compactions leave `Get` unchanged
  (`CompactDeltasKeeps`, `CompactBaseKeeps`) and a write changes its bytes and
  no other (`WriteVisible`).
* `LastWriteReadsBack`, with no assumption: from `LastStored`, that the newest
  delta, or the base if there is none, holds the last write in its place.  Gaps
  do not matter here since the newest operand prevails in every merge.

`VnFileIO` has three proof modules, each for any threads, files, inodes, extents
and numbers of writes:

* `VnFileIORefsProofs`: `TypeCorrect` and `ReferencesCounted`, with no assumption,
  from the inductive `Inv`.  Its parts are `Typed`, the domains of the variables
  with `LocalsOK` (which locals a call has at which step); `Room`, that each write
  in progress has a number left below `MaxVer`; the counts themselves; and `Uses`,
  that nobody else uses the file a truncating open is for, or closes the file
  being closed.  Without `Uses` two calls could release one reference.  That
  `ref_cnt` is a natural number, the part of `TypeOK` that is not in `Typed`,
  only follows from the counts.
* `VnFileIOWriteProofs`: `NoDeadlock`, assuming `~Truncates \/ ~TruncRace`, from
  `LocksOrdered`: a write holds locks of extents below the next one it takes, and
  who holds the inode's lock has only the commit left.  A set of waiting threads
  then has one that waits for none of them: the one that is to commit, or else the
  one whose next extent is the highest.  `WritesAtomic`, assuming
  `~LockTimeouts`, from `Batches` (a transaction has every extent of the range so
  far) and `Versions` (no stored number is above `ver`, so the next commit's
  number is new in every state a crash can leave).  `ErasedDataStayGone`, with no
  assumption, from `Inside` (a transaction has only extents of its write's range,
  also when some were left out) and `Versions`; that the truncation's commit is
  synced is what makes older states unrecoverable.
* `VnFileIODurableProofs`: `SyncsDurable`, assuming `Sound`: one inode in memory for the file, no
  overlapping calls on one `ViveFile`, with a truncation, or in the update of
  `i_size`, and no failing lock wait, commit or flush.  Recovered states are
  related to files in several steps, and `Durable` has one part for each: the
  size in memory is at least the recorded one and all that was written through
  any file (`Loaded`); who is about to record a size holds the inode's lock, and
  the size is between the recorded one and the one in memory (`Sized`); what was
  written through a file is stored, and inside the recorded size unless the file
  is dirty or a call on it is about to record (`Kept`); what a sync has to make
  durable was written through its file, and is inside the size by the time it
  flushes (`Covered`).

`VnLifecycleProofs` (for any processes and number of commits):

* `TypeCorrect`, with no assumption.

The others assume `Exclusive`:

* `ServersOnlyOnFormats` and `HalfFormatsStay` from `LifecycleInvariant`, the
  inductive `Sound`: at most one process is not down (`Lone`), an unused volume
  has one recoverable state, a volume without families has promised nothing, and
  what each phase of `mkfs.vn` has done so far (`Making`).  `MountOnlyFormatted`
  alone says nothing of the volume that a mount will find.
* `FormatSurvives` and `PromisesAreKept`, assuming `~SilentFails` too, from
  `Durable`, inductive relative to `Sound`.

`VnPfAofProofs` (for any files, handles and bounds):

* `TypeCorrect`, `ReferencesCounted`, `ReadsStayTrue` from `Invariant`: `Handles`
  (counters are the numbers of handles and of throws) and `Stored`.  The counts
  need finite sets of handles: opening adds one member to `Readers` or `Writers`,
  releasing removes one.  They are also what keeps `ReadsStable`: a file that a
  reader has open has a reference, so that it is neither deleted nor renamed, and
  all that remains are appends.

`VnKeysProofs` (for any names without NUL and inode numbers below 2^56):

* `RecordsSeparate` from the inductive `Records`: which keys there are, and what
  is under those of the entries and of their inodes.  The step is about bytes:
  the text of a number has only digits and determines the number, so the first
  `_` ends it and an entry's key determines directory and name
  (`EntryKeyInjective`); the eight bytes determine the inode number
  (`InodeKeyInjective`); the eighth is 0 and entries have no NUL, entries begin
  with a digit and the two other keys do not (`KeysDiffer`).
* `ListingsExact`, assuming `Plain`: no inode number's bytes begin with a
  directory's number and `_`.  From `Scan`, that an iterator has returned what it
  looks for up to its place.  RocksDB's order is total and a finite set of keys
  has a first one (`BeforeTotal`, `FirstExists`); keys between a prefix and a key
  that has it have it too (`BeforeConvex`), so a scan that meets another key has
  passed them all.

`Decimal` and `Shifted` are recursive functions, and that their equations have a
solution has to be proved.  For `Shifted` it is written down (`ShiftedUnfolds`); for
`Decimal` it is put together from solutions on `0 .. m`, which are extended number
by number and agree with each other (`DecimalUnfolds`).
Inductions are proofs that there is no least counterexample (`LeastNatural`).

The assumptions on constants are `ConstantsAssumption` of each module; they only
say that the constants have their types and that markers such as `NoThread` are
not members, that `Thread` and `Handle` of `VnFileIO` are finite, which
counting needs, and what is said of names and numbers for `VnKeys`.  The
assumptions `~SeedRace`, `~LockTimeouts`, `~GapWrites`, `Sound` and `Plain` are
not true of the code, and nothing in it ensures `Exclusive`,
`~SilentFails` and that a truncation is alone (section 3 shows what
happens without them): these theorems say that nothing else stands in the way of
the property.

Only model-checked: `CallsTerminate`, which is liveness; `SizeRecorded`; `TypeOK` and
`ImplementsPosixFile` of `VnSegments`, whose loops are recursive operators, so that
what they compute would need induction over the range of a call.

## 5. Not modelled, and why

* `vn_open_file` with `O_CREAT` racing a create of the same name
  (`vn_file.cpp:229`), and unlinking open files: they need the name space and
  the open files in one module, whose instances are too large with one step for
  each database call.  The create's part is in `VnNamespace`.
* `ref_cnt` as a non-atomic `int`: whether calls on one inode are serialised is
  decided in nfs-ganesha, outside this repository.
* The `Delete`s of `vn_unlink` on extent keys in `default_cf` (`vn_file.cpp:544`)
  and their locks: extents are in `data_cf`, nothing else uses those keys in
  `default_cf`.  Only unlinks take these locks, before any other and in ascending
  order, so that they add no circular wait, and their statuses are ignored.
* The assertion in `_merge` (`vn_data_merge.cpp:102`) does not stop the model; it
  is stated as `MergeAssertion`.
* What follows a constructor's throw: nothing in this repository catches it.  If
  the process dies of it, that is the step followed by `Crash`; if RocksDB goes on,
  the file keeps a reference, and `VnPfAof` does not let RocksDB delete or rename a
  file with one.
* Two RocksDB instances on one volume after `LockFile` let both in: what they do
  to each other's files is RocksDB's affair; `OneOpener` only says that it can
  happen.
* In the plugin: directories (tenants of PureFlash), the read cache, path
  strings in `GetChildren`, the logger, and calls that return `NotSupported`.
* The prefix extractor and the other options: their effect is inside RocksDB.
* Times, modes and owners; log texts; allocation failures; the superblock's JSON
  text; `vn_test_helper`; `vn_rename_file`, a stub.
* `vn_readv` behind the end of a file: it would leave the caller's buffers.

## 6. Plan

1. `VnOpen`: `vn_open_file` with `O_CREAT` over a coarser name space, and unlink
   of open files.
2. `VnSegments` with its loops as recursive functions, as in `VnKeys`, so that
   `ImplementsPosixFile` can be proved.
