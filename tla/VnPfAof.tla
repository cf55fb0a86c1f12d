------------------------------ MODULE VnPfAof ------------------------------
(***************************************************************************)
(* The file-system plugin under RocksDB (vn_pfaof.cpp): append-only files  *)
(* of PureFlash behind handles for sequential reads, random reads and      *)
(* writes.  All handles on a file share one PfAof object of PureFlash's    *)
(* client, which counts its references, readers and writers and is freed   *)
(* with the last reference.                                                *)
(*                                                                         *)
(* A byte is represented by the generation of the writable file that       *)
(* appended it.  FileExists, GetFileSize and GetChildren change nothing    *)
(* and calls that return NotSupported do nothing; they have no action.     *)
(***************************************************************************)
EXTENDS Integers, Sequences, FiniteSets

CONSTANTS
    Name,       \* file names
    Handle,     \* slots for handles that RocksDB holds
    MaxLen,     \* bound: bytes in a file
    MaxGen,     \* bound: calls of NewWritableFile
    MaxBack,    \* bound: how far failing reads move a position back
    MaxLost,    \* bound: throwing constructors per file and process
    Errno,      \* the error number that a failing read returns, negated
    ReadFails,  \* reads may fail
    Reuses      \* RocksDB may create a writable file under a used name

ASSUME ConstantsAssumption ==
    /\ IsFiniteSet(Handle)
    /\ MaxLen \in Nat /\ MaxGen \in Nat
    /\ MaxBack \in Nat /\ MaxLost \in Nat
    /\ Errno \in Nat \ {0}
    /\ {ReadFails, Reuses} \subseteq BOOLEAN

VARIABLES
    data,     \* bytes of each file; a file that was never opened is empty
    exists,   \* names that PureFlash has a volume for
    synced,   \* how many bytes of it are on PureFlash's servers
    aof,      \* the shared object: ref, reader_cnt, writer_cnt
    handle,   \* RocksDB's handles
    lost,     \* history: constructors of readers that threw, per file
    gen,      \* generations of writable files so far
    promised  \* history: bytes for which Sync or Flush returned OK

vars == <<data, exists, synced, aof, handle, lost, gen, promised>>

storage == <<data, exists, synced, gen, promised>>

Kind == {"seq", "random", "writable", "closed"}

\* offset: the handle's position; given: history, the positions its reads have
\* delivered, each with its byte; gen: a writable file's generation.
HandleRecord ==
    [kind : Kind, name : Name, offset : Int,
     given : SUBSET (Nat \X (1..MaxGen)), gen : 0..MaxGen]

NoHandle == [kind |-> "none"]

IsReader(h) == handle[h].kind \in {"seq", "random"}

IsWriter(h) == handle[h].kind = "writable"

File(h) == handle[h].name

Free == [ref |-> 0, reader_cnt |-> 0, writer_cnt |-> 0]

----------------------------------------------------------------------------
(* PureFlash *)

\* pf_open_aof with O_CREAT: a new reference to the file's object.
OpenAof(n, readers, writers) ==
    /\ exists' = exists \cup {n}
    /\ aof' = [aof EXCEPT ![n] = [ref |-> @.ref + 1,
                                  reader_cnt |-> @.reader_cnt + readers,
                                  writer_cnt |-> @.writer_cnt + writers]]

\* reader_cnt-- or writer_cnt--, then dec_ref.
ReleaseAof(n, readers, writers) ==
    aof' = [aof EXCEPT ![n] = [ref |-> @.ref - 1,
                               reader_cnt |-> @.reader_cnt - readers,
                               writer_cnt |-> @.writer_cnt - writers]]

\* What PfAof::read returns: a count, or a negated error number.
ReadResults(n, offset, len) ==
    (IF offset < 0 THEN {}
     ELSE {IF offset >= Len(data[n]) THEN 0
           ELSE IF offset + len > Len(data[n]) THEN Len(data[n]) - offset
           ELSE len})
    \cup (IF ReadFails \/ offset < 0 THEN {-Errno} ELSE {})

----------------------------------------------------------------------------
(* Handles *)

NewHandle(h, k, n, g) ==
    /\ handle[h] = NoHandle
    /\ handle' = [handle EXCEPT ![h] =
                    [kind |-> k, name |-> n, offset |-> 0, given |-> {}, gen |-> g]]

\* The handle is made, or read_cache.init fails and the constructor throws:
\* pf_open_aof and reader_cnt++ have been done and no destructor will run.
NewReader(h, k, n, readers) ==
    /\ OpenAof(n, readers, 0)
    /\ \/ NewHandle(h, k, n, 0) /\ UNCHANGED lost
       \/ /\ lost[n] < MaxLost
          /\ lost' = [lost EXCEPT ![n] = @ + 1]
          /\ UNCHANGED handle
    /\ UNCHANGED <<data, synced, gen, promised>>

NewSequentialFile(h, n) == NewReader(h, "seq", n, 1)

\* Mutant: the reader is not counted.
NewRandomAccessFile_Uncounted(h, n) == NewReader(h, "random", n, 0)

NewRandomAccessFile(h, n) == NewReader(h, "random", n, 1)

Creates(h, n) ==
    /\ gen < MaxGen
    /\ aof[n].writer_cnt = 0
    /\ Reuses \/ n \notin exists
    /\ NewHandle(h, "writable", n, gen + 1)
    /\ OpenAof(n, 0, 1)
    /\ gen' = gen + 1
    /\ UNCHANGED lost

\* Mutant: an existing file is deleted, as the comment has it.
NewWritableFile_Deletes(h, n) ==
    /\ Creates(h, n)
    /\ data' = [data EXCEPT ![n] = <<>>]
    /\ synced' = [synced EXCEPT ![n] = 0]
    /\ promised' = [promised EXCEPT ![n] = 0]

\* An existing file is opened as it is and will be continued.  RocksDB never
\* has two writable files of one name.
NewWritableFile(h, n) ==
    /\ Creates(h, n)
    /\ UNCHANGED <<data, synced, promised>>

\* r bytes at position at are delivered and the handle's position moves.
Delivers(h, at, r, by) ==
    /\ handle' = [handle EXCEPT ![h] =
         [handle[h] EXCEPT
            !.offset = handle[h].offset + by,
            !.given = handle[h].given
                        \cup {<<i, data[File(h)][i + 1]>> : i \in at .. at + r - 1}]]
    /\ UNCHANGED <<storage, aof, lost>>

\* PfAofSeqFile::Read: the offset moves by the result, also by that of a
\* failing read.
Read(h, len) ==
    /\ handle[h].kind = "seq"
    /\ handle[h].offset > -MaxBack
    /\ \E r \in ReadResults(File(h), handle[h].offset, len) :
         Delivers(h, handle[h].offset, r, r)

\* PfAofSeqFile::PositionedRead and PfAofRandomFile::Read.
PositionedRead(h, at, len) ==
    /\ IsReader(h)
    /\ \E r \in ReadResults(File(h), at, len) : Delivers(h, at, r, 0)

Skip(h, len) ==
    /\ handle[h].kind = "seq"
    /\ handle[h].offset + len <= MaxLen
    /\ Delivers(h, handle[h].offset, 0, len)

\* Returns an error after a short append; its bytes stay in the file.
AppendData(h, len) ==
    /\ IsWriter(h)
    /\ Len(data[File(h)]) + len <= MaxLen
    /\ data' = [data EXCEPT ![File(h)] =
                  @ \o [i \in 1..len |-> handle[h].gen]]
    /\ UNCHANGED <<exists, synced, aof, handle, lost, gen, promised>>

\* Flush and Sync: PfAof::sync may fail and its result is dropped.
Sync(h) ==
    /\ IsWriter(h)
    /\ \/ synced' = [synced EXCEPT ![File(h)] = Len(data[File(h)])]
       \/ UNCHANGED synced
    /\ promised' = [promised EXCEPT ![File(h)] = Len(data[File(h)])]
    /\ UNCHANGED <<data, exists, aof, handle, lost, gen>>

Close(h) ==
    /\ IsWriter(h)
    /\ ReleaseAof(File(h), 0, 1)
    /\ handle' = [handle EXCEPT ![h] = [@ EXCEPT !.kind = "closed"]]
    /\ UNCHANGED <<storage, lost>>

\* Mutant: the destructor does not test for a closed file.
Destroy_NoNullTest(h) ==
    /\ \/ IsReader(h) /\ ReleaseAof(File(h), 1, 0)
       \/ handle[h].kind \in {"writable", "closed"} /\ ReleaseAof(File(h), 0, 1)
    /\ handle' = [handle EXCEPT ![h] = NoHandle]
    /\ UNCHANGED <<storage, lost>>

\* The destructors; a writable file that was closed has no object any more.
Destroy(h) ==
    /\ \/ IsReader(h) /\ ReleaseAof(File(h), 1, 0)
       \/ IsWriter(h) /\ ReleaseAof(File(h), 0, 1)
       \/ handle[h].kind = "closed" /\ UNCHANGED aof
    /\ handle' = [handle EXCEPT ![h] = NoHandle]
    /\ UNCHANGED <<storage, lost>>

----------------------------------------------------------------------------
(* Names; RocksDB deletes and renames files that it has closed *)

Unused(n) == n \in exists /\ aof[n].ref = 0

DeleteFile(n) ==
    /\ Unused(n)
    /\ exists' = exists \ {n}
    /\ data' = [data EXCEPT ![n] = <<>>]
    /\ synced' = [synced EXCEPT ![n] = 0]
    /\ promised' = [promised EXCEPT ![n] = 0]
    /\ UNCHANGED <<aof, handle, lost, gen>>

RenameFile(src, target) ==
    /\ src # target
    /\ Unused(src) /\ aof[target].ref = 0
    /\ exists' = (exists \ {src}) \cup {target}
    /\ data' = [data EXCEPT ![src] = <<>>, ![target] = data[src]]
    /\ synced' = [synced EXCEPT ![src] = 0, ![target] = synced[src]]
    /\ promised' = [promised EXCEPT ![src] = 0, ![target] = promised[src]]
    /\ UNCHANGED <<aof, handle, lost, gen>>

\* The process dies: its objects are gone and a file keeps any part that
\* contains what is on the servers.
Crash ==
    /\ \E keep \in [Name -> 0..MaxLen] :
         /\ \A n \in Name : keep[n] \in synced[n]..Len(data[n])
         /\ data' = [n \in Name |-> SubSeq(data[n], 1, keep[n])]
         /\ synced' = keep
    /\ aof' = [n \in Name |-> Free]
    /\ handle' = [h \in Handle |-> NoHandle]
    /\ lost' = [n \in Name |-> 0]
    /\ UNCHANGED <<exists, gen, promised>>

----------------------------------------------------------------------------
Init ==
    /\ data = [n \in Name |-> <<>>]
    /\ exists = {}
    /\ synced = [n \in Name |-> 0]
    /\ aof = [n \in Name |-> Free]
    /\ handle = [h \in Handle |-> NoHandle]
    /\ lost = [n \in Name |-> 0]
    /\ gen = 0
    /\ promised = [n \in Name |-> 0]

Next ==
    \/ \E h \in Handle, n \in Name :
         \/ NewSequentialFile(h, n)
         \/ NewRandomAccessFile(h, n)
         \/ NewWritableFile(h, n)
    \/ \E h \in Handle, len \in 1..MaxLen :
         \/ Read(h, len) \/ Skip(h, len) \/ AppendData(h, len)
         \/ \E at \in 0..MaxLen : PositionedRead(h, at, len)
    \/ \E h \in Handle : Sync(h) \/ Close(h) \/ Destroy(h)
    \/ \E n \in Name : DeleteFile(n)
    \/ \E src, target \in Name : RenameFile(src, target)
    \/ Crash

Spec == Init /\ [][Next]_vars

----------------------------------------------------------------------------
(* Properties *)

\* Every variable has its type; no counter of a PfAof object falls below 0.
TypeOK ==
    /\ data \in [Name -> Seq(1..MaxGen)]
    /\ exists \subseteq Name
    /\ synced \in [Name -> Nat]
    /\ aof \in [Name -> [ref : Nat, reader_cnt : Nat, writer_cnt : Nat]]
    /\ handle \in [Handle -> HandleRecord \cup {NoHandle}]
    /\ lost \in [Name -> Nat]
    /\ gen \in 0..MaxGen
    /\ promised \in [Name -> Nat]

Readers(n) == {h \in Handle : IsReader(h) /\ File(h) = n}

Writers(n) == {h \in Handle : IsWriter(h) /\ File(h) = n}

\* A PfAof object has one reference for each handle that can still use it, so
\* it is not freed before the last of them; the logged numbers of readers and
\* writers are those of the handles.  Close and the destructors together
\* release each handle once, and nothing but a constructor that throws leaves
\* a reference behind.
CountsMatch ==
    \A n \in Name :
        /\ aof[n].reader_cnt = Cardinality(Readers(n)) + lost[n]
        /\ aof[n].writer_cnt = Cardinality(Writers(n))
        /\ aof[n].ref = aof[n].reader_cnt + aof[n].writer_cnt

\* The bytes that a sequential or random-access file has delivered stay where
\* it found them for as long as it is open, whatever is opened, appended,
\* synced, closed, deleted and renamed meanwhile: NewWritableFile on a name
\* that a reader has open continues the file, and Append takes its place from
\* the file and not from the handle, whose offset starts at 0 again.
ReadsStable ==
    \A h \in Handle : IsReader(h) =>
        \A g \in handle[h].given :
            g[1] < Len(data[File(h)]) /\ data[File(h)][g[1] + 1] = g[2]

----------------------------------------------------------------------------
(* What the repository says and the code does not keep *)

\* Sync: "sync data".  Bytes for which Flush or Sync has returned OK are on the
\* servers, so that no crash takes them away.
SyncedSurvives == \A n \in Name : promised[n] <= synced[n]

\* NewWritableFile: "Deletes any existing file with the same name and creates
\* a new file."
FreshWritable ==
    \A h \in Handle :
        IsWriter(h) => \A i \in 1..Len(data[File(h)]) : data[File(h)][i] = handle[h].gen

\* NewSequentialFile and NewRandomAccessFile: "If the file does not exist,
\* returns a non-OK status."
ReadersNeedFiles ==
    [][\A h \in Handle : handle[h] = NoHandle /\ IsReader(h)'
                            => handle'[h].name \in exists]_vars

\* Skip: "If end of file is reached, skipping will stop at the end of the
\* file".
SkipStopsAtEnd ==
    \A h \in Handle :
        handle[h].kind = "seq" => handle[h].offset <= Len(data[File(h)])
=============================================================================
