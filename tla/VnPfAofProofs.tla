--------------------------- MODULE VnPfAofProofs ---------------------------
(***************************************************************************)
(* Proofs about the file-system plugin, for any names, handles and bounds. *)
(***************************************************************************)
EXTENDS VnPfAof, FiniteSetTheorems, TLAPS

Aof == [ref : Nat, reader_cnt : Nat, writer_cnt : Nat]

\* Writable files have a generation.
GenOK == \A h \in Handle : IsWriter(h) => handle[h].gen \in 1..MaxGen

HandlesTyped == handle \in [Handle -> HandleRecord \cup {NoHandle}]

\* The invariant that is inductive for the counters.
Counted == HandlesTyped /\ lost \in [Name -> Nat] /\ CountsMatch

----------------------------------------------------------------------------
\* The handles on a file can be counted.
LEMMA UsersFinite ==
    ASSUME NEW n
    PROVE  /\ IsFiniteSet(Readers(n)) /\ Cardinality(Readers(n)) \in Nat
           /\ IsFiniteSet(Writers(n)) /\ Cardinality(Writers(n)) \in Nat
<1>1. Readers(n) \in SUBSET Handle /\ Writers(n) \in SUBSET Handle
  BY DEF Readers, Writers
<1> QED  BY <1>1, FS_Subset, FS_CardinalityType, ConstantsAssumption

\* The counters of the shared objects are natural numbers.
LEMMA CountsAreNat ==
    ASSUME Counted, NEW n \in Name
    PROVE  aof[n].ref \in Nat /\ aof[n].reader_cnt \in Nat /\ aof[n].writer_cnt \in Nat
BY UsersFinite DEF Counted, CountsMatch

\* Calls that change neither the kind nor the file of a handle.
LEMMA SameUsers ==
    ASSUME CountsMatch, UNCHANGED <<aof, lost>>,
           \A h \in Handle : /\ IsReader(h)' <=> IsReader(h)
                             /\ IsWriter(h)' <=> IsWriter(h)
                             /\ IsReader(h) \/ IsWriter(h) => File(h)' = File(h)
    PROVE  CountsMatch'
<1>1. \A n \in Name : Readers(n)' = Readers(n) /\ Writers(n)' = Writers(n)
  BY DEF Readers, Writers
<1> QED  BY <1>1 DEF CountsMatch

\* A new handle is one more user of its file.
LEMMA OpenCounts ==
    ASSUME Counted, aof \in [Name -> Aof],
           NEW h \in Handle, NEW k, NEW n \in Name, NEW g \in 0..MaxGen,
           NEW r \in {0, 1}, NEW w \in {0, 1},
           \/ k \in {"seq", "random"} /\ r = 1 /\ w = 0
           \/ k = "writable" /\ r = 0 /\ w = 1,
           NewHandle(h, k, n, g), OpenAof(n, r, w), UNCHANGED lost
    PROVE  Counted' /\ aof' \in [Name -> Aof]
<1> DEFINE new == [kind |-> k, name |-> n, offset |-> 0, given |-> {}, gen |-> g]
<1>1. new \in HandleRecord  BY DEF HandleRecord, Kind
<1>2. handle' = [handle EXCEPT ![h] = new] /\ handle[h] = NoHandle
  BY DEF NewHandle
<1>3. HandlesTyped'  BY <1>1, <1>2 DEF Counted, HandlesTyped
<1>4. \A q \in Handle : handle'[q] = IF q = h THEN new ELSE handle[q]
  BY <1>2 DEF Counted, HandlesTyped
<1>5. ~IsReader(h) /\ ~IsWriter(h)  BY <1>2 DEF NoHandle, IsReader, IsWriter
<1>6. ASSUME NEW m \in Name
      PROVE  /\ aof'[m] = IF m = n THEN [ref |-> aof[n].ref + 1,
                                         reader_cnt |-> aof[n].reader_cnt + r,
                                         writer_cnt |-> aof[n].writer_cnt + w]
                          ELSE aof[m]
             /\ aof'[m] \in Aof
  BY DEF OpenAof, Aof
<1>7. ASSUME NEW m \in Name
      PROVE  /\ aof'[m].reader_cnt = Cardinality(Readers(m)') + lost'[m]
             /\ aof'[m].writer_cnt = Cardinality(Writers(m)')
             /\ aof'[m].ref = aof'[m].reader_cnt + aof'[m].writer_cnt
  <2>1. /\ aof[m].reader_cnt = Cardinality(Readers(m)) + lost[m]
        /\ aof[m].writer_cnt = Cardinality(Writers(m))
        /\ aof[m].ref = aof[m].reader_cnt + aof[m].writer_cnt
        /\ aof[m].ref \in Nat /\ aof[m].reader_cnt \in Nat /\ aof[m].writer_cnt \in Nat
        /\ Cardinality(Readers(m)) \in Nat /\ lost[m] \in Nat
    BY CountsAreNat, UsersFinite DEF Counted, CountsMatch
  <2>2. h \notin Readers(m) /\ h \notin Writers(m)  BY <1>5 DEF Readers, Writers
  <2>3. /\ Cardinality(Readers(m) \cup {h}) = Cardinality(Readers(m)) + 1
        /\ Cardinality(Writers(m) \cup {h}) = Cardinality(Writers(m)) + 1
    BY <2>2, UsersFinite, FS_AddElement
  <2>4. CASE k \in {"seq", "random"} /\ r = 1 /\ w = 0
    <3>1. /\ Readers(m)' = IF m = n THEN Readers(m) \cup {h} ELSE Readers(m)
          /\ Writers(m)' = Writers(m)
      BY <1>4, <1>5, <2>4 DEF Readers, Writers, IsReader, IsWriter, File
    <3> QED  BY <1>6, <2>1, <2>3, <2>4, <3>1
  <2>5. CASE k = "writable" /\ r = 0 /\ w = 1
    <3>1. /\ Writers(m)' = IF m = n THEN Writers(m) \cup {h} ELSE Writers(m)
          /\ Readers(m)' = Readers(m)
      BY <1>4, <1>5, <2>5 DEF Readers, Writers, IsReader, IsWriter, File
    <3> QED  BY <1>6, <2>1, <2>3, <2>5, <3>1
  <2> QED  BY <2>4, <2>5
<1>8. aof' \in [Name -> Aof]  BY <1>6 DEF OpenAof
<1> QED  BY <1>3, <1>7, <1>8 DEF Counted, CountsMatch

\* A reader whose constructor throws is counted and has no handle.
LEMMA ThrowCounts ==
    ASSUME Counted, aof \in [Name -> Aof], NEW n \in Name,
           OpenAof(n, 1, 0), lost' = [lost EXCEPT ![n] = @ + 1], UNCHANGED handle
    PROVE  Counted' /\ aof' \in [Name -> Aof]
<1>1. ASSUME NEW m \in Name
      PROVE  /\ aof'[m] = IF m = n THEN [ref |-> aof[n].ref + 1,
                                         reader_cnt |-> aof[n].reader_cnt + 1,
                                         writer_cnt |-> aof[n].writer_cnt + 0]
                          ELSE aof[m]
             /\ aof'[m] \in Aof
             /\ lost'[m] = IF m = n THEN lost[m] + 1 ELSE lost[m]
             /\ lost'[m] \in Nat
  BY DEF OpenAof, Aof, Counted
<1>2. \A m \in Name : Readers(m)' = Readers(m) /\ Writers(m)' = Writers(m)
  BY DEF Readers, Writers, IsReader, IsWriter, File
<1>3. ASSUME NEW m \in Name
      PROVE  /\ aof'[m].reader_cnt = Cardinality(Readers(m)') + lost'[m]
             /\ aof'[m].writer_cnt = Cardinality(Writers(m)')
             /\ aof'[m].ref = aof'[m].reader_cnt + aof'[m].writer_cnt
  <2>1. /\ aof[m].reader_cnt = Cardinality(Readers(m)) + lost[m]
        /\ aof[m].writer_cnt = Cardinality(Writers(m))
        /\ aof[m].ref = aof[m].reader_cnt + aof[m].writer_cnt
        /\ aof[m].ref \in Nat /\ aof[m].reader_cnt \in Nat /\ aof[m].writer_cnt \in Nat
        /\ Cardinality(Readers(m)) \in Nat /\ lost[m] \in Nat
    BY CountsAreNat, UsersFinite DEF Counted, CountsMatch
  <2> QED  BY <1>1, <1>2, <2>1
<1>4. aof' \in [Name -> Aof]  BY <1>1 DEF OpenAof
<1>5. lost' \in [Name -> Nat]  BY <1>1 DEF Counted
<1> QED  BY <1>3, <1>4, <1>5 DEF Counted, CountsMatch, HandlesTyped

\* A handle that is closed or destroyed is one user less.
LEMMA ReleaseCounts ==
    ASSUME Counted, aof \in [Name -> Aof],
           NEW h \in Handle, NEW gone \in HandleRecord \cup {NoHandle},
           gone.kind \in {"none", "closed"},
           handle' = [handle EXCEPT ![h] = gone], UNCHANGED lost,
           \/ IsReader(h) /\ ReleaseAof(File(h), 1, 0)
           \/ IsWriter(h) /\ ReleaseAof(File(h), 0, 1)
    PROVE  Counted' /\ aof' \in [Name -> Aof]
<1>1. PICK n \in Name : n = File(h)
  BY DEF Counted, HandlesTyped, HandleRecord, NoHandle, IsReader, IsWriter, File
<1>2. PICK r \in {0, 1}, w \in {0, 1} :
        /\ ReleaseAof(n, r, w)
        /\ \/ IsReader(h) /\ ~IsWriter(h) /\ r = 1 /\ w = 0
           \/ IsWriter(h) /\ ~IsReader(h) /\ r = 0 /\ w = 1
  BY <1>1 DEF IsReader, IsWriter
<1>3. HandlesTyped'  BY DEF Counted, HandlesTyped
<1>4. \A q \in Handle : handle'[q] = IF q = h THEN gone ELSE handle[q]
  BY DEF Counted, HandlesTyped
<1>5. ASSUME NEW m \in Name
      PROVE  aof'[m] = IF m = n THEN [ref |-> aof[n].ref - 1,
                                      reader_cnt |-> aof[n].reader_cnt - r,
                                      writer_cnt |-> aof[n].writer_cnt - w]
                       ELSE aof[m]
  BY <1>2 DEF ReleaseAof
<1>6. ASSUME NEW m \in Name
      PROVE  /\ aof'[m].reader_cnt = Cardinality(Readers(m)') + lost'[m]
             /\ aof'[m].writer_cnt = Cardinality(Writers(m)')
             /\ aof'[m].ref = aof'[m].reader_cnt + aof'[m].writer_cnt
  <2>1. /\ aof[m].reader_cnt = Cardinality(Readers(m)) + lost[m]
        /\ aof[m].writer_cnt = Cardinality(Writers(m))
        /\ aof[m].ref = aof[m].reader_cnt + aof[m].writer_cnt
        /\ aof[m].ref \in Nat /\ aof[m].reader_cnt \in Nat /\ aof[m].writer_cnt \in Nat
        /\ Cardinality(Readers(m)) \in Nat /\ lost[m] \in Nat
    BY CountsAreNat, UsersFinite DEF Counted, CountsMatch
  <2>2. /\ h \in Readers(m) => Cardinality(Readers(m) \ {h}) = Cardinality(Readers(m)) - 1
        /\ h \in Writers(m) => Cardinality(Writers(m) \ {h}) = Cardinality(Writers(m)) - 1
    BY UsersFinite, FS_RemoveElement
  <2>3. CASE IsReader(h) /\ ~IsWriter(h) /\ r = 1 /\ w = 0
    <3>1. /\ m = n => h \in Readers(m)
          /\ Readers(m)' = IF m = n THEN Readers(m) \ {h} ELSE Readers(m)
          /\ Writers(m)' = Writers(m)
      BY <1>1, <1>4, <2>3 DEF Readers, Writers, IsReader, IsWriter, File
    <3>2. CASE m = n
      <4>1. Cardinality(Readers(m)') = Cardinality(Readers(m)) - 1
        BY <2>2, <3>1, <3>2
      <4> QED  BY <1>5, <2>1, <2>3, <3>1, <3>2, <4>1
    <3>3. CASE m # n
      BY <1>5, <2>1, <3>1, <3>3
    <3> QED  BY <3>2, <3>3
  <2>4. CASE IsWriter(h) /\ ~IsReader(h) /\ r = 0 /\ w = 1
    <3>1. /\ m = n => h \in Writers(m)
          /\ Writers(m)' = IF m = n THEN Writers(m) \ {h} ELSE Writers(m)
          /\ Readers(m)' = Readers(m)
      BY <1>1, <1>4, <2>4 DEF Readers, Writers, IsReader, IsWriter, File
    <3> QED  BY <1>5, <2>1, <2>2, <2>4, <3>1
  <2> QED  BY <1>2, <2>3, <2>4
<1>7. CountsMatch'  BY <1>6 DEF CountsMatch
<1>8. \A m \in Name :
        /\ Cardinality(Readers(m))' \in Nat /\ lost'[m] \in Nat
        /\ Cardinality(Writers(m))' \in Nat
  <2>1. \A m \in Name : Readers(m)' \in SUBSET Handle /\ Writers(m)' \in SUBSET Handle
    BY DEF Readers, Writers
  <2> QED  BY <2>1, FS_Subset, FS_CardinalityType, ConstantsAssumption DEF Counted
<1>9. \A m \in Name : aof'[m] \in Aof
  BY <1>5, <1>6, <1>8 DEF Aof
<1>10. aof' \in [Name -> Aof]  BY <1>2, <1>9 DEF ReleaseAof
<1> QED  BY <1>3, <1>7, <1>10 DEF Counted

----------------------------------------------------------------------------
\* The invariant for handles and objects ...
Handles ==
    /\ Counted
    /\ aof \in [Name -> Aof]
    /\ gen \in 0..MaxGen
    /\ GenOK

\* ... and for what is stored.
Stored ==
    /\ data \in [Name -> Seq(1..MaxGen)]
    /\ exists \subseteq Name
    /\ synced \in [Name -> Nat]
    /\ promised \in [Name -> Nat]

\* A handle that replaces another one keeps what is said of each handle.
LEMMA HandleReplaced ==
    ASSUME Handles, NEW h \in Handle, NEW new,
           handle' = [handle EXCEPT ![h] = new],
           new.kind = "writable" => new.gen \in 1..MaxGen
    PROVE  GenOK'
<1>1. \A q \in Handle : handle'[q] = IF q = h THEN new ELSE handle[q]
  BY DEF Handles, Counted, HandlesTyped
<1> QED  BY <1>1 DEF Handles, GenOK, IsWriter

\* The three calls that open a file count their handle.
LEMMA HandlesOpen ==
    ASSUME Handles, NEW h \in Handle, NEW k, NEW n \in Name, NEW g \in 0..MaxGen,
           NEW r \in {0, 1}, NEW w \in {0, 1},
           \/ k \in {"seq", "random"} /\ r = 1 /\ w = 0
           \/ k = "writable" /\ r = 0 /\ w = 1 /\ g \in 1..MaxGen,
           NewHandle(h, k, n, g), OpenAof(n, r, w), gen' \in 0..MaxGen,
           UNCHANGED lost
    PROVE  Handles'
<1> DEFINE new == [kind |-> k, name |-> n, offset |-> 0, given |-> {}, gen |-> g]
<1>1. Counted' /\ aof' \in [Name -> Aof]  BY OpenCounts DEF Handles
<1>2. handle' = [handle EXCEPT ![h] = new]  BY DEF NewHandle
<1>3. new.kind = "writable" => new.gen \in 1..MaxGen
  OBVIOUS
<1>4. GenOK'
  <2> HIDE DEF new
  <2> QED  BY <1>2, <1>3, HandleReplaced
<1> QED  BY <1>1, <1>4 DEF Handles

\* A reader whose constructor throws.
LEMMA HandlesThrow ==
    ASSUME Handles, NEW n \in Name, OpenAof(n, 1, 0),
           lost' = [lost EXCEPT ![n] = @ + 1], UNCHANGED <<handle, gen>>
    PROVE  Handles'
<1>1. Counted' /\ aof' \in [Name -> Aof]  BY ThrowCounts DEF Handles
<1> QED  BY <1>1 DEF Handles, GenOK, IsWriter

\* The type of an element of a sequence.
LEMMA Element == ASSUME NEW S, NEW s \in Seq(S) PROVE \A j \in 1..Len(s) : s[j] \in S
OBVIOUS

\* What a read at a position of a file may deliver.
LEMMA InsideFile ==
    ASSUME Stored, NEW n \in Name, NEW at \in Int, NEW len \in 1..MaxLen,
           NEW r \in ReadResults(n, at, len)
    PROVE  /\ r \in Int
           /\ \A i \in at .. at + r - 1 :
                 /\ i \in Nat /\ i < Len(data[n])
                 /\ data[n][i + 1] \in 1..MaxGen
<1>1. data[n] \in Seq(1..MaxGen) /\ Len(data[n]) \in Nat  BY DEF Stored
<1>2. r \in Int  BY <1>1, ConstantsAssumption DEF ReadResults
<1>3. ASSUME NEW i \in at .. at + r - 1
      PROVE  i \in Nat /\ i < Len(data[n])
  BY <1>1, <1>2, ConstantsAssumption DEF ReadResults
<1>4. ASSUME NEW i \in at .. at + r - 1
      PROVE  data[n][i + 1] \in 1..MaxGen
  <2>1. i + 1 \in 1..Len(data[n])  BY <1>1, <1>3
  <2>2. \A j \in 1..Len(data[n]) : data[n][j] \in 1..MaxGen
    BY <1>1, Element
  <2> QED  BY <2>1, <2>2
<1> QED  BY <1>2, <1>3, <1>4

\* A delivery changes position and history of one reader and nothing else.
LEMMA HandlesDeliver ==
    ASSUME Handles, NEW h \in Handle, NEW at \in Int, NEW r \in Int, NEW by \in Int,
           IsReader(h), Delivers(h, at, r, by),
           \A i \in at .. at + r - 1 :
              i \in Nat /\ data[File(h)][i + 1] \in 1..MaxGen
    PROVE  Handles'
<1> DEFINE more == {<<i, data[File(h)][i + 1]>> : i \in at .. at + r - 1}
           new == [handle[h] EXCEPT !.offset = handle[h].offset + by,
                                    !.given = handle[h].given \cup more]
<1>1. handle[h] \in HandleRecord
  BY DEF Handles, Counted, HandlesTyped, NoHandle, IsReader
<1>2. handle' = [handle EXCEPT ![h] = new] /\ UNCHANGED <<aof, lost, gen>>
  BY DEF Delivers, storage
<1>3. new \in HandleRecord /\ new.kind = handle[h].kind /\ new.name = handle[h].name
      /\ new.gen = handle[h].gen
  <2>1. more \in SUBSET (Nat \X (1..MaxGen))  OBVIOUS
  <2>2. handle[h].given \cup more \in SUBSET (Nat \X (1..MaxGen))
    <3> HIDE DEF more
    <3> QED  BY <1>1, <2>1 DEF HandleRecord
  <2>3. handle[h].offset + by \in Int  BY <1>1 DEF HandleRecord
  <2> HIDE DEF more
  <2> QED  BY <1>1, <2>2, <2>3 DEF HandleRecord
<1> HIDE DEF new, more
<1>4. GenOK'
  BY <1>1, <1>2, <1>3, HandleReplaced DEF IsReader
<1>5. \A q \in Handle : handle'[q] = IF q = h THEN new ELSE handle[q]
  BY <1>2 DEF Handles, Counted, HandlesTyped
<1>6. HandlesTyped'
  BY <1>2, <1>3 DEF Handles, Counted, HandlesTyped
<1>7. CountsMatch'
  <2>1. \A q \in Handle : /\ IsReader(q)' <=> IsReader(q)
                          /\ IsWriter(q)' <=> IsWriter(q)
                          /\ IsReader(q) \/ IsWriter(q) => File(q)' = File(q)
    BY <1>3, <1>5 DEF IsReader, IsWriter, File
  <2> QED  BY <1>2, <2>1, SameUsers DEF Handles, Counted
<1> QED  BY <1>2, <1>4, <1>6, <1>7 DEF Handles, Counted

\* Close and the destructors release what the handle counted for.
LEMMA HandlesRelease ==
    ASSUME Handles, NEW h \in Handle, NEW gone \in HandleRecord \cup {NoHandle},
           gone.kind \in {"none", "closed"},
           handle' = [handle EXCEPT ![h] = gone], UNCHANGED <<lost, gen>>,
           \/ IsReader(h) /\ ReleaseAof(File(h), 1, 0)
           \/ IsWriter(h) /\ ReleaseAof(File(h), 0, 1)
    PROVE  Handles'
<1>1. Counted' /\ aof' \in [Name -> Aof]  BY ReleaseCounts DEF Handles
<1>2. GenOK'  BY HandleReplaced
<1> QED  BY <1>1, <1>2 DEF Handles

\* Calls that leave handles and objects alone keep the counts.
LEMMA HandlesSame ==
    ASSUME Handles, UNCHANGED <<aof, handle, lost, gen>>
    PROVE  Handles'
<1>1. CountsMatch'
  BY SameUsers DEF Handles, Counted, IsReader, IsWriter, File
<1> QED
  BY <1>1 DEF Handles, Counted, HandlesTyped, GenOK, IsWriter

\* No handle and no reference is left.
LEMMA HandlesNone ==
    ASSUME gen' \in 0..MaxGen,
           aof' = [n \in Name |-> Free],
           handle' = [h \in Handle |-> NoHandle],
           lost' = [n \in Name |-> 0]
    PROVE  Handles'
<1>1. \A n \in Name : Readers(n)' = {} /\ Writers(n)' = {}
  BY DEF Readers, Writers, IsReader, IsWriter, NoHandle
<1>2. CountsMatch'
  <2>1. ASSUME NEW n \in Name
        PROVE  /\ Cardinality(Readers(n))' = 0 /\ Cardinality(Writers(n))' = 0
               /\ aof'[n] = Free /\ lost'[n] = 0
    BY <1>1, FS_EmptySet
  <2> QED  BY <2>1 DEF CountsMatch, Free
<1>3. HandlesTyped' /\ GenOK' /\ lost' \in [Name -> Nat]
  BY DEF HandlesTyped, GenOK, IsWriter, NoHandle
<1>4. aof' \in [Name -> Aof]  BY DEF Free, Aof
<1> QED  BY <1>2, <1>3, <1>4 DEF Handles, Counted

\* Every call, and a crash, keeps Handles.
LEMMA HandlesNext ==
    ASSUME Handles, Stored, [Next]_vars
    PROVE  Handles'
<1> USE ConstantsAssumption
<1>1. ASSUME NEW h \in Handle, NEW n \in Name, NEW k \in {"seq", "random"},
             NewReader(h, k, n, 1)
      PROVE  Handles'
  <2>1. gen' = gen /\ gen' \in 0..MaxGen /\ OpenAof(n, 1, 0)
    BY <1>1 DEF NewReader, Handles
  <2>2. CASE NewHandle(h, k, n, 0) /\ UNCHANGED lost
    BY <2>1, <2>2, HandlesOpen
  <2>3. CASE lost' = [lost EXCEPT ![n] = @ + 1] /\ UNCHANGED handle
    BY <2>1, <2>3, HandlesThrow
  <2> QED  BY <1>1, <2>2, <2>3 DEF NewReader
<1>2. ASSUME NEW h \in Handle, NEW n \in Name,
             NewSequentialFile(h, n) \/ NewRandomAccessFile(h, n)
      PROVE  Handles'
  BY <1>1, <1>2 DEF NewSequentialFile, NewRandomAccessFile
<1>3. ASSUME NEW h \in Handle, NEW n \in Name, NewWritableFile(h, n)
      PROVE  Handles'
  <2>1. gen' = gen + 1 /\ gen + 1 \in 1..MaxGen
    BY <1>3 DEF NewWritableFile, Creates, Handles
  <2> QED  BY <1>3, <2>1, HandlesOpen DEF NewWritableFile, Creates
<1>4. ASSUME NEW h \in Handle, NEW len \in 1..MaxLen, NEW at \in Int, NEW by \in Int,
             NEW r \in ReadResults(File(h), at, len),
             IsReader(h), Delivers(h, at, r, by)
      PROVE  Handles'
  <2>1. File(h) \in Name
    BY <1>4 DEF Handles, Counted, HandlesTyped, HandleRecord, NoHandle, IsReader, File
  <2>2. /\ r \in Int
        /\ \A i \in at .. at + r - 1 :
              i \in Nat /\ data[File(h)][i + 1] \in 1..MaxGen
    BY <1>4, <2>1, InsideFile
  <2> QED  BY <1>4, <2>2, HandlesDeliver
<1>5. ASSUME NEW h \in Handle, NEW len \in 1..MaxLen,
             Read(h, len) \/ Skip(h, len) \/ \E at \in 0..MaxLen : PositionedRead(h, at, len)
      PROVE  Handles'
  <2>1. IsReader(h)  BY <1>5 DEF Read, Skip, PositionedRead, IsReader
  <2>2. handle[h].offset \in Int /\ File(h) \in Name
    BY <2>1 DEF Handles, Counted, HandlesTyped, HandleRecord, NoHandle, IsReader, File
  <2>3. CASE Read(h, len)
    <3>1. PICK r \in ReadResults(File(h), handle[h].offset, len) :
            Delivers(h, handle[h].offset, r, r)
      BY <2>3 DEF Read
    <3>2. r \in Int  BY <2>2, <3>1, InsideFile
    <3> QED  BY <1>4, <2>1, <2>2, <3>1, <3>2
  <2>4. CASE \E at \in 0..MaxLen : PositionedRead(h, at, len)
    <3>1. PICK at \in 0..MaxLen : \E r \in ReadResults(File(h), at, len) :
            Delivers(h, at, r, 0)
      BY <2>4 DEF PositionedRead
    <3> QED  BY <1>4, <2>1, <3>1
  <2>5. CASE Skip(h, len)
    <3>1. Delivers(h, handle[h].offset, 0, len)  BY <2>5 DEF Skip
    <3>2. handle[h].offset .. handle[h].offset + 0 - 1 = {}  BY <2>2
    <3> QED  BY <2>1, <2>2, <3>1, <3>2, HandlesDeliver
  <2> QED  BY <1>5, <2>3, <2>4, <2>5
<1>6. ASSUME NEW h \in Handle, Close(h)
      PROVE  Handles'
  <2> DEFINE gone == [handle[h] EXCEPT !.kind = "closed"]
  <2>1. handle[h] \in HandleRecord
    BY <1>6 DEF Close, IsWriter, Handles, Counted, HandlesTyped, NoHandle
  <2>2. gone \in HandleRecord /\ gone.kind = "closed"
    BY <2>1 DEF HandleRecord, Kind
  <2>3. handle' = [handle EXCEPT ![h] = gone] /\ UNCHANGED <<lost, gen>>
    BY <1>6 DEF Close, storage
  <2> HIDE DEF gone
  <2> QED  BY <1>6, <2>2, <2>3, HandlesRelease DEF Close
<1>7. ASSUME NEW h \in Handle, Destroy(h)
      PROVE  Handles'
  <2>1. NoHandle.kind = "none"  BY DEF NoHandle
  <2>2. handle' = [handle EXCEPT ![h] = NoHandle] /\ UNCHANGED <<lost, gen>>
    BY <1>7 DEF Destroy, storage
  <2>3. CASE handle[h].kind = "closed" /\ UNCHANGED aof
    <3>1. GenOK'  BY <2>1, <2>2, HandleReplaced
    <3>2. HandlesTyped'  BY <2>2 DEF Handles, Counted, HandlesTyped
    <3>3. \A q \in Handle : handle'[q] = IF q = h THEN NoHandle ELSE handle[q]
      BY <2>2 DEF Handles, Counted, HandlesTyped
    <3>4. \A q \in Handle : /\ IsReader(q)' <=> IsReader(q)
                            /\ IsWriter(q)' <=> IsWriter(q)
                            /\ IsReader(q) \/ IsWriter(q) => File(q)' = File(q)
      BY <2>1, <2>3, <3>3 DEF IsReader, IsWriter, File
    <3>5. CountsMatch'  BY <2>2, <2>3, <3>4, SameUsers DEF Handles, Counted
    <3> QED  BY <2>2, <2>3, <3>1, <3>2, <3>5 DEF Handles, Counted
  <2>4. CASE \/ IsReader(h) /\ ReleaseAof(File(h), 1, 0)
             \/ IsWriter(h) /\ ReleaseAof(File(h), 0, 1)
    BY <2>1, <2>2, <2>4, HandlesRelease
  <2> QED  BY <1>7, <2>3, <2>4 DEF Destroy
<1>8. CASE Crash
  BY <1>8, HandlesNone DEF Crash, Handles
<1>9. CASE UNCHANGED <<aof, handle, lost, gen>>
  BY <1>9, HandlesSame
<1>10. ASSUME NEW h \in Handle, Sync(h) \/ \E len \in 1..MaxLen : AppendData(h, len)
       PROVE  Handles'
  BY <1>10, <1>9 DEF Sync, AppendData
<1>11. ASSUME NEW n \in Name, DeleteFile(n)
       PROVE  Handles'
  BY <1>11, <1>9 DEF DeleteFile
<1>12. ASSUME NEW n \in Name, NEW m \in Name, RenameFile(n, m)
       PROVE  Handles'
  BY <1>12, <1>9 DEF RenameFile
<1>13. CASE UNCHANGED vars  BY <1>13, <1>9 DEF vars
<1> QED
  BY <1>2, <1>3, <1>5, <1>6, <1>7, <1>8, <1>10, <1>11, <1>12, <1>13
     DEF Next

----------------------------------------------------------------------------
\* The type, the length and the first elements of a concatenation.
LEMMA Concat ==
    ASSUME NEW S, NEW s \in Seq(S), NEW t \in Seq(S)
    PROVE  /\ s \o t \in Seq(S) /\ Len(s \o t) = Len(s) + Len(t)
           /\ \A i \in 1..Len(s) : (s \o t)[i] = s[i]
OBVIOUS

\* A writable file has a file and a generation.
LEMMA WriterFields ==
    ASSUME Handles, NEW h \in Handle, IsWriter(h)
    PROVE  File(h) \in Name /\ handle[h].gen \in 1..MaxGen
BY DEF Handles, Counted, HandlesTyped, HandleRecord, NoHandle, GenOK, IsWriter, File

\* One file grows at its end.
Grows(n) ==
    /\ data' \in [Name -> Seq(1..MaxGen)]
    /\ Len(data'[n]) >= Len(data[n])
    /\ \A i \in 1..Len(data[n]) : data'[n][i] = data[n][i]
    /\ \A m \in Name \ {n} : data'[m] = data[m]

LEMMA AppendGrows ==
    ASSUME Handles, Stored, NEW h \in Handle, NEW len \in 1..MaxLen, AppendData(h, len)
    PROVE  File(h) \in Name /\ Grows(File(h))
<1> DEFINE more == [i \in 1..len |-> handle[h].gen]
<1>1. PICK n \in Name : n = File(h)  BY WriterFields DEF AppendData
<1>2. more \in Seq(1..MaxGen) /\ Len(more) = len
  BY WriterFields, ConstantsAssumption DEF AppendData
<1>3. data[n] \in Seq(1..MaxGen) /\ Len(data[n]) \in Nat  BY DEF Stored
<1>4. data' = [data EXCEPT ![n] = data[n] \o more]  BY <1>1 DEF AppendData
<1> HIDE DEF more
<1>5. /\ data[n] \o more \in Seq(1..MaxGen)
      /\ Len(data[n] \o more) = Len(data[n]) + len
      /\ \A i \in 1..Len(data[n]) : (data[n] \o more)[i] = data[n][i]
  BY <1>2, <1>3, Concat
<1>6. data' \in [Name -> Seq(1..MaxGen)]  BY <1>4, <1>5 DEF Stored
<1>7. data'[n] = data[n] \o more /\ \A m \in Name \ {n} : data'[m] = data[m]
  BY <1>4 DEF Stored
<1>8. Len(data'[n]) >= Len(data[n])  BY <1>3, <1>5, <1>7, ConstantsAssumption
<1> QED  BY <1>1, <1>5, <1>6, <1>7, <1>8 DEF Grows

\* Every call, and a crash, keeps the stored bytes well formed.
LEMMA StoredNext ==
    ASSUME Handles, Stored, [Next]_vars
    PROVE  Stored'
<1> USE ConstantsAssumption
<1>1. CASE UNCHANGED <<data, synced, promised>> /\ exists' \subseteq Name
  BY <1>1 DEF Stored
<1>2. ASSUME NEW h \in Handle, NEW n \in Name,
             \/ NewSequentialFile(h, n) \/ NewRandomAccessFile(h, n)
             \/ NewWritableFile(h, n)
      PROVE  Stored'
  <2>1. exists' \subseteq Name /\ UNCHANGED <<data, synced, promised>>
    BY <1>2 DEF NewSequentialFile, NewRandomAccessFile, NewReader,
                NewWritableFile, Creates, OpenAof, Stored
  <2> QED  BY <1>1, <2>1
<1>3. CASE UNCHANGED storage
  BY <1>1, <1>3 DEF storage, Stored
<1>4. ASSUME NEW h \in Handle, NEW len \in 1..MaxLen,
             Read(h, len) \/ Skip(h, len) \/ \E at \in 0..MaxLen : PositionedRead(h, at, len)
      PROVE  UNCHANGED storage
  BY <1>4 DEF Read, Skip, PositionedRead, Delivers
<1>5. ASSUME NEW h \in Handle, Close(h) \/ Destroy(h)
      PROVE  UNCHANGED storage
  BY <1>5 DEF Close, Destroy
<1>6. ASSUME NEW h \in Handle, NEW len \in 1..MaxLen, AppendData(h, len)
      PROVE  Stored'
  <2>1. data' \in [Name -> Seq(1..MaxGen)]  BY <1>6, AppendGrows DEF Grows
  <2> QED  BY <1>6, <2>1 DEF AppendData, Stored
<1>7. ASSUME NEW h \in Handle, Sync(h)
      PROVE  Stored'
  <2>1. PICK n \in Name : n = File(h)  BY <1>7, WriterFields DEF Sync
  <2>2. Len(data[n]) \in Nat  BY DEF Stored
  <2> QED  BY <1>7, <2>1, <2>2 DEF Sync, Stored
<1>8. ASSUME NEW n \in Name, DeleteFile(n)
      PROVE  Stored'
  BY <1>8 DEF DeleteFile, Stored
<1>9. ASSUME NEW src \in Name, NEW target \in Name, RenameFile(src, target)
      PROVE  Stored'
  <2>1. data' \in [Name -> Seq(1..MaxGen)]
    <3>1. data[src] \in Seq(1..MaxGen)  BY DEF Stored
    <3>2. <<>> \in Seq(1..MaxGen)  OBVIOUS
    <3>3. data' = [data EXCEPT ![src] = <<>>, ![target] = data[src]]
      BY <1>9 DEF RenameFile
    <3> QED  BY <3>1, <3>2, <3>3 DEF Stored
  <2>2. exists' \subseteq Name  BY <1>9 DEF RenameFile, Stored
  <2>3. synced' \in [Name -> Nat]  BY <1>9 DEF RenameFile, Stored
  <2>4. promised' \in [Name -> Nat]  BY <1>9 DEF RenameFile, Stored
  <2> QED  BY <2>1, <2>2, <2>3, <2>4 DEF Stored
<1>10. CASE Crash
  <2>1. PICK keep \in [Name -> 0..MaxLen] :
          /\ \A n \in Name : keep[n] \in synced[n]..Len(data[n])
          /\ data' = [n \in Name |-> SubSeq(data[n], 1, keep[n])]
          /\ synced' = keep
    BY <1>10 DEF Crash
  <2>2. ASSUME NEW n \in Name
        PROVE  keep[n] \in Nat /\ SubSeq(data[n], 1, keep[n]) \in Seq(1..MaxGen)
    <3>1. keep[n] \in Nat /\ synced[n] \in Nat /\ Len(data[n]) \in Nat
      BY DEF Stored
    <3>2. keep[n] <= Len(data[n])  BY <2>1, <3>1
    <3> QED  BY <3>1, <3>2 DEF Stored
  <2> QED  BY <1>10, <2>1, <2>2 DEF Crash, Stored
<1>11. CASE UNCHANGED vars  BY <1>3, <1>11 DEF vars, storage
<1> QED
  BY <1>2, <1>3, <1>4, <1>5, <1>6, <1>7, <1>8, <1>9, <1>10, <1>11 DEF Next

----------------------------------------------------------------------------
\* A file without references has no readers, so that deleting or renaming it
\* takes nothing away from one.
LEMMA NoReaders ==
    ASSUME Handles, NEW n \in Name, aof[n].ref = 0, NEW h \in Handle, IsReader(h)
    PROVE  File(h) # n
<1>1. /\ aof[n].reader_cnt = Cardinality(Readers(n)) + lost[n]
      /\ aof[n].ref = aof[n].reader_cnt + aof[n].writer_cnt
      /\ aof[n].reader_cnt \in Nat /\ aof[n].writer_cnt \in Nat /\ lost[n] \in Nat
  BY CountsAreNat DEF Handles, Counted, CountsMatch
<1>2. Cardinality(Readers(n)) = 0  BY <1>1, UsersFinite
<1>3. Readers(n) = {}  BY <1>2, UsersFinite, FS_EmptySet
<1> QED  BY <1>3 DEF Readers

\* What a reader was given is still there when the reader is the same and its
\* file has at most grown.
LEMMA StableKept ==
    ASSUME Handles, Stored, ReadsStable,
           \A h \in Handle : IsReader(h)' =>
              /\ IsReader(h)
              /\ handle'[h].given \subseteq handle[h].given /\ File(h)' = File(h)
              /\ Len(data'[File(h)]) >= Len(data[File(h)])
              /\ Len(data'[File(h)]) \in Nat
              /\ \A i \in 1..Len(data[File(h)]) : data'[File(h)][i] = data[File(h)][i]
    PROVE  ReadsStable'
<1> SUFFICES ASSUME NEW h \in Handle, IsReader(h)', NEW g \in handle'[h].given
             PROVE  /\ g[1] < Len(data'[File(h)'])
                    /\ data'[File(h)'][g[1] + 1] = g[2]
  BY DEF ReadsStable
<1>1. IsReader(h) /\ g \in handle[h].given /\ File(h)' = File(h)  OBVIOUS
<1>2. /\ handle[h] \in HandleRecord
      /\ File(h) \in Name
  BY <1>1 DEF Handles, Counted, HandlesTyped, HandleRecord, NoHandle, IsReader, File
<1>3. g[1] \in Nat
  <2>1. g \in Nat \X (1..MaxGen)  BY <1>1, <1>2 DEF HandleRecord
  <2> QED  BY <2>1
<1>4. g[1] < Len(data[File(h)]) /\ data[File(h)][g[1] + 1] = g[2]
  BY <1>1 DEF ReadsStable
<1>5. Len(data[File(h)]) \in Nat  BY <1>2 DEF Stored
<1>6. g[1] + 1 \in 1..Len(data[File(h)])  BY <1>3, <1>4, <1>5
<1> QED  BY <1>1, <1>3, <1>4, <1>5, <1>6

\* A delivery adds bytes that are in the file.
LEMMA StableDeliver ==
    ASSUME Handles, Stored, ReadsStable, NEW h \in Handle, NEW at \in Int, NEW r \in Int,
           NEW by, Delivers(h, at, r, by),
           \A i \in at .. at + r - 1 : i < Len(data[File(h)])
    PROVE  ReadsStable'
<1> DEFINE more == {<<i, data[File(h)][i + 1]>> : i \in at .. at + r - 1}
           new == [handle[h] EXCEPT !.offset = handle[h].offset + by,
                                    !.given = handle[h].given \cup more]
<1>1. handle' = [handle EXCEPT ![h] = new] /\ UNCHANGED data
  BY DEF Delivers, storage
<1>2. \A q \in Handle : handle'[q] = IF q = h THEN new ELSE handle[q]
  BY <1>1 DEF Handles, Counted, HandlesTyped
<1> SUFFICES ASSUME NEW q \in Handle, IsReader(q)', NEW g \in handle'[q].given
             PROVE  /\ g[1] < Len(data'[File(q)'])
                    /\ data'[File(q)'][g[1] + 1] = g[2]
  BY DEF ReadsStable
<1>3. CASE q # h
  <2> HIDE DEF new, more
  <2>1. handle'[q] = handle[q]  BY <1>2, <1>3
  <2>2. IsReader(q) /\ File(q)' = File(q) /\ g \in handle[q].given
    BY <2>1 DEF IsReader, File
  <2> QED  BY <1>1, <2>2 DEF ReadsStable
<1>4. CASE q = h
  <2>1. handle'[h] = new  BY <1>2
  <2>2. handle[h] \in HandleRecord
    <3>1. handle[h] # NoHandle
      BY <1>4, <2>1 DEF IsReader, NoHandle
    <3> QED  BY <3>1 DEF Handles, Counted, HandlesTyped
  <2>3. /\ new.kind = handle[h].kind /\ new.name = handle[h].name
        /\ new.given = handle[h].given \cup more
    BY <2>2 DEF HandleRecord
  <2>4. IsReader(h) /\ File(h)' = File(h)
    BY <1>4, <2>1, <2>3 DEF IsReader, File
  <2>5. CASE g \in handle[h].given
    BY <1>1, <1>4, <2>4, <2>5 DEF ReadsStable
  <2>6. CASE g \in more
    BY <1>1, <1>4, <2>4, <2>6
  <2> QED  BY <1>4, <2>1, <2>3, <2>5, <2>6
<1> QED  BY <1>3, <1>4

\* Every call, and a crash, leaves the readers what they were given.
LEMMA StableNext ==
    ASSUME Handles, Stored, ReadsStable, [Next]_vars
    PROVE  ReadsStable'
<1> USE ConstantsAssumption
<1>1. ASSUME NEW n \in Name PROVE Len(data[n]) \in Nat  BY DEF Stored
<1>2. ASSUME NEW h \in Handle, IsReader(h) PROVE File(h) \in Name
  BY <1>2 DEF Handles, Counted, HandlesTyped, HandleRecord, NoHandle, IsReader, File
<1>3. CASE UNCHANGED <<data, handle>>
  BY <1>3 DEF ReadsStable, IsReader, File
<1>4. ASSUME NEW h \in Handle, NEW new, UNCHANGED data,
             handle' = [handle EXCEPT ![h] = new],
             new.kind \in {"seq", "random"} => new.given = {}
      PROVE  ReadsStable'
  <2>1. \A q \in Handle : handle'[q] = IF q = h THEN new ELSE handle[q]
    BY <1>4 DEF Handles, Counted, HandlesTyped
  <2> QED  BY <1>4, <2>1 DEF ReadsStable, IsReader, File
<1>5. ASSUME NEW h \in Handle, NEW k, NEW n, NEW g, NewHandle(h, k, n, g), UNCHANGED data
      PROVE  ReadsStable'
  BY <1>4, <1>5 DEF NewHandle
<1>6. ASSUME NEW h \in Handle, NEW n \in Name,
             \/ NewSequentialFile(h, n) \/ NewRandomAccessFile(h, n)
             \/ NewWritableFile(h, n)
      PROVE  ReadsStable'
  <2>1. UNCHANGED data
    BY <1>6 DEF NewSequentialFile, NewRandomAccessFile, NewReader, NewWritableFile
  <2>2. UNCHANGED handle \/ \E k, g : NewHandle(h, k, n, g)
    BY <1>6 DEF NewSequentialFile, NewRandomAccessFile, NewReader,
                NewWritableFile, Creates
  <2> QED  BY <1>3, <1>5, <2>1, <2>2
<1>7. ASSUME NEW h \in Handle, NEW len \in 1..MaxLen, NEW at \in Int,
             NEW r \in ReadResults(File(h), at, len), NEW by,
             IsReader(h), Delivers(h, at, r, by)
      PROVE  ReadsStable'
  <2>1. r \in Int /\ \A i \in at .. at + r - 1 : i < Len(data[File(h)])
    BY <1>2, <1>7, InsideFile
  <2> QED  BY <1>7, <2>1, StableDeliver
<1>8. ASSUME NEW h \in Handle, NEW len \in 1..MaxLen,
             Read(h, len) \/ Skip(h, len) \/ \E at \in 0..MaxLen : PositionedRead(h, at, len)
      PROVE  ReadsStable'
  <2>1. IsReader(h)  BY <1>8 DEF Read, Skip, PositionedRead, IsReader
  <2>2. handle[h].offset \in Int
    BY <2>1 DEF Handles, Counted, HandlesTyped, HandleRecord, NoHandle, IsReader
  <2>3. CASE Read(h, len)  BY <1>7, <2>1, <2>2, <2>3 DEF Read
  <2>4. CASE \E at \in 0..MaxLen : PositionedRead(h, at, len)
    <3>1. PICK at \in 0..MaxLen : \E r \in ReadResults(File(h), at, len) :
            Delivers(h, at, r, 0)
      BY <2>4 DEF PositionedRead
    <3> QED  BY <1>7, <2>1, <3>1
  <2>5. CASE Skip(h, len)
    <3>1. Delivers(h, handle[h].offset, 0, len)  BY <2>5 DEF Skip
    <3>2. \A i \in handle[h].offset .. handle[h].offset + 0 - 1 : i < Len(data[File(h)])
      BY <2>2
    <3>3. 0 \in Int  OBVIOUS
    <3> QED  BY <2>2, <3>1, <3>2, <3>3, StableDeliver
  <2> QED  BY <1>8, <2>3, <2>4, <2>5
<1>9. ASSUME NEW h \in Handle, NEW len \in 1..MaxLen, AppendData(h, len)
      PROVE  ReadsStable'
  <2>1. UNCHANGED handle  BY <1>9 DEF AppendData
  <2>2. File(h) \in Name /\ Grows(File(h))  BY <1>9, AppendGrows
  <2>3. \A n \in Name : /\ Len(data'[n]) >= Len(data[n]) /\ Len(data'[n]) \in Nat
                        /\ \A i \in 1..Len(data[n]) : data'[n][i] = data[n][i]
    BY <1>1, <2>2 DEF Grows
  <2>4. \A q \in Handle : /\ IsReader(q)' <=> IsReader(q)
                          /\ handle'[q].given = handle[q].given /\ File(q)' = File(q)
    BY <2>1 DEF IsReader, File
  <2> QED  BY <1>2, <2>3, <2>4, StableKept
<1>10. ASSUME NEW h \in Handle, Sync(h) PROVE ReadsStable'
  BY <1>3, <1>10 DEF Sync
<1>11. ASSUME NEW h \in Handle, Close(h) PROVE ReadsStable'
  <2> DEFINE gone == [handle[h] EXCEPT !.kind = "closed"]
  <2>1. handle[h] \in HandleRecord
    BY <1>11 DEF Close, IsWriter, Handles, Counted, HandlesTyped, NoHandle
  <2>2. gone.kind = "closed"  BY <2>1 DEF HandleRecord
  <2>3. handle' = [handle EXCEPT ![h] = gone] /\ UNCHANGED data
    BY <1>11 DEF Close, storage
  <2> HIDE DEF gone
  <2> QED  BY <1>4, <2>2, <2>3
<1>12. ASSUME NEW h \in Handle, Destroy(h) PROVE ReadsStable'
  <2>1. NoHandle.kind = "none"  BY DEF NoHandle
  <2> QED  BY <1>4, <1>12, <2>1 DEF Destroy, storage
<1>13. ASSUME UNCHANGED handle,
              \A m \in Name : data'[m] = data[m] \/ aof[m].ref = 0
       PROVE  ReadsStable'
  <2>1. \A q \in Handle : /\ IsReader(q)' <=> IsReader(q)
                          /\ handle'[q].given = handle[q].given /\ File(q)' = File(q)
    BY <1>13 DEF IsReader, File
  <2>2. \A q \in Handle : IsReader(q) => data'[File(q)] = data[File(q)]
    BY <1>2, <1>13, NoReaders
  <2> QED  BY <2>1, <2>2 DEF ReadsStable
<1>14. ASSUME NEW n \in Name, DeleteFile(n) PROVE ReadsStable'
  <2>1. \A m \in Name : data'[m] = data[m] \/ aof[m].ref = 0
    BY <1>14 DEF DeleteFile, Unused, Stored
  <2> QED  BY <1>13, <1>14, <2>1 DEF DeleteFile
<1>15. ASSUME NEW n \in Name, NEW m \in Name, RenameFile(n, m) PROVE ReadsStable'
  <2>1. \A q \in Name : data'[q] = data[q] \/ aof[q].ref = 0
    BY <1>15 DEF RenameFile, Unused, Stored
  <2> QED  BY <1>13, <1>15, <2>1 DEF RenameFile
<1>16. CASE Crash
  BY <1>16 DEF Crash, ReadsStable, IsReader, NoHandle
<1>17. CASE UNCHANGED vars  BY <1>3, <1>17 DEF vars
<1> QED
  BY <1>6, <1>8, <1>9, <1>10, <1>11, <1>12, <1>14, <1>15, <1>16, <1>17 DEF Next

\* The plugin starts with no files and no handles.
LEMMA InvInit == Init => Handles /\ Stored /\ ReadsStable
<1> SUFFICES ASSUME Init PROVE Handles /\ Stored /\ ReadsStable  OBVIOUS
<1> USE ConstantsAssumption
<1>1. Stored /\ ReadsStable
  BY DEF Init, Stored, ReadsStable, IsReader, NoHandle
<1>2. \A n \in Name : Readers(n) = {} /\ Writers(n) = {}
  BY DEF Init, Readers, Writers, IsReader, IsWriter, NoHandle
<1>3. CountsMatch
  <2>1. \A n \in Name : Cardinality(Readers(n)) = 0 /\ Cardinality(Writers(n)) = 0
    BY <1>2, FS_EmptySet, Zenon
  <2>2. \A n \in Name : /\ aof[n].ref = 0 /\ aof[n].reader_cnt = 0
                        /\ aof[n].writer_cnt = 0 /\ lost[n] = 0
    BY DEF Init, Free
  <2> QED  BY <2>1, <2>2 DEF CountsMatch
<1>4. HandlesTyped /\ GenOK /\ lost \in [Name -> Nat]
  BY DEF Init, HandlesTyped, GenOK, IsWriter, NoHandle
<1>5. aof \in [Name -> Aof] /\ gen \in 0..MaxGen
  BY DEF Init, Free, Aof
<1> QED  BY <1>1, <1>3, <1>4, <1>5 DEF Handles, Counted

\* The inductive invariant of the plugin: handles are well formed and counted
\* by the objects they use, and the variables for stored bytes have their types.
THEOREM Invariant == Spec => [](Handles /\ Stored)
<1>1. Handles /\ Stored /\ [Next]_vars => (Handles /\ Stored)'
  BY HandlesNext, StoredNext
<1> QED  BY <1>1, InvInit, PTL DEF Spec

\* Every variable keeps its type.
THEOREM TypeCorrect == Spec => []TypeOK
<1>1. Handles /\ Stored => TypeOK
  BY DEF Handles, Stored, Counted, HandlesTyped, Aof, TypeOK
<1> QED  BY <1>1, Invariant, PTL

\* Close and the destructors release each handle's reference once, whatever
\* the order of calls and crashes; only a throwing constructor leaks one.
THEOREM ReferencesCounted == Spec => []CountsMatch
<1>1. Handles => CountsMatch  BY DEF Handles, Counted
<1> QED  BY <1>1, Invariant, PTL

\* What a reader was given stays in its file while it is open.  The counters
\* matter: a file is deleted or renamed when it has no reference left, and by
\* CountsMatch it then has no reader.
THEOREM ReadsStayTrue == Spec => []ReadsStable
<1>1. Handles /\ Stored /\ ReadsStable /\ [Next]_vars => ReadsStable'
  BY StableNext
<1> QED  BY <1>1, InvInit, Invariant, PTL DEF Spec
=============================================================================
