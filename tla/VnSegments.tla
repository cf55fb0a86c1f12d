----------------------------- MODULE VnSegments -----------------------------
(***************************************************************************)
(* How vn_write, vn_writev, vn_read and vn_readv cut a range of bytes into *)
(* segments, one for each extent, and copy them from and to the caller's   *)
(* buffers.  One file, one call at a time; transactions are in VnFileIO    *)
(* and the stored form of an extent is in VnExtentMerge.  The calls are    *)
(* shown to implement the byte sequence of VnPosixFile.                    *)
(***************************************************************************)
EXTENDS Integers, Sequences, SequencesExt, FiniteSetsExt

CONSTANTS
    ExtSize,    \* i_extent_size
    Byte,       \* bytes that are written; 0 is a byte of a hole
    MaxSize,    \* bound: end of a write, in bytes
    MaxLen,     \* bound: bytes in a call
    MaxIov,     \* bound: buffers in a vectored call
    Word,       \* modulus of size_t
    Odd         \* calls beyond the plain ones: "unaligned" reads, reads that
                \* start "past_end", "empty" writes

ASSUME ConstantsAssumption ==
    /\ {ExtSize, MaxSize, MaxLen, MaxIov} \subseteq Nat \ {0}
    /\ Word \in Nat /\ Word > 2 * (MaxSize + MaxLen + ExtSize)
    /\ 0 \notin Byte /\ Odd \subseteq {"unaligned", "past_end", "empty"}

VARIABLES
    ext,       \* the extents in data_cf; NoExtent when there is no such key
    i_size,    \* size of the file in its inode
    aborted,   \* an assertion has failed
    call,      \* history: the call made last
    result     \* what it returned and left in the caller's buffers

vars == <<ext, i_size, aborted, call, result>>

Index == 0 .. (MaxSize + MaxLen) \div ExtSize
NoExtent == <<>>
Hole == [p \in 1 .. ExtSize |-> 0]

NoResult == [len |-> 0, data |-> <<>>]

Init ==
    /\ ext = [x \in Index |-> NoExtent] /\ i_size = 0
    /\ aborted = FALSE
    /\ call = [op |-> "none"] /\ result = NoResult

-----------------------------------------------------------------------------
(* The loop over the extents *)

StartExt(off) == off \div ExtSize

EndExt(off, len) == (off + len + ExtSize - 1) \div ExtSize

StartOff(off, buf_offset) == (off + buf_offset) % ExtSize

\* len - buf_offset is of type size_t.
SegmentLen(off, len, buf_offset) ==
    Min({(len - buf_offset) % Word, ExtSize - StartOff(off, buf_offset)})

Overlay(old, at, data) ==
    [p \in 1 .. Len(old) |-> IF p \in at + 1 .. at + Len(data) THEN data[p - at] ELSE old[p]]

\* The segments of a call, one for each extent up to `last'.
RECURSIVE Segments(_, _, _, _, _)
Segments(index, last, off, len, buf_offset) ==
    IF index >= last THEN <<>>
    ELSE LET n == SegmentLen(off, len, buf_offset)
         IN  <<[index |-> index, start_off |-> StartOff(off, buf_offset), len |-> n]>>
             \o Segments(index + 1, last, off, len, buf_offset + n)

\* The while loop of vn_writev: n bytes from the buffers, starting at byte o of
\* buffer i.
RECURSIVE Gather(_, _, _, _)
Gather(iov, i, o, n) ==
    IF n = 0 THEN [data |-> <<>>, i |-> i, o |-> o]
    ELSE LET c == Min({Len(iov[i]) - o, n})
             rest == IF o + c = Len(iov[i]) THEN Gather(iov, i + 1, 0, n - c)
                                            ELSE Gather(iov, i, o + c, n - c)
         IN  [rest EXCEPT !.data = SubSeq(iov[i], o + 1, o + c) \o @]

\* The while loops of vn_readv: data to the buffers.
RECURSIVE Scatter(_, _, _, _)
Scatter(iov, i, o, data) ==
    IF data = <<>> THEN [iov |-> iov, i |-> i, o |-> o]
    ELSE LET c == Min({Len(iov[i]) - o, Len(data)})
             filled == [iov EXCEPT ![i] = Overlay(@, o, SubSeq(data, 1, c))]
             rest == SubSeq(data, c + 1, Len(data))
         IN  IF o + c = Len(iov[i]) THEN Scatter(filled, i + 1, 0, rest)
                                    ELSE Scatter(filled, i, o + c, rest)

\* Mutant: a part of an extent that is not there is stored as it is.
Stored_Short(old, start_off, data) ==
    IF Len(data) = ExtSize \/ old = NoExtent THEN data ELSE Overlay(old, start_off, data)

\* Put of a whole extent, Merge of a part of it.
Stored(old, start_off, data) ==
    IF Len(data) = ExtSize THEN data
    ELSE Overlay(IF old = NoExtent THEN Hole ELSE old, start_off, data)

\* The loop of the writes.
StoreAll(segments, iov) ==
    LET store(st, s) ==
          LET got == Gather(iov, st.i, st.o, s.len)
          IN  [ext |-> [st.ext EXCEPT ![s.index] = Stored(@, s.start_off, got.data)],
               i |-> got.i, o |-> got.o]
    IN  FoldLeft(store, [ext |-> ext, i |-> 1, o |-> 0], segments).ext

\* What the reads copy for a segment: the first bytes of the extent, whatever
\* the segment's offset in it.
Fetched(s) == SubSeq(IF ext[s.index] = NoExtent THEN Hole ELSE ext[s.index], 1, s.len)

-----------------------------------------------------------------------------
(* The calls *)

Buffer == UNION {[1 .. n -> Byte] : n \in 0 .. MaxLen}
Length(iov) == FoldLeft(LAMBDA sum, b : sum + Len(b), 0, iov)

\* Vectors of at most MaxIov buffers with MaxLen bytes in all.
Vector == {iov \in UNION {[1 .. k -> Buffer] : k \in 1 .. MaxIov} : Length(iov) <= MaxLen}

SizeAfter(off, len) == IF off + len > i_size THEN off + len ELSE i_size

WriteSegments(off, len) == Segments(StartExt(off), EndExt(off, len), off, len, 0)

\* The part that vn_write and vn_writev have in common.
Stores(off, iov) ==
    /\ ext' = StoreAll(WriteSegments(off, Length(iov)), iov)
    /\ i_size' = SizeAfter(off, Length(iov))
    /\ result' = [len |-> Length(iov), data |-> <<>>]
    /\ UNCHANGED aborted

MayWrite(off, iov) ==
    /\ ~aborted /\ off + Length(iov) <= MaxSize
    /\ Length(iov) = 0 => "empty" \in Odd
    /\ call' = [op |-> "write", off |-> off, data |-> FlattenSeq(iov)]

Write(off, buf) == MayWrite(off, <<buf>>) /\ Stores(off, <<buf>>)

\* assert(data_remain > 0) for each segment
Writev(off, iov) ==
    /\ MayWrite(off, iov)
    /\ IF \E s \in Range(WriteSegments(off, Length(iov))) : s.len = 0
         THEN aborted' = TRUE /\ UNCHANGED <<ext, i_size, result>>
         ELSE Stores(off, iov)

\* if (offset + len > i_size) len = i_size - offset
Clipped(off, len) == IF off + len > i_size THEN (i_size - off) % Word ELSE len

\* The number of segments comes from the length before it is cut.
ReadSegments(off, len) == Segments(StartExt(off), EndExt(off, len), off, Clipped(off, len), 0)

MayRead(off, len) ==
    /\ ~aborted
    /\ off % ExtSize # 0 => "unaligned" \in Odd
    /\ off > i_size => "past_end" \in Odd
    /\ call' = [op |-> "read", off |-> off, len |-> len]
    /\ UNCHANGED <<ext, i_size, aborted>>

Read(off, len) ==
    /\ MayRead(off, len)
    /\ result' = [len |-> Clipped(off, len),
                  data |-> FoldLeft(LAMBDA buf, s : buf \o Fetched(s), <<>>, ReadSegments(off, len))]

\* Past the end of the file the copying would not stay in out_iov, so the model
\* does not follow vn_readv there.
Readv(off, lens) ==
    LET want == FoldLeft(+, 0, lens)
        copy(st, s) == Scatter(st.iov, st.i, st.o, Fetched(s))
        iov == [i \in 1 .. Len(lens) |-> [p \in 1 .. lens[i] |-> 0]]
        filled == FoldLeft(copy, [iov |-> iov, i |-> 1, o |-> 0], ReadSegments(off, want)).iov
    IN
    /\ want <= MaxLen /\ off <= i_size /\ MayRead(off, want)
    /\ result' = [len |-> Clipped(off, want),
                  data |-> SubSeq(FlattenSeq(filled), 1, Clipped(off, want))]

\* Mutant: the last extent is kept.
Truncate_KeepsLast ==
    /\ ~aborted
    /\ ext' = [x \in Index |-> IF x < i_size \div ExtSize THEN NoExtent ELSE ext[x]]
    /\ i_size' = 0 /\ call' = [op |-> "trunc"] /\ result' = NoResult
    /\ UNCHANGED aborted

\* vn_open_file_by_inode with O_TRUNC
Truncate ==
    LET ext_cnt == (i_size + ExtSize - 1) \div ExtSize IN
    /\ ~aborted
    /\ ext' = [x \in Index |-> IF x < ext_cnt THEN NoExtent ELSE ext[x]]
    /\ i_size' = 0 /\ call' = [op |-> "trunc"] /\ result' = NoResult
    /\ UNCHANGED aborted

Next ==
    \/ \E off \in 0 .. MaxSize :
         \/ \E buf \in Buffer : Write(off, buf)
         \/ \E iov \in Vector : Writev(off, iov)
         \/ \E len \in 0 .. MaxLen : Read(off, len)
         \/ \E k \in 1 .. MaxIov : \E lens \in [1 .. k -> 0 .. MaxLen] : Readv(off, lens)
    \/ Truncate

Spec == Init /\ [][Next]_vars

-----------------------------------------------------------------------------
(* Properties *)

\* Every variable stays in its domain: an extent is as long as i_extent_size
\* says, and a call returns no more bytes than the caller has room for.
TypeOK ==
    /\ ext \in [Index -> {NoExtent} \cup [1 .. ExtSize -> Byte \cup {0}]]
    /\ i_size \in 0 .. MaxSize /\ aborted \in BOOLEAN
    /\ result.len \in 0 .. MaxLen /\ Len(result.data) <= MaxLen

\* The bytes that the extents and the size stand for.
Bytes ==
    [i \in 1 .. i_size |->
        LET x == ext[(i - 1) \div ExtSize]
        IN  IF x = NoExtent THEN 0 ELSE x[((i - 1) % ExtSize) + 1]]

PosixFile == INSTANCE VnPosixFile WITH bytes <- Bytes

\* The calls implement a sequence of bytes: a write changes the bytes of its
\* range and no other, a read returns the bytes of its range, and bytes that
\* were truncated never come back.
ImplementsPosixFile == PosixFile!Spec

-----------------------------------------------------------------------------
(* What the repository says and the code does not keep *)

\* assert(data_remain > 0) in vn_writev holds.
SegmentAssertion == ~aborted
=============================================================================
