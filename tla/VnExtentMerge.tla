--------------------------- MODULE VnExtentMerge ---------------------------
(***************************************************************************)
(* One extent of a file as RocksDB keeps it in data_cf: an optional base   *)
(* value and the merge operands ("deltas") written since.  vn_write stores *)
(* a segment that fills the extent with Put and any other with Merge;      *)
(* ViveDataMergeOperator combines deltas with each other (PartialMerge)    *)
(* and with the base (FullMergeV2) whenever RocksDB flushes or compacts    *)
(* (the two Compact actions), and for every Get.                           *)
(*                                                                         *)
(* A value is its header's merge_off and its data bytes, numbered from 0.  *)
(***************************************************************************)
EXTENDS Integers, Sequences, FiniteSetsExt

CONSTANTS
    ExtSize,     \* VIVEFS_EXTENT_SIZE, 2^16 in the code
    Byte,        \* byte values, 0 among them
    MaxDeltas,   \* bound: deltas pending at once
    GapWrites    \* TRUE: a write may leave a gap to the one before it

ASSUME ConstantsAssumption ==
    /\ ExtSize \in Nat \ {0}
    /\ 0 \in Byte
    /\ MaxDeltas \in Nat
    /\ GapWrites \in BOOLEAN

\* 0xffff, the all-ones value of the 16-bit header field, is the offset of the
\* last byte of an extent: VIVEFS_EXTENT_SIZE is 64<<10.
PFS_FULL_EXTENT_BMP == ExtSize - 1

Content == [0 .. ExtSize - 1 -> Byte]

\* What one iteration of the write loop stores: segment_len bytes at start_off.
Span == {r \in (0 .. ExtSize - 1) \X (1 .. ExtSize) : r[1] + r[2] <= ExtSize}
Segment == UNION {[off : {r[1]}, len : {r[2]}, data : [0 .. r[2] - 1 -> Byte]] :
                    r \in Span}

NoBase == <<>>

VARIABLES
    base,    \* the newest Put or full-merge result, NoBase if there is none
    deltas,  \* merge operands newer than it, oldest first
    last     \* the last segment written, kept to speak about it

vars == <<base, deltas, last>>

Blank == [p \in 0 .. ExtSize - 1 |-> 0]
NoSegment == [off |-> 0, len |-> ExtSize, data |-> Blank]

Init == base = NoBase /\ deltas = <<>> /\ last = NoSegment

-----------------------------------------------------------------------------
(* The merge operator *)

Least(m, n) == IF m < n THEN m ELSE n
Greatest(m, n) == IF m < n THEN n ELSE m

\* Value v has a byte for offset x of the extent, and which.
Covers(v, x) == v.off <= x /\ x < v.off + v.len
ByteAt(v, x) == v.data[x - v.off]

\* _merge: the delta from the lower begin to the higher end of the two; resize()
\* zero-fills it, then the older and then the newer data are copied in.
Combine(left, right, begin, end) ==
    [off  |-> begin,
     len  |-> end - begin,
     data |-> [p \in 0 .. end - begin - 1 |->
                 IF Covers(right, begin + p) THEN ByteAt(right, begin + p)
                 ELSE IF Covers(left, begin + p) THEN ByteAt(left, begin + p)
                 ELSE 0]]

\* Mutants: the older data is copied last; the end is the sum of the lengths;
\* merge_off is taken from the newer delta.
PartialMerge_OlderLast(left, right) ==
    Combine(right, left, Least(left.off, right.off),
            Greatest(left.off + left.len, right.off + right.len))

PartialMerge_SumOfLengths(left, right) ==
    Combine(left, right, Least(left.off, right.off),
            Least(left.off, right.off) + left.len + right.len)

PartialMerge_NewerOff(left, right) ==
    Combine(left, right, right.off,
            Greatest(left.off + left.len, right.off + right.len))

PartialMerge(left, right) ==
    Combine(left, right, Least(left.off, right.off),
            Greatest(left.off + left.len, right.off + right.len))

\* The operands that have a byte for offset x.
Covering(operands, x) == {i \in DOMAIN operands : Covers(operands[i], x)}

\* The existing value from offset 0 over zeros.
Existing(existing) == IF existing = NoBase THEN Blank ELSE existing

\* Mutant: the operands are taken newest first.
FullMergeV2_NewestFirst(existing, operands) ==
    [x \in 0 .. ExtSize - 1 |->
        LET C == Covering(operands, x)
        IN  IF C = {} THEN Existing(existing)[x] ELSE ByteAt(operands[Min(C)], x)]

\* A full extent: the existing value and over it every operand at its
\* merge_off, oldest first, so that the newest one covering a byte prevails.
FullMergeV2(existing, operands) ==
    [x \in 0 .. ExtSize - 1 |->
        LET C == Covering(operands, x)
        IN  IF C = {} THEN Existing(existing)[x] ELSE ByteAt(operands[Max(C)], x)]

\* What a Get of the extent yields; a missing key reads as zeros.
Get == FullMergeV2(base, deltas)

-----------------------------------------------------------------------------
(* What happens to the extent *)

\* Two ranges overlap or are adjacent: there is no byte between them.
Touch(v, w) == v.off <= w.off + w.len /\ w.off <= v.off + v.len

Write(s) ==
    /\ GapWrites \/ Touch(last, s)
    /\ IF s.len # ExtSize
         THEN /\ Len(deltas) < MaxDeltas
              /\ deltas' = Append(deltas, s) /\ UNCHANGED base
         ELSE base' = s.data /\ deltas' = <<>>
    /\ last' = s

\* Delete, when the file is truncated.
Erase == base' = NoBase /\ deltas' = <<>> /\ last' = NoSegment

\* A flush or compaction that sees deltas i and i+1 and not what is below.
CompactDeltas(i) ==
    /\ i + 1 <= Len(deltas)
    /\ deltas' = [k \in 1 .. Len(deltas) - 1 |->
                    IF k < i THEN deltas[k]
                    ELSE IF k = i THEN PartialMerge(deltas[i], deltas[i + 1])
                    ELSE deltas[k + 1]]
    /\ UNCHANGED <<base, last>>

\* A compaction that sees the base, or that nothing is below, and the i
\* oldest deltas.
CompactBase(i) ==
    /\ i <= Len(deltas)
    /\ base' = FullMergeV2(base, SubSeq(deltas, 1, i))
    /\ deltas' = SubSeq(deltas, i + 1, Len(deltas))
    /\ UNCHANGED last

Next ==
    \/ \E s \in Segment : Write(s)
    \/ Erase
    \/ \E i \in 1 .. MaxDeltas : CompactDeltas(i) \/ CompactBase(i)

Spec == Init /\ [][Next]_vars

-----------------------------------------------------------------------------
(* Properties *)

\* The base is a full extent, as FullMergeV2 takes for granted, and every
\* delta lies inside the extent, so no memcpy leaves its buffer.
TypeOK ==
    /\ base = NoBase \/ base \in Content
    /\ deltas \in Seq(Segment) /\ Len(deltas) <= MaxDeltas
    /\ last \in Segment

\* Whatever was written before, with or without gaps, and whatever RocksDB has
\* compacted since, the last write (or truncation) reads back as it was made.
LastWriteVisible ==
    \A p \in 0 .. last.len - 1 : Get[last.off + p] = last.data[p]

\* When no write leaves a gap to the one before it, no two neighbouring deltas
\* do, however often deltas have been merged: merging two of them leaves the
\* result touching both neighbours.
DeltasTouch ==
    \A i \in 1 .. Len(deltas) - 1 : Touch(deltas[i], deltas[i + 1])

Extent == INSTANCE VnExtent WITH content <- Get

\* Through any writes, truncations and compactions, a Get returns what a plain
\* array of bytes would hold; in particular no flush or compaction changes
\* what is read.
ImplementsExtent == Extent!Spec

-----------------------------------------------------------------------------
(* What the repository says and the code does not keep *)

\* The assertion of _merge: neither value it combines is marked as full.
MergeAssertion ==
    \A i \in 1 .. Len(deltas) - 1 :
        /\ deltas[i].off # PFS_FULL_EXTENT_BMP
        /\ deltas[i + 1].off # PFS_FULL_EXTENT_BMP
=============================================================================
