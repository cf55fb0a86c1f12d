------------------------ MODULE VnExtentMergeProofs ------------------------
(***************************************************************************)
(* Proofs about VnExtentMerge for every extent size, byte set and number   *)
(* of pending deltas.                                                      *)
(***************************************************************************)
EXTENDS VnExtentMerge, WellFoundedInduction, TLAPS

-----------------------------------------------------------------------------
(* Values and the byte a merge takes *)

\* What membership in Segment says about each field.
LEMMA SegmentFields ==
    ASSUME NEW v \in Segment
    PROVE  /\ v.off \in 0 .. ExtSize - 1 /\ v.len \in 1 .. ExtSize
           /\ v.off + v.len <= ExtSize
           /\ v.data \in [0 .. v.len - 1 -> Byte]
BY DEF Segment, Span

\* The converse: a record with such fields is a segment.
LEMMA IsSegment ==
    ASSUME NEW o \in 0 .. ExtSize - 1, NEW n \in 1 .. ExtSize, o + n <= ExtSize,
           NEW d \in [0 .. n - 1 -> Byte]
    PROVE  [off |-> o, len |-> n, data |-> d] \in Segment
<1>1. <<o, n>> \in Span
  BY DEF Span
<1>2. [off |-> o, len |-> n, data |-> d] \in [off : {o}, len : {n}, data : [0 .. n - 1 -> Byte]]
  OBVIOUS
<1> QED
  BY <1>1, <1>2 DEF Segment

\* A segment has a byte for every offset it covers.
LEMMA CoveredByte ==
    ASSUME NEW v \in Segment, NEW x \in Int, Covers(v, x)
    PROVE  ByteAt(v, x) \in Byte
<1>1. v.off \in Int /\ v.len \in Int /\ v.data \in [0 .. v.len - 1 -> Byte]
  BY SegmentFields
<1>2. x - v.off \in 0 .. v.len - 1
  BY <1>1 DEF Covers
<1> QED
  BY <1>1, <1>2 DEF ByteAt

\* A nonempty set of natural numbers has a least element.
LEMMA LeastNatural ==
    ASSUME NEW T, T \subseteq Nat, T # {}
    PROVE  \E m \in T : \A n \in T : m <= n
<1> DEFINE R == {ss \in Nat \X Nat : ss[1] < ss[2]}
<1>1. PICK m \in T : \A n \in T : ~(<<n, m>> \in R)
  <2>1. IsWellFoundedOn(R, Nat)
    BY NatLessThanWellFounded DEF OpToRel
  <2> HIDE DEF R
  <2> QED
    BY <2>1, WFMin
<1>2. \A n \in T : ~(n < m)
  BY <1>1
<1> QED
  BY <1>2

\* Among operands 1 .. n, a nonempty choice has a newest one, which Max names.
LEMMA NewestExists ==
    ASSUME NEW n \in Nat, NEW C, C \subseteq 1 .. n, C # {}
    PROVE  Max(C) \in C /\ \A j \in C : j <= Max(C)
<1> DEFINE T == {k \in Nat : n - k \in C}
<1>1. \A j \in C : j \in Nat /\ n - j \in Nat /\ n - (n - j) = j
  OBVIOUS
<1>2. \A j \in C : n - j \in T
  BY <1>1
<1>3. PICK m \in T : \A k \in T : m <= k
  <2>1. T \subseteq Nat /\ T # {}
    BY <1>2
  <2> HIDE DEF T
  <2> QED
    BY <2>1, LeastNatural
<1>4. \A j \in C : m <= n - j
  BY <1>2, <1>3
<1>5. n - m \in C /\ \A j \in C : n - m >= j
  BY <1>1, <1>4
<1> QED
  BY <1>5 DEF Max

\* Operand i is the newest that covers offset x.
IsNewest(ops, i, x) ==
    /\ i \in DOMAIN ops /\ Covers(ops[i], x)
    /\ \A j \in DOMAIN ops : Covers(ops[j], x) => j <= i

\* A byte that some operand covers has a newest operand covering it.
LEMMA SomeNewest ==
    ASSUME NEW ops \in Seq(Segment), NEW x, Covering(ops, x) # {}
    PROVE  \E i \in 1 .. Len(ops) : IsNewest(ops, i, x)
<1>1. Len(ops) \in Nat /\ Covering(ops, x) \subseteq 1 .. Len(ops)
  BY DEF Covering
<1>2. Max(Covering(ops, x)) \in Covering(ops, x)
        /\ \A j \in Covering(ops, x) : j <= Max(Covering(ops, x))
  BY <1>1, NewestExists
<1> QED
  BY <1>2 DEF Covering, IsNewest

\* FullMergeV2 takes a byte from the newest operand covering it ...
LEMMA NewestByte ==
    ASSUME NEW e, NEW ops \in Seq(Segment), NEW x \in 0 .. ExtSize - 1,
           NEW i, IsNewest(ops, i, x)
    PROVE  FullMergeV2(e, ops)[x] = ByteAt(ops[i], x)
<1> DEFINE C == Covering(ops, x)
<1>1. Len(ops) \in Nat /\ C \subseteq 1 .. Len(ops) /\ i \in C
  BY DEF Covering, IsNewest
<1>2. Max(C) \in C /\ \A j \in C : j <= Max(C)
  BY <1>1, NewestExists
<1>3. Max(C) <= i /\ i <= Max(C)
  BY <1>1, <1>2 DEF IsNewest, Covering
<1>4. Max(C) = i
  BY <1>1, <1>2, <1>3
<1> QED
  BY <1>1, <1>4 DEF FullMergeV2

\* ... and a byte no operand covers from the existing value.
LEMMA UncoveredByte ==
    ASSUME NEW e, NEW ops, NEW x \in 0 .. ExtSize - 1, Covering(ops, x) = {}
    PROVE  FullMergeV2(e, ops)[x] = Existing(e)[x]
BY DEF FullMergeV2

-----------------------------------------------------------------------------
(* Type correctness *)

\* _merge yields a delta that spans both of its arguments and nothing outside.
LEMMA PartialMergeSpan ==
    ASSUME NEW v \in Segment, NEW w \in Segment
    PROVE  LET m == PartialMerge(v, w)
           IN  /\ m \in Segment
               /\ m.off <= v.off /\ v.off + v.len <= m.off + m.len
               /\ m.off <= w.off /\ w.off + w.len <= m.off + m.len
               /\ m.off = v.off \/ m.off = w.off
               /\ m.off + m.len = v.off + v.len \/ m.off + m.len = w.off + w.len
<1> DEFINE b == Least(v.off, w.off)
           e == Greatest(v.off + v.len, w.off + w.len)
           d == [p \in 0 .. e - b - 1 |->
                   IF Covers(w, b + p) THEN ByteAt(w, b + p)
                   ELSE IF Covers(v, b + p) THEN ByteAt(v, b + p)
                   ELSE 0]
<1>1. PartialMerge(v, w) = [off |-> b, len |-> e - b, data |-> d]
  BY DEF PartialMerge, Combine
<1>v. /\ v.off \in 0 .. ExtSize - 1 /\ v.len \in 1 .. ExtSize /\ v.off + v.len <= ExtSize
      /\ v.data \in [0 .. v.len - 1 -> Byte]
  BY SegmentFields
<1>w. /\ w.off \in 0 .. ExtSize - 1 /\ w.len \in 1 .. ExtSize /\ w.off + w.len <= ExtSize
      /\ w.data \in [0 .. w.len - 1 -> Byte]
  BY SegmentFields
<1>2. /\ b \in 0 .. ExtSize - 1 /\ e - b \in 1 .. ExtSize /\ b + (e - b) = e /\ e <= ExtSize
      /\ b <= v.off /\ b <= w.off /\ v.off + v.len <= e /\ w.off + w.len <= e
      /\ b = v.off \/ b = w.off
      /\ e = v.off + v.len \/ e = w.off + w.len
  <2>1. b \in Int /\ b <= v.off /\ b <= w.off /\ (b = v.off \/ b = w.off)
    BY <1>v, <1>w DEF Least
  <2>2. /\ e \in Int /\ v.off + v.len <= e /\ w.off + w.len <= e
        /\ e = v.off + v.len \/ e = w.off + w.len
    BY <1>v, <1>w DEF Greatest
  <2> HIDE DEF b, e
  <2>3. b \in 0 .. ExtSize - 1 /\ e <= ExtSize /\ b < e /\ e - b <= ExtSize
    BY <1>v, <1>w, <2>1, <2>2, ConstantsAssumption
  <2> QED
    BY <2>1, <2>2, <2>3, ConstantsAssumption
<1>3. d \in [0 .. e - b - 1 -> Byte]
  <2> HIDE DEF b, e
  <2> SUFFICES ASSUME NEW p \in 0 .. e - b - 1 PROVE d[p] \in Byte
    OBVIOUS
  <2>0. b + p \in Int
    BY <1>2
  <2>1. Covers(w, b + p) => ByteAt(w, b + p) \in Byte
    BY <2>0, CoveredByte
  <2>2. Covers(v, b + p) => ByteAt(v, b + p) \in Byte
    BY <2>0, CoveredByte
  <2> QED
    BY <2>1, <2>2, ConstantsAssumption
<1> HIDE DEF b, e, d
<1>4. [off |-> b, len |-> e - b, data |-> d] \in Segment
  BY <1>2, <1>3, IsSegment
<1> QED
  BY <1>1, <1>2, <1>4

\* A full merge is an extent of bytes.
LEMMA FullMergeContent ==
    ASSUME NEW e, e = NoBase \/ e \in Content, NEW ops \in Seq(Segment)
    PROVE  FullMergeV2(e, ops) \in Content
<1> SUFFICES ASSUME NEW x \in 0 .. ExtSize - 1 PROVE FullMergeV2(e, ops)[x] \in Byte
  BY DEF FullMergeV2, Content
<1>1. \A i \in DOMAIN ops : ops[i] \in Segment
  OBVIOUS
<1>2. Existing(e)[x] \in Byte
  BY ConstantsAssumption DEF Existing, Blank, Content
<1>3. CASE Covering(ops, x) # {}
  <2>1. PICK i \in 1 .. Len(ops) : IsNewest(ops, i, x)
    BY <1>3, SomeNewest
  <2>2. FullMergeV2(e, ops)[x] = ByteAt(ops[i], x)
    BY <2>1, NewestByte
  <2> QED
    BY <2>1, <2>2, <1>1, CoveredByte DEF IsNewest
<1>4. CASE Covering(ops, x) = {}
  BY <1>2, <1>4, UncoveredByte
<1> QED
  BY <1>3, <1>4

\* The two compactions keep the deltas a sequence of segments.
LEMMA CompactDeltasSeq ==
    ASSUME TypeOK, NEW i \in 1 .. MaxDeltas, CompactDeltas(i)
    PROVE  /\ deltas' \in Seq(Segment) /\ Len(deltas') = Len(deltas) - 1
           /\ Len(deltas) \in Nat /\ i + 1 <= Len(deltas)
           /\ \A k \in 1 .. Len(deltas) : deltas[k] \in Segment
           /\ \A k \in 1 .. Len(deltas') :
                 deltas'[k] = IF k < i THEN deltas[k]
                              ELSE IF k = i THEN PartialMerge(deltas[i], deltas[i + 1])
                              ELSE deltas[k + 1]
<1>1. Len(deltas) \in Nat /\ i + 1 <= Len(deltas) /\ \A k \in 1 .. Len(deltas) : deltas[k] \in Segment
  BY DEF TypeOK, CompactDeltas
<1>2. PartialMerge(deltas[i], deltas[i + 1]) \in Segment
  <2>1. deltas[i] \in Segment /\ deltas[i + 1] \in Segment
    BY <1>1
  <2> QED
    BY <2>1, PartialMergeSpan
<1> DEFINE n == Len(deltas) - 1
           f == [k \in 1 .. n |-> IF k < i THEN deltas[k]
                    ELSE IF k = i THEN PartialMerge(deltas[i], deltas[i + 1])
                    ELSE deltas[k + 1]]
<1>3. n \in Nat /\ deltas' = f
  BY <1>1, ConstantsAssumption DEF CompactDeltas
<1>4. f \in [1 .. n -> Segment]
  <2> HIDE DEF n
  <2>1. n = Len(deltas) - 1
    BY DEF n
  <2> QED
    BY <1>1, <1>2, <1>3, <2>1, ConstantsAssumption
<1>5. f \in Seq(Segment) /\ Len(f) = n
  <2> HIDE DEF f, n
  <2> QED
    BY <1>3, <1>4
<1> QED
  BY <1>1, <1>3, <1>5

\* Every write, truncation and compaction keeps the types.
LEMMA TypedNext == TypeOK /\ [Next]_vars => TypeOK'
<1> SUFFICES ASSUME TypeOK, [Next]_vars PROVE TypeOK'
  OBVIOUS
<1>n. NoSegment \in Segment
  BY ConstantsAssumption, IsSegment DEF NoSegment, Blank
<1>1. ASSUME NEW s \in Segment, Write(s) PROVE TypeOK'
  <2>1. CASE s.len # ExtSize
    BY <1>1, <2>1, ConstantsAssumption DEF TypeOK, Write
  <2>2. CASE s.len = ExtSize
    <3>1. s.data \in Content
      BY <2>2, SegmentFields DEF Content
    <3> QED
      BY <1>1, <2>2, <3>1, ConstantsAssumption DEF TypeOK, Write
  <2> QED
    BY <2>1, <2>2
<1>2. CASE Erase
  BY <1>2, <1>n, ConstantsAssumption DEF TypeOK, Erase
<1>3. ASSUME NEW i \in 1 .. MaxDeltas, CompactDeltas(i) PROVE TypeOK'
  <2>1. deltas' \in Seq(Segment) /\ Len(deltas') <= MaxDeltas
    BY <1>3, CompactDeltasSeq, ConstantsAssumption DEF TypeOK
  <2> QED
    BY <1>3, <2>1 DEF TypeOK, CompactDeltas
<1>4. ASSUME NEW i \in 1 .. MaxDeltas, CompactBase(i) PROVE TypeOK'
  <2>1. i \in 1 .. Len(deltas) /\ SubSeq(deltas, 1, i) \in Seq(Segment)
    BY <1>4 DEF TypeOK, CompactBase
  <2>2. base' \in Content
    BY <1>4, <2>1, FullMergeContent DEF TypeOK, CompactBase
  <2>3. deltas' \in Seq(Segment) /\ Len(deltas') = Len(deltas) - i
    BY <1>4, <2>1 DEF TypeOK, CompactBase
  <2> QED
    BY <1>4, <2>1, <2>2, <2>3, ConstantsAssumption DEF TypeOK, CompactBase
<1>5. CASE UNCHANGED vars
  BY <1>5 DEF TypeOK, vars
<1> QED
  BY <1>1, <1>2, <1>3, <1>4, <1>5 DEF Next

\* An empty extent has the type.
LEMMA TypedInit == Init => TypeOK
<1>1. NoSegment \in Segment
  BY ConstantsAssumption, IsSegment DEF NoSegment, Blank
<1> QED
  BY <1>1, ConstantsAssumption DEF Init, TypeOK

\* No memcpy of _merge or FullMergeV2 leaves its buffer: the base is always a
\* full extent and every delta lies inside the extent.
THEOREM TypeCorrect == Spec => []TypeOK
BY TypedInit, TypedNext, PTL DEF Spec

-----------------------------------------------------------------------------
(* Neighbouring deltas *)

\* The newest pending delta spans the last write.
LastInside ==
    deltas # <<>> =>
        /\ deltas[Len(deltas)].off <= last.off
        /\ last.off + last.len <= deltas[Len(deltas)].off + deltas[Len(deltas)].len

Contiguous == TypeOK /\ DeltasTouch /\ LastInside

\* Without gap writes, no step leaves a gap between neighbouring deltas.
LEMMA ContiguousNext ==
    ASSUME ~GapWrites, Contiguous, [Next]_vars PROVE Contiguous'
<1>t. TypeOK'
  BY TypedNext DEF Contiguous
<1>d. /\ Len(deltas) \in Nat /\ DOMAIN deltas = 1 .. Len(deltas)
      /\ \A k \in 1 .. Len(deltas) :
           /\ deltas[k] \in Segment
           /\ deltas[k].off \in Int /\ deltas[k].len \in Int
  BY SegmentFields DEF Contiguous, TypeOK
<1>l. last \in Segment /\ last.off \in Int /\ last.len \in Int
  BY SegmentFields DEF Contiguous, TypeOK
<1>1. ASSUME NEW s \in Segment, Write(s) PROVE Contiguous'
  <2>s. s.off \in Int /\ s.len \in Int /\ Touch(last, s)
    BY <1>1, SegmentFields DEF Write
  <2>1. CASE s.len # ExtSize
    <3>1. /\ Len(deltas') = Len(deltas) + 1 /\ last' = s
          /\ deltas'[Len(deltas) + 1] = s
          /\ \A k \in 1 .. Len(deltas) : deltas'[k] = deltas[k]
      BY <1>1, <2>1, <1>d DEF Write, Contiguous, TypeOK
    <3>2. ASSUME NEW k \in 1 .. Len(deltas') - 1 PROVE Touch(deltas'[k], deltas'[k + 1])
      <4>1. CASE k = Len(deltas)
        <5>1. deltas # <<>> /\ k \in 1 .. Len(deltas)
          BY <3>1, <1>d, <4>1
        <5>2. deltas'[k] = deltas[k] /\ deltas'[k + 1] = s
          BY <3>1, <4>1, <5>1
        <5>3. /\ deltas[k].off \in Int /\ deltas[k].len \in Int
              /\ deltas[k].off <= last.off
              /\ last.off + last.len <= deltas[k].off + deltas[k].len
          BY <4>1, <5>1, <1>d DEF Contiguous, LastInside
        <5>4. Touch(deltas[k], s)
          BY <5>3, <1>l, <2>s DEF Touch
        <5> QED
          BY <5>2, <5>4
      <4>2. CASE k # Len(deltas)
        <5>1. k \in 1 .. Len(deltas) - 1 /\ k \in 1 .. Len(deltas) /\ k + 1 \in 1 .. Len(deltas)
          <6>1. Len(deltas') = Len(deltas) + 1 /\ Len(deltas) \in Nat
            BY <3>1, <1>d
          <6> QED
            BY <6>1, <4>2
        <5> QED
          BY <3>1, <5>1 DEF Contiguous, DeltasTouch
      <4> QED
        BY <4>1, <4>2
    <3> QED
      BY <1>t, <3>1, <3>2, <2>s DEF Contiguous, DeltasTouch, LastInside
  <2>2. CASE s.len = ExtSize
    BY <1>1, <2>2, <1>t DEF Write, Contiguous, DeltasTouch, LastInside
  <2> QED
    BY <2>1, <2>2
<1>2. CASE Erase
  BY <1>2, <1>t DEF Erase, Contiguous, DeltasTouch, LastInside
<1>3. ASSUME NEW i \in 1 .. MaxDeltas, CompactDeltas(i) PROVE Contiguous'
  <2> DEFINE m == PartialMerge(deltas[i], deltas[i + 1])
             n == Len(deltas)
  <2>1. /\ Len(deltas') = n - 1 /\ i + 1 <= n /\ i \in 1 .. n /\ i + 1 \in 1 .. n
        /\ i \in Int /\ n \in Int /\ last' = last
        /\ \A k \in 1 .. n - 1 :
             deltas'[k] = IF k < i THEN deltas[k] ELSE IF k = i THEN m ELSE deltas[k + 1]
    BY <1>3, <1>d, CompactDeltasSeq, ConstantsAssumption DEF Contiguous, CompactDeltas
  <2>2. /\ m.off \in Int /\ m.len \in Int
        /\ m.off <= deltas[i].off /\ deltas[i].off + deltas[i].len <= m.off + m.len
        /\ m.off <= deltas[i + 1].off
        /\ deltas[i + 1].off + deltas[i + 1].len <= m.off + m.len
    BY <1>d, <2>1, PartialMergeSpan, SegmentFields
  <2> HIDE DEF m
  <2>3. ASSUME NEW k \in 1 .. n - 2 PROVE Touch(deltas'[k], deltas'[k + 1])
    <3>0. /\ k \in Int /\ k \in 1 .. n - 1 /\ k + 1 \in 1 .. n - 1
          /\ k \in 1 .. n /\ k + 1 \in 1 .. n /\ k + 2 \in 1 .. n
      BY <2>1
    <3>1. Touch(deltas[k], deltas[k + 1]) /\ Touch(deltas[k + 1], deltas[k + 2])
      <4>1. \A j \in 1 .. Len(deltas) - 1 : Touch(deltas[j], deltas[j + 1])
        BY DEF Contiguous, DeltasTouch
      <4>2. k \in 1 .. Len(deltas) - 1 /\ k + 1 \in 1 .. Len(deltas) - 1 /\ (k + 1) + 1 = k + 2
        BY <3>0
      <4> HIDE DEF n
      <4>3. Touch(deltas[k + 1], deltas[(k + 1) + 1])
        BY <4>1, <4>2
      <4> QED
        BY <4>1, <4>2, <4>3
    <3> HIDE DEF n
    <3>2. CASE k + 1 < i
      BY <2>1, <3>0, <3>1, <3>2
    <3>3. CASE k + 1 = i
      <4>1. deltas'[k] = deltas[k] /\ deltas'[k + 1] = m /\ deltas[i] = deltas[k + 1]
        BY <2>1, <3>0, <3>3
      <4>2. deltas[k].off \in Int /\ deltas[k].len \in Int
              /\ deltas[k + 1].off \in Int /\ deltas[k + 1].len \in Int
        BY <3>0, <1>d DEF n
      <4>3. Touch(deltas[k], m)
        BY <4>1, <4>2, <3>1, <2>2 DEF Touch
      <4> QED
        BY <4>1, <4>3
    <3>4. CASE k = i
      <4>1. deltas'[k] = m /\ deltas'[k + 1] = deltas[k + 2] /\ deltas[i + 1] = deltas[k + 1]
        BY <2>1, <3>0, <3>4
      <4>2. deltas[k + 1].off \in Int /\ deltas[k + 1].len \in Int
              /\ deltas[k + 2].off \in Int /\ deltas[k + 2].len \in Int
        BY <3>0, <1>d DEF n
      <4>3. Touch(m, deltas[k + 2])
        BY <4>1, <4>2, <3>1, <2>2 DEF Touch
      <4> QED
        BY <4>1, <4>3
    <3>5. CASE k > i
      BY <2>1, <3>0, <3>1, <3>5
    <3> QED
      BY <3>0, <2>1, <3>2, <3>3, <3>4, <3>5
  <2>4. LastInside'
    <3>1. deltas # <<>> /\ n - 1 \in 1 .. n - 1 /\ n \in 1 .. n
      BY <2>1, <1>d
    <3>2. CASE i = n - 1
      <4>1. deltas'[n - 1] = m /\ deltas[i + 1] = deltas[n]
        BY <2>1, <3>1, <3>2
      <4>2. deltas[n].off \in Int /\ deltas[n].len \in Int
              /\ deltas[n].off <= last.off /\ last.off + last.len <= deltas[n].off + deltas[n].len
        <5>1. deltas[n].off \in Int /\ deltas[n].len \in Int
          BY <3>1, <1>d
        <5> QED
          BY <3>1, <5>1 DEF Contiguous, LastInside
      <4>3. m.off <= last.off /\ last.off + last.len <= m.off + m.len
        <5>1. m.off <= deltas[n].off /\ deltas[n].off + deltas[n].len <= m.off + m.len
          BY <4>1, <2>2
        <5> HIDE DEF n
        <5> QED
          BY <5>1, <4>2, <2>2, <1>l
      <4>4. Len(deltas') = n - 1 /\ last' = last
        BY <2>1
      <4> HIDE DEF n
      <4> QED
        BY <4>1, <4>3, <4>4 DEF LastInside
    <3>3. CASE i < n - 1
      <4>1. deltas'[n - 1] = deltas[n]
        BY <2>1, <3>1, <3>3
      <4> QED
        BY <4>1, <3>1, <2>1, <1>d, <1>l DEF Contiguous, LastInside
    <3> QED
      BY <3>2, <3>3, <2>1
  <2> QED
    BY <1>t, <2>1, <2>3, <2>4 DEF Contiguous, DeltasTouch
<1>4. ASSUME NEW i \in 1 .. MaxDeltas, CompactBase(i) PROVE Contiguous'
  <2>1. /\ i \in 1 .. Len(deltas) /\ i \in Int /\ last' = last
        /\ Len(deltas') = Len(deltas) - i
        /\ \A k \in 1 .. Len(deltas) - i : deltas'[k] = deltas[i + k]
    <3>1. /\ i \in Int /\ i <= Len(deltas) /\ last' = last
          /\ deltas' = SubSeq(deltas, i + 1, Len(deltas))
      BY <1>4 DEF CompactBase
    <3>2. i \in 1 .. Len(deltas)
      BY <1>d, <3>1
    <3>3. Len(SubSeq(deltas, i + 1, Len(deltas))) = Len(deltas) - i
      <4>1. deltas \in Seq(Segment)
        BY DEF Contiguous, TypeOK
      <4> QED
        BY <3>2, <4>1
    <3>4. ASSUME NEW k \in 1 .. Len(deltas) - i
          PROVE  SubSeq(deltas, i + 1, Len(deltas))[k] = deltas[i + k]
      BY <1>d, <3>2 DEF Contiguous, TypeOK
    <3> QED
      BY <3>1, <3>2, <3>3, <3>4
  <2>2. ASSUME NEW k \in 1 .. Len(deltas') - 1 PROVE Touch(deltas'[k], deltas'[k + 1])
    <3>1. /\ k \in 1 .. Len(deltas) - i /\ k + 1 \in 1 .. Len(deltas) - i
          /\ i + k \in 1 .. Len(deltas) - 1 /\ i + (k + 1) = (i + k) + 1
      BY <2>1, <1>d
    <3> QED
      BY <2>1, <3>1 DEF Contiguous, DeltasTouch
  <2>3. LastInside'
    <3> SUFFICES ASSUME deltas' # <<>> PROVE LastInside'
      BY DEF LastInside
    <3>1. Len(deltas) - i \in 1 .. Len(deltas) - i /\ i + (Len(deltas) - i) = Len(deltas) /\ deltas # <<>>
      BY <2>1, <1>d, <1>t DEF TypeOK
    <3>2. deltas'[Len(deltas')] = deltas[Len(deltas)]
      BY <2>1, <3>1
    <3> QED
      BY <2>1, <3>1, <3>2 DEF Contiguous, LastInside
  <2> QED
    BY <1>t, <2>2, <2>3 DEF Contiguous, DeltasTouch
<1>5. CASE UNCHANGED vars
  BY <1>5, <1>t DEF vars, Contiguous, DeltasTouch, LastInside
<1> QED
  BY <1>1, <1>2, <1>3, <1>4, <1>5 DEF Next

\* An extent without deltas has no gap between them.
LEMMA ContiguousInit == Init => Contiguous
BY TypedInit DEF Init, Contiguous, DeltasTouch, LastInside

\* When no write leaves a gap to the one before it, merging deltas never
\* creates one: what _merge zero-fills is always covered by data.
THEOREM NoGaps == ASSUME ~GapWrites PROVE Spec => []DeltasTouch
<1>1. Contiguous /\ [Next]_vars => Contiguous'
  BY ContiguousNext
<1>2. Contiguous => DeltasTouch
  BY DEF Contiguous
<1> QED
  BY ContiguousInit, <1>1, <1>2, PTL DEF Spec

-----------------------------------------------------------------------------
(* Refinement *)

\* The byte of two touching deltas at x is that of their merge.
LEMMA PartialMergeByte ==
    ASSUME NEW v \in Segment, NEW w \in Segment, Touch(v, w), NEW x \in Int
    PROVE  /\ Covers(PartialMerge(v, w), x) <=> Covers(v, x) \/ Covers(w, x)
           /\ Covers(w, x) => ByteAt(PartialMerge(v, w), x) = ByteAt(w, x)
           /\ Covers(v, x) /\ ~Covers(w, x) => ByteAt(PartialMerge(v, w), x) = ByteAt(v, x)
<1> DEFINE m == PartialMerge(v, w)
<1>1. /\ m.off \in Int /\ m.len \in Int /\ v.off \in Int /\ v.len \in Int
      /\ w.off \in Int /\ w.len \in Int
  BY PartialMergeSpan, SegmentFields
<1>2. /\ m.off <= v.off /\ v.off + v.len <= m.off + m.len
      /\ m.off <= w.off /\ w.off + w.len <= m.off + m.len
      /\ m.off = v.off \/ m.off = w.off
      /\ m.off + m.len = v.off + v.len \/ m.off + m.len = w.off + w.len
  BY PartialMergeSpan
<1>3. Covers(m, x) <=> Covers(v, x) \/ Covers(w, x)
  <2> HIDE DEF m
  <2> QED
    BY <1>1, <1>2 DEF Covers, Touch
<1>4. \A p \in 0 .. m.len - 1 :
        m.data[p] = IF Covers(w, m.off + p) THEN ByteAt(w, m.off + p)
                    ELSE IF Covers(v, m.off + p) THEN ByteAt(v, m.off + p) ELSE 0
  BY DEF PartialMerge, Combine
<1>5. Covers(m, x) => x - m.off \in 0 .. m.len - 1 /\ m.off + (x - m.off) = x
  <2> HIDE DEF m
  <2> QED
    BY <1>1 DEF Covers
<1>6. Covers(m, x) =>
        ByteAt(m, x) = IF Covers(w, x) THEN ByteAt(w, x)
                       ELSE IF Covers(v, x) THEN ByteAt(v, x) ELSE 0
  <2>1. Covers(m, x) => ByteAt(m, x) = m.data[x - m.off]
    BY DEF ByteAt
  <2> HIDE DEF m
  <2> QED
    BY <1>4, <1>5, <2>1
<1> HIDE DEF m
<1>7. /\ Covers(m, x) <=> Covers(v, x) \/ Covers(w, x)
      /\ Covers(w, x) => ByteAt(m, x) = ByteAt(w, x)
      /\ Covers(v, x) /\ ~Covers(w, x) => ByteAt(m, x) = ByteAt(v, x)
  BY <1>3, <1>6
<1> QED
  BY <1>7 DEF m

\* A flush or compaction that merges two touching deltas changes no byte.
LEMMA CompactDeltasKeeps ==
    ASSUME Contiguous, NEW i \in 1 .. MaxDeltas, CompactDeltas(i)
    PROVE  Get' = Get
<1> DEFINE n == Len(deltas)
           m == PartialMerge(deltas[i], deltas[i + 1])
<1>1. /\ deltas' \in Seq(Segment) /\ Len(deltas') = n - 1
      /\ n \in Nat /\ i + 1 <= n /\ i \in 1 .. n /\ i + 1 \in 1 .. n /\ i \in Int
      /\ deltas \in Seq(Segment)
      /\ DOMAIN deltas = 1 .. n /\ DOMAIN deltas' = 1 .. n - 1
      /\ base' = base
      /\ \A k \in 1 .. n : deltas[k] \in Segment
      /\ \A k \in 1 .. n - 1 :
           deltas'[k] = IF k < i THEN deltas[k] ELSE IF k = i THEN m ELSE deltas[k + 1]
  <2>1. deltas \in Seq(Segment)
    BY DEF Contiguous, TypeOK
  <2> QED
    BY <2>1, CompactDeltasSeq, ConstantsAssumption DEF Contiguous, CompactDeltas
<1>2. Touch(deltas[i], deltas[i + 1])
  BY <1>1 DEF Contiguous, DeltasTouch
<1> HIDE DEF n, m
<1> SUFFICES ASSUME NEW x \in 0 .. ExtSize - 1
             PROVE  FullMergeV2(base, deltas')[x] = FullMergeV2(base, deltas)[x]
  BY <1>1 DEF Get, FullMergeV2
<1>m. /\ Covers(m, x) <=> Covers(deltas[i], x) \/ Covers(deltas[i + 1], x)
      /\ Covers(deltas[i + 1], x) => ByteAt(m, x) = ByteAt(deltas[i + 1], x)
      /\ Covers(deltas[i], x) /\ ~Covers(deltas[i + 1], x) => ByteAt(m, x) = ByteAt(deltas[i], x)
  <2>1. deltas[i] \in Segment /\ deltas[i + 1] \in Segment /\ x \in Int
    BY <1>1
  <2> QED
    BY <2>1, <1>2, PartialMergeByte DEF m
<1>3. CASE Covering(deltas, x) = {}
  <2>1. \A k \in 1 .. n : ~Covers(deltas[k], x)
    BY <1>1, <1>3 DEF Covering
  <2>2. \A k \in 1 .. n - 1 : ~Covers(deltas'[k], x)
    <3> SUFFICES ASSUME NEW k \in 1 .. n - 1 PROVE ~Covers(deltas'[k], x)
      OBVIOUS
    <3>1. k \in 1 .. n /\ k + 1 \in 1 .. n
      BY <1>1
    <3> QED
      BY <3>1, <2>1, <1>1, <1>m
  <2>3. Covering(deltas', x) = {}
    BY <2>2, <1>1 DEF Covering
  <2> QED
    BY <1>3, <2>3, UncoveredByte
<1>4. CASE Covering(deltas, x) # {}
  <2>1. PICK c \in 1 .. n : IsNewest(deltas, c, x)
    BY <1>1, <1>4, SomeNewest DEF n
  <2>2. FullMergeV2(base, deltas)[x] = ByteAt(deltas[c], x)
    BY <1>1, <2>1, NewestByte
  <2>3. Covers(deltas[c], x) /\ \A k \in 1 .. n : Covers(deltas[k], x) => k <= c
    BY <1>1, <2>1 DEF IsNewest
  \* the place of operand c after the compaction
  <2> DEFINE c2 == IF c <= i THEN c ELSE c - 1
  <2>4. c2 \in 1 .. n - 1 /\ c \in Int
    BY <1>1
  <2>5. Covers(deltas'[c2], x) /\ ByteAt(deltas'[c2], x) = ByteAt(deltas[c], x)
    <3>1. CASE c < i
      BY <3>1, <1>1, <2>3, <2>4
    <3>2. CASE c = i
      <4>1. ~Covers(deltas[i + 1], x)
        BY <3>2, <2>3, <1>1
      <4>2. deltas'[c2] = m
        BY <3>2, <1>1, <2>4
      <4> QED
        BY <3>2, <4>1, <4>2, <2>3, <1>m
    <3>3. CASE c = i + 1
      <4>1. deltas'[c2] = m
        <5>1. c2 = i
          BY <3>3, <1>1
        <5> QED
          BY <5>1, <1>1, <2>4
      <4> QED
        BY <3>3, <4>1, <2>3, <1>m
    <3>4. CASE c > i + 1
      <4>1. deltas'[c2] = deltas[c]
        <5>1. c2 = c - 1 /\ c2 > i /\ c2 + 1 = c
          BY <3>4, <1>1, <2>4
        <5> QED
          BY <5>1, <1>1, <2>4
      <4> QED
        BY <4>1, <2>3
    <3> QED
      BY <3>1, <3>2, <3>3, <3>4, <1>1, <2>4
  <2>6. ASSUME NEW k \in 1 .. n - 1, Covers(deltas'[k], x) PROVE k <= c2
    <3>0. k \in Int /\ k \in 1 .. n /\ k + 1 \in 1 .. n
      BY <1>1
    <3>1. CASE k < i
      <4>1. k <= c
        BY <3>0, <3>1, <2>3, <2>6, <1>1
      <4> QED
        BY <4>1, <3>0, <3>1, <1>1, <2>4
    <3>2. CASE k = i
      <4>1. Covers(deltas[i], x) \/ Covers(deltas[i + 1], x)
        BY <3>2, <2>6, <1>1, <1>m
      <4>2. i <= c
        BY <4>1, <2>3, <1>1, <2>4
      <4> QED
        BY <4>2, <3>2, <1>1, <2>4
    <3>3. CASE k > i
      <4>1. k + 1 <= c
        BY <3>0, <3>3, <2>3, <2>6, <1>1
      <4> QED
        BY <4>1, <3>0, <3>3, <1>1, <2>4
    <3> QED
      BY <3>0, <1>1, <3>1, <3>2, <3>3
  <2> HIDE DEF c2
  <2>7. IsNewest(deltas', c2, x)
    BY <1>1, <2>4, <2>5, <2>6 DEF IsNewest
  <2>8. FullMergeV2(base, deltas')[x] = ByteAt(deltas'[c2], x)
    BY <1>1, <2>7, NewestByte
  <2> QED
    BY <2>2, <2>5, <2>8
<1> QED
  BY <1>3, <1>4

\* A compaction that merges the oldest deltas into the base changes no byte,
\* whatever gaps there are.
LEMMA CompactBaseKeeps ==
    ASSUME TypeOK, NEW i \in 1 .. MaxDeltas, CompactBase(i)
    PROVE  Get' = Get
<1> DEFINE n == Len(deltas)
           old == SubSeq(deltas, 1, i)
<1>1. deltas \in Seq(Segment) /\ n \in Nat /\ i \in 1 .. n /\ i \in Int /\ DOMAIN deltas = 1 .. n
  BY DEF TypeOK, CompactBase
<1>2. old \in Seq(Segment) /\ DOMAIN old = 1 .. i /\ \A k \in 1 .. i : old[k] = deltas[k]
  <2>1. deltas \in Seq(Segment) /\ i \in 1 .. Len(deltas)
    BY <1>1
  <2> QED
    BY <2>1
<1>3. /\ deltas' \in Seq(Segment) /\ DOMAIN deltas' = 1 .. n - i
      /\ \A k \in 1 .. n - i : deltas'[k] = deltas[i + k]
  <2>1. deltas \in Seq(Segment) /\ i \in 1 .. Len(deltas)
    BY <1>1
  <2>2. deltas' = SubSeq(deltas, i + 1, Len(deltas))
    BY DEF CompactBase
  <2> QED
    BY <2>1, <2>2
<1>4. base' = FullMergeV2(base, old) /\ Existing(base') = base'
  <2>1. base' = FullMergeV2(base, old)
    BY DEF CompactBase
  <2>2. 0 \in DOMAIN base'
    BY <2>1, ConstantsAssumption DEF FullMergeV2
  <2>3. base' # NoBase
    BY <2>2 DEF NoBase
  <2> QED
    BY <2>1, <2>3 DEF Existing
<1> HIDE DEF n, old
<1> SUFFICES ASSUME NEW x \in 0 .. ExtSize - 1
             PROVE  FullMergeV2(base', deltas')[x] = FullMergeV2(base, deltas)[x]
  BY DEF Get, FullMergeV2
<1>5. CASE Covering(deltas, x) = {}
  <2>1. \A k \in 1 .. n : ~Covers(deltas[k], x)
    BY <1>1, <1>5 DEF Covering
  <2>2. Covering(old, x) = {}
    BY <2>1, <1>1, <1>2 DEF Covering
  <2>3. Covering(deltas', x) = {}
    <3>1. \A k \in 1 .. n - i : i + k \in 1 .. n
      BY <1>1
    <3> QED
      BY <3>1, <2>1, <1>3 DEF Covering
  <2> QED
    BY <1>4, <1>5, <2>2, <2>3, UncoveredByte
<1>6. CASE Covering(deltas, x) # {}
  <2>1. PICK c \in 1 .. n : IsNewest(deltas, c, x)
    BY <1>1, <1>6, SomeNewest DEF n
  <2>2. FullMergeV2(base, deltas)[x] = ByteAt(deltas[c], x)
    BY <1>1, <2>1, NewestByte
  <2>3. Covers(deltas[c], x) /\ \A k \in 1 .. n : Covers(deltas[k], x) => k <= c
    BY <1>1, <2>1 DEF IsNewest
  <2>4. CASE c <= i
    <3>1. IsNewest(old, c, x) /\ old[c] = deltas[c]
      <4>1. c \in 1 .. i /\ \A k \in 1 .. i : k \in 1 .. n
        BY <2>4, <1>1
      <4> QED
        BY <4>1, <1>2, <2>3 DEF IsNewest
    <3>2. FullMergeV2(base, old)[x] = ByteAt(deltas[c], x)
      BY <3>1, <1>2, NewestByte
    <3>3. Covering(deltas', x) = {}
      <4>1. \A k \in 1 .. n - i : i + k \in 1 .. n /\ ~(i + k <= c)
        BY <1>1, <2>4
      <4> QED
        BY <4>1, <2>3, <1>3 DEF Covering
    <3> QED
      BY <2>2, <3>2, <3>3, <1>4, UncoveredByte
  <2>5. CASE c > i
    <3>1. c - i \in 1 .. n - i /\ i + (c - i) = c
      BY <1>1, <2>5
    <3>2. deltas'[c - i] = deltas[c]
      BY <3>1, <1>3
    <3>3. ASSUME NEW k \in 1 .. n - i, Covers(deltas'[k], x) PROVE k <= c - i
      <4>1. i + k \in 1 .. n /\ Covers(deltas[i + k], x)
        BY <1>1, <1>3, <3>3
      <4>2. i + k <= c
        BY <4>1, <2>3
      <4> QED
        BY <4>2, <1>1
    <3>4. IsNewest(deltas', c - i, x)
      BY <1>3, <2>3, <3>1, <3>2, <3>3 DEF IsNewest
    <3>5. deltas' \in Seq(Segment)
      BY <1>3
    <3>6. FullMergeV2(base', deltas')[x] = ByteAt(deltas'[c - i], x)
      BY <3>4, <3>5, NewestByte
    <3> QED
      BY <2>2, <3>2, <3>6
  <2> QED
    BY <2>4, <2>5, <1>1
<1> QED
  BY <1>5, <1>6

\* A segment put or merged replaces exactly the bytes it covers.
LEMMA WriteVisible ==
    ASSUME TypeOK, NEW s \in Segment, Write(s), NEW x \in 0 .. ExtSize - 1
    PROVE  Get'[x] = IF Covers(s, x) THEN ByteAt(s, x) ELSE Get[x]
<1>s. /\ s.off \in 0 .. ExtSize - 1 /\ s.len \in 1 .. ExtSize /\ s.off + s.len <= ExtSize
      /\ s.data \in [0 .. s.len - 1 -> Byte]
  BY SegmentFields
<1>1. CASE s.len = ExtSize
  <2>1. base' = s.data /\ deltas' = <<>>
    BY <1>1 DEF Write
  <2>2. s.off = 0 /\ Covers(s, x) /\ ByteAt(s, x) = s.data[x]
    BY <1>1, <1>s DEF Covers, ByteAt
  <2>3. Existing(s.data) = s.data
    <3>1. 0 \in DOMAIN s.data
      BY <1>s
    <3>2. s.data # NoBase
      BY <3>1 DEF NoBase
    <3> QED
      BY <3>2 DEF Existing
  <2>4. Covering(<<>>, x) = {}
    BY DEF Covering
  <2>5. FullMergeV2(s.data, <<>>)[x] = s.data[x]
    BY <2>3, <2>4, UncoveredByte
  <2> QED
    BY <2>1, <2>2, <2>5 DEF Get
<1>2. CASE s.len # ExtSize
  <2> DEFINE n == Len(deltas)
  <2>1. deltas \in Seq(Segment) /\ n \in Nat /\ DOMAIN deltas = 1 .. n
    BY DEF TypeOK
  <2>2. base' = base /\ deltas' = Append(deltas, s)
    BY <1>2 DEF Write
  <2>3. /\ deltas' \in Seq(Segment) /\ DOMAIN deltas' = 1 .. n + 1
        /\ deltas'[n + 1] = s /\ \A k \in 1 .. n : deltas'[k] = deltas[k]
    BY <2>1, <2>2
  <2>4. Get'[x] = FullMergeV2(base, deltas')[x]
    BY <2>2 DEF Get
  <2> HIDE DEF n
  <2>5. CASE Covers(s, x)
    <3>1. IsNewest(deltas', n + 1, x)
      BY <2>1, <2>3, <2>5 DEF IsNewest
    <3>2. FullMergeV2(base, deltas')[x] = ByteAt(deltas'[n + 1], x)
      BY <2>3, <3>1, NewestByte
    <3> QED
      BY <2>3, <2>4, <2>5, <3>2
  <2>6. CASE ~Covers(s, x) /\ Covering(deltas, x) = {}
    <3>1. Covering(deltas', x) = {}
      <4>1. \A k \in 1 .. n + 1 : k \in 1 .. n \/ k = n + 1
        BY <2>1
      <4> QED
        BY <2>1, <2>3, <2>6, <4>1 DEF Covering
    <3> QED
      BY <2>4, <2>6, <3>1, UncoveredByte DEF Get
  <2>7. CASE ~Covers(s, x) /\ Covering(deltas, x) # {}
    <3>1. PICK c \in 1 .. n : IsNewest(deltas, c, x)
      BY <2>1, <2>7, SomeNewest DEF n
    <3>2. IsNewest(deltas', c, x) /\ deltas'[c] = deltas[c]
      <4>1. \A k \in 1 .. n + 1 : k \in 1 .. n \/ k = n + 1
        BY <2>1
      <4>2. c \in 1 .. n + 1
        BY <2>1
      <4> QED
        <5>1. c \in DOMAIN deltas' /\ deltas'[c] = deltas[c] /\ Covers(deltas'[c], x)
          BY <2>1, <2>3, <3>1, <4>2 DEF IsNewest
        <5>2. \A j \in 1 .. n : Covers(deltas[j], x) => j <= c
          BY <2>1, <3>1 DEF IsNewest
        <5>3. \A j \in 1 .. n + 1 : Covers(deltas'[j], x) => j <= c
          BY <2>3, <2>7, <4>1, <5>2
        <5> QED
          BY <2>3, <5>1, <5>3 DEF IsNewest
    <3>3. FullMergeV2(base, deltas)[x] = ByteAt(deltas[c], x)
      BY <2>1, <3>1, NewestByte
    <3>4. FullMergeV2(base, deltas')[x] = ByteAt(deltas[c], x)
      <4>1. deltas' \in Seq(Segment)
        BY <2>3
      <4>2. FullMergeV2(base, deltas')[x] = ByteAt(deltas'[c], x)
        BY <3>2, <4>1, NewestByte
      <4> QED
        BY <3>2, <4>2
    <3> QED
      BY <2>4, <2>7, <3>3, <3>4 DEF Get
  <2> QED
    BY <2>5, <2>6, <2>7
<1> QED
  BY <1>1, <1>2

\* What is read from an extent without value and deltas.
LEMMA EmptyGet == ASSUME base = NoBase, deltas = <<>> PROVE Get = Blank
<1>1. \A x \in 0 .. ExtSize - 1 : Covering(<<>>, x) = {}
  BY DEF Covering
<1>2. \A x \in 0 .. ExtSize - 1 : FullMergeV2(NoBase, <<>>)[x] = Blank[x]
  BY <1>1, UncoveredByte DEF Existing
<1> QED
  BY <1>2 DEF Get, FullMergeV2, Blank

\* Every step of the extent is a step of the abstract one, or invisible.
LEMMA ExtentStep ==
    ASSUME Contiguous, [Next]_vars PROVE [Extent!Next]_<<Get, last>>
<1>t. TypeOK
  BY DEF Contiguous
<1>1. ASSUME NEW s \in Segment, Write(s) PROVE Extent!Write(s)
  <2>1. \A x \in 0 .. ExtSize - 1 : Get'[x] = IF Covers(s, x) THEN ByteAt(s, x) ELSE Get[x]
    BY <1>1, <1>t, WriteVisible
  <2>2. Get' = [x \in 0 .. ExtSize - 1 |-> IF Covers(s, x) THEN ByteAt(s, x) ELSE Get[x]]
    BY <2>1 DEF Get, FullMergeV2
  <2>3. last' = s
    BY <1>1 DEF Write
  <2> QED
    BY <2>2, <2>3 DEF Extent!Write, Covers, ByteAt
<1>2. CASE Erase
  <2>1. (base = NoBase /\ deltas = <<>>)' /\ last' = NoSegment
    BY <1>2 DEF Erase
  <2>2. (Get = Blank)'
    BY <2>1 DEF Get, FullMergeV2, Existing, Covering, Blank
  <2> QED
    BY <2>1, <2>2 DEF Extent!Next, Extent!Erase, NoSegment
<1>3. ASSUME NEW i \in 1 .. MaxDeltas, CompactDeltas(i) \/ CompactBase(i)
      PROVE  UNCHANGED <<Get, last>>
  <2>1. Get' = Get
    BY <1>3, <1>t, CompactDeltasKeeps, CompactBaseKeeps
  <2> QED
    BY <1>3, <2>1 DEF CompactDeltas, CompactBase
<1>4. CASE UNCHANGED vars
  BY <1>4 DEF vars, Get
<1> QED
  BY <1>1, <1>2, <1>3, <1>4 DEF Next, Extent!Next

\* When no write leaves a gap to the one before it, reading an extent through
\* the merge operator is reading a plain array of bytes: writes replace what
\* they cover and no flush or compaction, in any order, changes a byte.
THEOREM ExtentIsByteArray == ASSUME ~GapWrites PROVE Spec => ImplementsExtent
<1>1. Init => Extent!Init
  BY EmptyGet DEF Init, Extent!Init, NoSegment
<1>2. Contiguous /\ [Next]_vars => Contiguous'
  BY ContiguousNext
<1>3. Contiguous /\ [Next]_vars => [Extent!Next]_<<Get, last>>
  BY ExtentStep
<1> QED
  BY ContiguousInit, <1>1, <1>2, <1>3, PTL DEF Spec, ImplementsExtent, Extent!Spec

-----------------------------------------------------------------------------
(* The last write, with or without gaps *)

\* _merge keeps the bytes of the newer delta, also when there is a gap.
LEMMA PartialMergeNewer ==
    ASSUME NEW v \in Segment, NEW w \in Segment, NEW x \in Int, Covers(w, x)
    PROVE  /\ Covers(PartialMerge(v, w), x)
           /\ ByteAt(PartialMerge(v, w), x) = ByteAt(w, x)
<1> DEFINE m == PartialMerge(v, w)
<1>1. /\ m.off \in Int /\ m.len \in Int /\ w.off \in Int /\ w.len \in Int
      /\ m.off <= w.off /\ w.off + w.len <= m.off + m.len
  BY PartialMergeSpan, SegmentFields
<1>2. \A p \in 0 .. m.len - 1 :
        Covers(w, m.off + p) => m.data[p] = ByteAt(w, m.off + p)
  BY DEF PartialMerge, Combine
<1>3. ByteAt(m, x) = m.data[x - m.off]
  BY DEF ByteAt
<1> HIDE DEF m
<1>4. Covers(m, x) /\ x - m.off \in 0 .. m.len - 1 /\ m.off + (x - m.off) = x
  BY <1>1 DEF Covers
<1>5. ByteAt(m, x) = ByteAt(w, x)
  BY <1>2, <1>3, <1>4
<1> QED
  BY <1>4, <1>5 DEF m

\* Value v has the bytes of segment s at their offsets.
Holds(v, s) ==
    \A x \in 0 .. ExtSize - 1 :
        Covers(s, x) => Covers(v, x) /\ ByteAt(v, x) = ByteAt(s, x)

\* The last write is in the newest delta or, when there is none, in the base.
LastStored ==
    /\ TypeOK
    /\ IF deltas # <<>> THEN Holds(deltas[Len(deltas)], last)
       ELSE \A x \in 0 .. ExtSize - 1 : Covers(last, x) => Get[x] = ByteAt(last, x)

\* A delta that is newest of all prevails wherever it has a byte.
LEMMA NewestPrevails ==
    ASSUME TypeOK, deltas # <<>>, NEW x \in 0 .. ExtSize - 1,
           Covers(deltas[Len(deltas)], x)
    PROVE  Get[x] = ByteAt(deltas[Len(deltas)], x)
<1>1. deltas \in Seq(Segment) /\ Len(deltas) \in Nat /\ DOMAIN deltas = 1 .. Len(deltas)
      /\ Len(deltas) \in 1 .. Len(deltas)
  BY DEF TypeOK
<1>2. IsNewest(deltas, Len(deltas), x)
  BY <1>1 DEF IsNewest
<1> QED
  BY <1>1, <1>2, NewestByte DEF Get

\* Get shows the newest write at each byte that it covers.
LEMMA LastReadsBack ==
    ASSUME LastStored, NEW x \in 0 .. ExtSize - 1, Covers(last, x)
    PROVE  Get[x] = ByteAt(last, x)
<1>1. CASE deltas # <<>>
  BY <1>1, NewestPrevails DEF LastStored, Holds
<1>2. CASE deltas = <<>>
  BY <1>2 DEF LastStored
<1> QED
  BY <1>1, <1>2

\* The inductive form implies the invariant that TLC checks.
LEMMA LastStoredVisible == LastStored => LastWriteVisible
<1> SUFFICES ASSUME LastStored, NEW p \in 0 .. last.len - 1
             PROVE  Get[last.off + p] = last.data[p]
  BY DEF LastWriteVisible
<1>1. /\ last.off \in 0 .. ExtSize - 1 /\ last.len \in 1 .. ExtSize
      /\ last.off + last.len <= ExtSize
  BY SegmentFields DEF LastStored, TypeOK
<1>2. /\ last.off + p \in 0 .. ExtSize - 1 /\ Covers(last, last.off + p)
      /\ (last.off + p) - last.off = p
  BY <1>1, ConstantsAssumption DEF Covers
<1>3. Get[last.off + p] = ByteAt(last, last.off + p)
  BY <1>2, LastReadsBack
<1> QED
  BY <1>2, <1>3 DEF ByteAt

\* What CompactBase leaves of the deltas.
LEMMA Suffix ==
    ASSUME NEW ops \in Seq(Segment), NEW i \in 1 .. Len(ops)
    PROVE  /\ Len(SubSeq(ops, i + 1, Len(ops))) = Len(ops) - i
           /\ \A k \in 1 .. Len(ops) - i :
                 SubSeq(ops, i + 1, Len(ops))[k] = ops[i + k]
<1>1. Len(ops) \in Nat /\ i \in Nat
  OBVIOUS
<1>2. Len(SubSeq(ops, i + 1, Len(ops))) = Len(ops) - i
  BY <1>1
<1>3. ASSUME NEW k \in 1 .. Len(ops) - i
      PROVE  SubSeq(ops, i + 1, Len(ops))[k] = ops[i + k]
  BY <1>1
<1> QED
  BY <1>2, <1>3

\* A write, an erase and both compactions of RocksDB preserve it.
LEMMA LastStoredNext ==
    ASSUME LastStored, [Next]_vars PROVE LastStored'
<1>t. TypeOK /\ TypeOK'
  BY TypedNext DEF LastStored
<1>d. /\ deltas \in Seq(Segment) /\ Len(deltas) \in Nat
      /\ DOMAIN deltas = 1 .. Len(deltas)
      /\ \A k \in 1 .. Len(deltas) : deltas[k] \in Segment
      /\ deltas # <<>> => Len(deltas) \in 1 .. Len(deltas)
  BY <1>t DEF TypeOK
<1>1. ASSUME NEW s \in Segment, Write(s) PROVE LastStored'
  <2>1. CASE s.len # ExtSize
    <3>1. deltas' # <<>> /\ deltas'[Len(deltas')] = s /\ last' = s
      BY <1>1, <1>d, <2>1 DEF Write
    <3> QED
      BY <1>t, <3>1 DEF LastStored, Holds
  <2>2. CASE s.len = ExtSize
    <3>1. deltas' = <<>> /\ last' = s
      BY <1>1, <2>2 DEF Write
    <3>2. ASSUME NEW x \in 0 .. ExtSize - 1, Covers(s, x)
          PROVE  Get'[x] = ByteAt(s, x)
      BY <1>1, <1>t, <3>2, WriteVisible
    <3> QED
      BY <1>t, <3>1, <3>2 DEF LastStored
  <2> QED
    BY <2>1, <2>2
<1>2. CASE Erase
  <2>1. deltas' = <<>> /\ last' = NoSegment /\ base' = NoBase
    BY <1>2 DEF Erase
  <2>2. ASSUME NEW x \in 0 .. ExtSize - 1 PROVE Get'[x] = ByteAt(NoSegment, x)
    <3>1. Covering(deltas', x) = {}
      BY <2>1 DEF Covering
    <3>2. Get'[x] = Existing(NoBase)[x]
      BY <2>1, <3>1, UncoveredByte DEF Get
    <3> QED
      BY <3>2 DEF Existing, NoSegment, ByteAt, Blank
  <2> QED
    BY <1>t, <2>1, <2>2 DEF LastStored
<1>3. ASSUME NEW i \in 1 .. MaxDeltas, CompactDeltas(i) PROVE LastStored'
  <2> DEFINE n == Len(deltas)
  <2>1. /\ Len(deltas') = n - 1 /\ n \in Nat /\ i + 1 <= n /\ i \in Int /\ i >= 1
        /\ last' = last /\ n - 1 \in 1 .. n - 1
        /\ deltas'[n - 1] = IF n - 1 < i THEN deltas[n - 1]
                            ELSE IF n - 1 = i THEN PartialMerge(deltas[i], deltas[i + 1])
                            ELSE deltas[(n - 1) + 1]
        /\ deltas' # <<>> /\ deltas # <<>>
    <3>1. i + 1 <= n /\ i \in Int /\ i >= 1 /\ last' = last /\ n \in Nat
      BY <1>3, <1>d, ConstantsAssumption DEF CompactDeltas
    <3>2. n - 1 \in 1 .. n - 1
      BY <3>1
    <3>3. Len(deltas') = n - 1
      BY <1>3, <1>t, CompactDeltasSeq
    <3>4. n - 1 \in 1 .. Len(deltas')
      BY <3>2, <3>3
    <3>5. deltas'[n - 1] = IF n - 1 < i THEN deltas[n - 1]
                          ELSE IF n - 1 = i THEN PartialMerge(deltas[i], deltas[i + 1])
                          ELSE deltas[(n - 1) + 1]
      BY <1>3, <1>t, <3>4, CompactDeltasSeq
    <3>6. deltas' # <<>> /\ deltas # <<>>
      BY <1>d, <1>t, <3>1, <3>2, <3>3 DEF TypeOK
    <3> QED
      BY <3>1, <3>2, <3>3, <3>5, <3>6
  <2>2. Holds(deltas[n], last)
    BY <2>1 DEF LastStored
  <2>3. Holds(deltas'[n - 1], last)
    <3>1. CASE i = n - 1
      <4>1. deltas'[n - 1] = PartialMerge(deltas[i], deltas[n]) /\ i + 1 = n
        BY <2>1, <3>1
      <4>2. deltas[i] \in Segment /\ deltas[n] \in Segment
        BY <1>d, <2>1, <3>1
      <4> HIDE DEF n
      <4>3. \A x \in 0 .. ExtSize - 1 : x \in Int
        OBVIOUS
      <4> QED
        BY <2>2, <4>1, <4>2, <4>3, PartialMergeNewer DEF Holds
    <3>2. CASE i < n - 1
      <4>1. deltas'[n - 1] = deltas[n]
        BY <2>1, <3>2
      <4> QED
        BY <2>2, <4>1
    <3> QED
      BY <2>1, <3>1, <3>2
  <2>4. Holds(deltas'[Len(deltas')], last')
    BY <2>1, <2>3 DEF Holds
  <2> QED
    BY <1>t, <2>1, <2>4 DEF LastStored, Holds
<1>4. ASSUME NEW i \in 1 .. MaxDeltas, CompactBase(i) PROVE LastStored'
  <2>1. Get' = Get /\ last' = last
    BY <1>4, <1>t, CompactBaseKeeps DEF CompactBase
  <2>2. i <= Len(deltas) /\ deltas' = SubSeq(deltas, i + 1, Len(deltas)) /\ i \in Nat
    BY <1>4 DEF CompactBase
  <2>3. CASE deltas' # <<>>
    <3>1. /\ Len(deltas') = Len(deltas) - i
          /\ \A k \in 1 .. Len(deltas) - i : deltas'[k] = deltas[i + k]
      <4>1. i \in 1 .. Len(deltas)
        BY <1>d, <2>2
      <4> QED
        BY <1>d, <2>2, <4>1, Suffix
    <3>2. Len(deltas') \in Nat /\ Len(deltas') # 0
      BY <1>t, <2>3 DEF TypeOK
    <3>3. /\ Len(deltas) - i \in 1 .. Len(deltas) - i
          /\ i + (Len(deltas) - i) = Len(deltas) /\ Len(deltas) # 0
      <4>1. Len(deltas) \in Nat /\ i \in 1 .. MaxDeltas /\ i \in Nat
        BY <1>d, <2>2
      <4>2. Len(deltas) - i \in Nat /\ Len(deltas) - i # 0
        BY <3>1, <3>2
      <4> QED
        BY <4>1, <4>2, ConstantsAssumption
    <3>4. deltas'[Len(deltas')] = deltas[Len(deltas)] /\ deltas # <<>>
      BY <3>1, <3>3
    <3> QED
      BY <1>t, <2>1, <2>3, <3>4 DEF LastStored, Holds
  <2>4. CASE deltas' = <<>>
    <3>1. ASSUME NEW x \in 0 .. ExtSize - 1, Covers(last, x)
          PROVE  Get'[x] = ByteAt(last, x)
      BY <2>1, <3>1, LastReadsBack
    <3> QED
      BY <1>t, <2>1, <2>4, <3>1 DEF LastStored
  <2> QED
    BY <2>3, <2>4
<1>5. CASE UNCHANGED vars
  <2>1. Get' = Get /\ last' = last /\ deltas' = deltas
    BY <1>5 DEF vars, Get
  <2> QED
    BY <1>t, <2>1 DEF LastStored, Holds
<1> QED
  BY <1>1, <1>2, <1>3, <1>4, <1>5 DEF Next

\* An extent that was never written satisfies it.
LEMMA LastStoredInit == Init => LastStored
<1> SUFFICES ASSUME Init PROVE LastStored
  OBVIOUS
<1>1. ASSUME NEW x \in 0 .. ExtSize - 1 PROVE Get[x] = ByteAt(last, x)
  <2>1. Covering(deltas, x) = {}
    BY DEF Init, Covering
  <2>2. Get[x] = Existing(base)[x]
    BY <2>1, UncoveredByte DEF Get
  <2> QED
    BY <2>2 DEF Init, Existing, NoSegment, ByteAt, Blank
<1> QED
  BY <1>1, TypedInit DEF Init, LastStored

\* The last write or truncation of an extent reads back as it was made,
\* whatever was written before and however RocksDB groups its merges.
THEOREM LastWriteReadsBack == Spec => []LastWriteVisible
BY LastStoredInit, LastStoredNext, LastStoredVisible, PTL DEF Spec
=============================================================================
