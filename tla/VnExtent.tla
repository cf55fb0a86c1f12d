------------------------------ MODULE VnExtent ------------------------------
(***************************************************************************)
(* What an extent promises: an array of bytes, zero where nothing was      *)
(* written, that changes only when it is written or erased, a write        *)
(* replacing exactly the bytes it covers.  `last' is the last segment      *)
(* written (all zeros after an erase): it makes a change of the content    *)
(* attributable to the write that caused it.                               *)
(***************************************************************************)
EXTENDS Integers

CONSTANTS ExtSize, Segment, NoSegment

VARIABLES content, last

Init == content = NoSegment.data /\ last = NoSegment

Write(s) ==
    /\ last' = s
    /\ content' = [p \in 0 .. ExtSize - 1 |->
                     IF s.off <= p /\ p < s.off + s.len
                       THEN s.data[p - s.off] ELSE content[p]]

Erase == content' = NoSegment.data /\ last' = NoSegment

Next == (\E s \in Segment : Write(s)) \/ Erase

Spec == Init /\ [][Next]_<<content, last>>
=============================================================================
