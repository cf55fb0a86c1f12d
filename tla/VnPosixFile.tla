---------------------------- MODULE VnPosixFile ----------------------------
(***************************************************************************)
(* What a file promises to its readers and writers: it is a sequence of    *)
(* bytes.  A write replaces bytes or appends to them, with zeros in a gap; *)
(* a read returns the bytes that are there; opening with O_TRUNC removes   *)
(* them all.  `call' is the call made last, with its arguments.            *)
(***************************************************************************)
EXTENDS Integers, Sequences

VARIABLES bytes, call, result

NoCall == [op |-> "none"]
NoResult == [len |-> 0, data |-> <<>>]

Init == bytes = <<>> /\ call = NoCall /\ result = NoResult

Written(off, data) ==
    LET end == off + Len(data)
    IN  [i \in 1 .. (IF end > Len(bytes) THEN end ELSE Len(bytes)) |->
            IF i \in off + 1 .. end THEN data[i - off]
            ELSE IF i <= Len(bytes) THEN bytes[i] ELSE 0]

Write ==
    /\ call'.op = "write"
    /\ bytes' = IF call'.data = <<>> THEN bytes ELSE Written(call'.off, call'.data)
    /\ result' = [len |-> Len(call'.data), data |-> <<>>]

Read ==
    /\ call'.op = "read"
    /\ LET end == call'.off + call'.len
           data == SubSeq(bytes, call'.off + 1, IF end > Len(bytes) THEN Len(bytes) ELSE end)
       IN  result' = [len |-> Len(data), data |-> data]
    /\ UNCHANGED bytes

Truncate ==
    /\ call'.op = "trunc"
    /\ bytes' = <<>> /\ result' = NoResult

Next == Write \/ Read \/ Truncate

Spec == Init /\ [][Next]_<<bytes, call, result>>
=============================================================================
