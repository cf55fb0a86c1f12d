---------------------------- MODULE VnDirectory ----------------------------
(***************************************************************************)
(* What the name space promises its callers: a directory that survives     *)
(* crashes, in which a name is created only where there is none, under an  *)
(* inode number that was never used before, and leaves only by being       *)
(* unlinked.  Threads, transactions, locks, the seed and crashes of        *)
(* VnNamespace do not show here.                                           *)
(***************************************************************************)
CONSTANTS Key, Ino, NoIno

VARIABLES dirent, used

Init == dirent = [k \in Key |-> NoIno] /\ used = {}

Create(k, i) ==
    /\ dirent[k] = NoIno /\ i \notin used
    /\ dirent' = [dirent EXCEPT ![k] = i]
    /\ used' = used \cup {i}

Unlink(k) ==
    /\ dirent[k] # NoIno
    /\ dirent' = [dirent EXCEPT ![k] = NoIno]
    /\ UNCHANGED used

Next ==
    \/ \E k \in Key, i \in Ino : Create(k, i)
    \/ \E k \in Key : Unlink(k)

Spec == Init /\ [][Next]_<<dirent, used>>
=============================================================================
