------------------------------ MODULE MCFileIO ------------------------------
(* Small instances of VnFileIO for TLC. *)
EXTENDS VnFileIO, TLC

\* The specification treats all threads, files and inodes alike.
Symmetry == Permutations(Thread) \cup Permutations(Handle) \cup Permutations(Copy)
=============================================================================
