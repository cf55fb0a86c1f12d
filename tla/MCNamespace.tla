---------------------------- MODULE MCNamespace ----------------------------
(***************************************************************************)
(* Instances of VnNamespace for TLC.                                       *)
(***************************************************************************)
EXTENDS VnNamespace, TLC

\* Threads and names are interchangeable.
Symmetry == Permutations(Thread) \cup Permutations(Name)
=============================================================================
