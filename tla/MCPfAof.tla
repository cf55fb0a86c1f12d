------------------------------ MODULE MCPfAof ------------------------------
(***************************************************************************)
(* VnPfAof for TLC.  Neither names nor handles have a meaning beyond       *)
(* identity, so both sets are symmetric.                                   *)
(***************************************************************************)
EXTENDS VnPfAof, TLC

Symmetry == Permutations(Name) \cup Permutations(Handle)
=============================================================================
