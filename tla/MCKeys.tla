------------------------------- MODULE MCKeys -------------------------------
(***************************************************************************)
(* Names for VnKeys: "a", "3a" and "3_a", which together with directories  *)
(* 2 and 23 give keys that differ in the place of '_' only.                *)
(***************************************************************************)
EXTENDS VnKeys

SampleNames == {<<97>>, <<51, 97>>, <<51, 95, 97>>}
=============================================================================
