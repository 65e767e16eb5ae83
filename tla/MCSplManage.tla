---------------------------- MODULE MCSplManage ----------------------------
(***************************************************************************)
(* Instances of SplManage for TLC.                                         *)
(***************************************************************************)
EXTENDS SplManage, TLC

Symmetry == Permutations(Calls)
=============================================================================
