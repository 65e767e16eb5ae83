-------------------------- MODULE MCSerialisedMint --------------------------
(***************************************************************************)
(* Instances of SerialisedMint for TLC.  Calls are interchangeable, and so *)
(* are sends.                                                              *)
(***************************************************************************)
EXTENDS SerialisedMint, TLC

Symmetry == Permutations(Calls) \cup Permutations(Sends)
=============================================================================
