----------------------------- MODULE MCUserAuth -----------------------------
(***************************************************************************)
(* Instances of UserAuth for TLC.  The sign-in requests are                *)
(* interchangeable, and so are the guarded calls.                          *)
(***************************************************************************)
EXTENDS UserAuth, TLC

Symmetry == Permutations(Requests) \cup Permutations(Guards)
=============================================================================
