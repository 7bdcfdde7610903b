--------------------------- MODULE MCUserColumns ---------------------------
(***************************************************************************)
(* Instances of UserColumns for TLC.                                       *)
(***************************************************************************)
EXTENDS UserColumns, TLC

RequestSymmetry == Permutations(Request)
=============================================================================
