--------------------------- MODULE MCTgApiLimiter ---------------------------
(***************************************************************************)
(* Instances of TgApiLimiter for TLC.                                      *)
(***************************************************************************)
EXTENDS TgApiLimiter, TLC

CallSymmetry == Permutations(Call)
=============================================================================
