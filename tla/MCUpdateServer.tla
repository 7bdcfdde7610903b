--------------------------- MODULE MCUpdateServer ---------------------------
(***************************************************************************)
(* Instances of UpdateServer for TLC.                                      *)
(***************************************************************************)
EXTENDS UpdateServer

MCBotOf == [u \in Update |-> IF u \in Part THEN "b1" ELSE "b2"]

\* Bound: only the userbot of the album has its token replaced, and then
\* nothing fails.
Bound == live["b2"] = 0 /\ live["b1"] + faults <= 1
=============================================================================
