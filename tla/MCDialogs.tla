----------------------------- MODULE MCDialogs -----------------------------
(***************************************************************************)
(* Instances of Dialogs for TLC.                                           *)
(***************************************************************************)
EXTENDS Dialogs

SlotSymmetry == Permutations(Slot)

(***************************************************************************)
(* Bound: the user is not banned, and only the profile of an admin gets    *)
(* into Redis; while one is there one target is selected at most, and no   *)
(* tap is under way beside an update that has got a stale one.             *)
(***************************************************************************)
Bound ==
    /\ role # "BANNED" /\ entry \in {None, "ADMIN"}
    /\ entry # None => \A i \in DOMAIN stack : stack[i].target # "t2"
    /\ \A u, v \in Slot : u # v /\ upd[u].demoted => upd[v].kind # "tap"
=============================================================================
