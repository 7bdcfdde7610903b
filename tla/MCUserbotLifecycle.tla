------------------------ MODULE MCUserbotLifecycle ------------------------
(***************************************************************************)
(* Instances of UserbotLifecycle for TLC.                                  *)
(***************************************************************************)
EXTENDS UserbotLifecycle, FiniteSetsExt, TLC

CONSTANT Spare \* userbots that are only registered, to fill the limit

ChatAndUpdateSymmetry == Permutations(Update) \union Permutations(Chat)

(***************************************************************************)
(* A new token or a fault, and of the spare userbots the registration.     *)
(***************************************************************************)
Bound ==
    /\ MapThenSumSet(LAMBDA b : live[b], Userbot) + faults <= 1
    /\ \A b \in Spare : live[b] = 0 /\ rights[b] = Channel /\ task[b].at \in {"none", "queued"}
    /\ \A d \in Chat : owner[d].bot \in Spare => owner[d].at \in {"channel", "create", "created"}
    /\ \A u \in Update : update[u].bot \notin Spare
=============================================================================
