---------------------------- MODULE MCModeration ----------------------------
(***************************************************************************)
(* Instances of Moderation for TLC.                                        *)
(***************************************************************************)
EXTENDS Moderation, TLC

CONSTANTS owner, author

MCOneAuthor == [x \in Suggestion |-> author]
MCUser == {owner, author}
HandlerSymmetry == Permutations(Handler)

Void == {x \in Suggestion : status[x] = "void"}

(***************************************************************************)
(* Bound: one submission is rolled back, or commits after a ban, or its    *)
(* acceptance fails before its task.  Once the author is an admin too      *)
(* there is one suggestion, and two admins and no one else walk through    *)
(* it, neither writing to the author nor changing roles but by a demotion. *)
(***************************************************************************)
AdminBound ==
    /\ Cardinality(lost) + Cardinality(raced) + Cardinality(Void) <= 1
    /\ everAdmin # {Owner} =>
          /\ \A x \in Suggestion \ {1} : status[x] = "absent"
          /\ lost = {} /\ raced = {}
          /\ \A h \in Handler : job[h].op \notin {"submit", "message", "back", "ban", "admin"}
=============================================================================
