------------------------ MODULE SuggestionLifecycle ------------------------
(***************************************************************************)
(* What Kita promises about a suggestion, whoever moderates it and however *)
(* their handlers interleave: it is submitted once, gets at most one       *)
(* verdict and keeps it, and its publication task is enqueued at most once *)
(* and only after an acceptance.                                           *)
(***************************************************************************)
EXTENDS Naturals

CONSTANT Suggestion

VARIABLES verdict,   \* "absent", "pending", "accepted" or "declined"
          dispatched \* publication tasks enqueued

vars == <<verdict, dispatched>>

Init ==
    /\ verdict = [x \in Suggestion |-> "absent"]
    /\ dispatched = [x \in Suggestion |-> 0]

Submit(x) ==
    /\ verdict[x] = "absent"
    /\ verdict' = [verdict EXCEPT ![x] = "pending"]
    /\ UNCHANGED dispatched

Accept(x) ==
    /\ verdict[x] = "pending"
    /\ verdict' = [verdict EXCEPT ![x] = "accepted"]
    /\ UNCHANGED dispatched

\* One admin declines one suggestion, or a ban declines all its author has pending.
Decline(S) ==
    /\ \A x \in S : verdict[x] = "pending"
    /\ verdict' = [x \in Suggestion |-> IF x \in S THEN "declined" ELSE verdict[x]]
    /\ UNCHANGED dispatched

Dispatch(x) ==
    /\ verdict[x] = "accepted" /\ dispatched[x] = 0
    /\ dispatched' = [dispatched EXCEPT ![x] = 1]
    /\ UNCHANGED verdict

Next ==
    \/ \E x \in Suggestion : Submit(x) \/ Accept(x) \/ Dispatch(x)
    \/ \E S \in SUBSET Suggestion : Decline(S)

Spec == Init /\ [][Next]_vars
=============================================================================
