---------------------------- MODULE ReadThrough ----------------------------
(***************************************************************************)
(* What a read-through cache in front of a database promises, with each    *)
(* transaction, fill and invalidation a single step.  Rows move on to      *)
(* versions nobody has seen before, all those of a transaction at once.    *)
(* An entry is filled from committed versions only.  A key whose rows have *)
(* moved on is in doubt, and so is one that was filled with less than the  *)
(* rows as they are; it is in doubt until it is filled again or gone: an   *)
(* entry that is not in doubt is what the rows say.                        *)
(***************************************************************************)
CONSTANTS
    Row, CacheKey,
    Reads,       \* Reads[k]: the rows an entry of k is computed from
    Invalidates, \* Invalidates[r]: the keys that follow row r
    NoEntry

VARIABLES
    store, \* version of each row
    seen,  \* the versions each row has had
    ever,  \* the versions of all transactions so far
    entry, \* what the cache holds
    doubt  \* keys whose entries may be behind their rows

vars == <<store, seen, ever, entry, doubt>>

Init ==
    /\ store = [r \in Row |-> 0]
    /\ seen = [r \in Row |-> {0}]
    /\ ever = {0}
    /\ entry = [k \in CacheKey |-> NoEntry]
    /\ doubt = {}

Follows(k, r) == r \in Reads[k] /\ k \in Invalidates[r]

Commit ==
    /\ ever \subseteq ever'
    /\ \A r \in Row : store'[r] = store[r] \/ store'[r] \in ever' \ ever
    /\ seen' = [r \in Row |-> seen[r] \union {store'[r]}]
    /\ doubt \subseteq doubt'
    /\ \A k \in CacheKey, r \in Row : Follows(k, r) /\ store'[r] # store[r] => k \in doubt'
    /\ UNCHANGED entry

Fill(k) ==
    /\ entry'[k] # NoEntry
    /\ entry' = [entry EXCEPT ![k] = entry'[k]]
    /\ \A r \in Row : entry'[k][r] \in IF k \in Invalidates[r] THEN seen[r] ELSE ever
    /\ \/ doubt' = doubt \union {k}
       \/ /\ doubt' = doubt \ {k}
          /\ \A r \in Row : Follows(k, r) => entry'[k][r] = store[r]
    /\ UNCHANGED <<store, seen, ever>>

Forget(k) ==
    /\ entry' = [entry EXCEPT ![k] = NoEntry]
    /\ doubt' \in {doubt, doubt \ {k}}
    /\ UNCHANGED <<store, seen, ever>>

Next == Commit \/ \E k \in CacheKey : Fill(k) \/ Forget(k)

Spec == Init /\ [][Next]_vars
=============================================================================
