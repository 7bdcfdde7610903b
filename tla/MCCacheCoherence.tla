------------------------- MODULE MCCacheCoherence -------------------------
(***************************************************************************)
(* Instances of CacheCoherence for TLC: the user and user_profile rows of  *)
(* one Telegram user and the keys computed from them.                      *)
(*   kUser     user:<id>            select of the user row                 *)
(*   kProfile  user_profile:<id>    profile joined with its user           *)
(*   kCount    user_profile:active  an aggregate, invalidated by nothing   *)
(***************************************************************************)
EXTENDS CacheCoherence, TLC

CONSTANTS user, profile, kUser, kProfile, kCount

MCReads == (kUser :> {user}) @@ (kProfile :> {profile, user}) @@ (kCount :> {profile})
MCReadsOf == [k \in CacheKey |-> MCReads[k]]
MCInvalidates == (user :> {kUser}) @@ (profile :> {kProfile})
MCInvalidatesOf == [r \in Row |-> MCInvalidates[r] \intersect CacheKey]
MCPrimary == (kUser :> user) @@ (kProfile :> profile) @@ (kCount :> NoRow)
MCPrimaryOf == [k \in CacheKey |-> MCPrimary[k]]

SessionSymmetry == Permutations(Session)
=============================================================================
