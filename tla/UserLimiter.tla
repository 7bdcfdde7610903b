----------------------------- MODULE UserLimiter -----------------------------
(***************************************************************************)
(* The token bucket of a user (core/rate_limiters/limiter.py): the Lua     *)
(* script that Redis runs as one step for every update of the user, in any *)
(* process and on any replica, over two keys with a time to live.          *)
(*                                                                         *)
(* Tokens are counted in the ticks they take to refill: one token is Cost  *)
(* ticks, 1 / rate, and a full bucket MaxTokens * Cost.  A key whose time  *)
(* to live is over is absent.  An attempt during a pause writes nothing,   *)
(* and so is no step at all.                                               *)
(***************************************************************************)
EXTENDS RedisClock

CONSTANTS
    Cost,      \* ticks to refill one token
    MaxTokens, \* capacity of the bucket
    Buffer     \* PAUSE_BUFFER_MS

ASSUME LimiterAssumption ==
    /\ Cost \in Nat \ {0} /\ MaxTokens \in Nat \ {0}
    /\ Buffer \in Nat

VARIABLES
    bucket,   \* the hash of limit_key and when it expires
    pause,    \* the value of pause_key and when it expires
    spending, \* history: since when one allowed attempt, any of them, is observed,
              \*   and the tokens spent from it on, itself included
    warnings  \* history: warnings since an attempt was last allowed

userVars == <<now, bucket, pause, spending, warnings>>

Full == MaxTokens * Cost

\* Mutant: the bucket lives as long as one token takes to refill.
MutBucketTtl == Ceil(Cost, Second) + Second

BucketTtl == Ceil(Full, Second) + Second

Tokens ==
    LET refilled == bucket.tokens + (now - bucket.ts)
    IN  IF now < bucket.expires /\ refilled < Full THEN refilled ELSE Full

Paused == now < pause.expires /\ now < pause.until

NothingSpent == [since |-> 0, spent |-> 0]

UserInit ==
    /\ now = 0
    /\ bucket = [tokens |-> 0, ts |-> 0, expires |-> 0]
    /\ pause = [until |-> 0, expires |-> 0]
    /\ spending = NothingSpent /\ warnings = 0

(***************************************************************************)
(* The two outcomes of the script that write: {1, 0, 0} and {0, wait, 0},  *)
(* which RateLimitMiddleware answers with a warning.                       *)
(***************************************************************************)
Allow ==
    /\ ~Paused /\ Tokens >= Cost
    /\ bucket' = [tokens |-> Tokens - Cost, ts |-> now, expires |-> now + BucketTtl]
    /\ \/ spending = NothingSpent /\ spending' = [since |-> now, spent |-> Cost]
       \/ spending = NothingSpent /\ UNCHANGED spending
       \/ spending # NothingSpent /\ spending' = [spending EXCEPT !.spent = @ + Cost]
    /\ warnings' = 0
    /\ UNCHANGED <<now, pause>>

\* Mutant: the pause is the buffer alone.
MutWarn ==
    /\ ~Paused /\ Tokens < Cost
    /\ bucket' = [tokens |-> Tokens, ts |-> now, expires |-> now + BucketTtl]
    /\ pause' = [until |-> now + Buffer, expires |-> now + Ceil(Buffer, Second) + Second]
    /\ warnings' = warnings + 1
    /\ UNCHANGED <<now, spending>>

Warn ==
    LET wait == Ceil(Cost - Tokens, Milli) + Buffer
    IN  /\ ~Paused /\ Tokens < Cost
        /\ bucket' = [tokens |-> Tokens, ts |-> now, expires |-> now + BucketTtl]
        /\ pause' = [until |-> now + wait, expires |-> now + Ceil(wait, Second) + Second]
        /\ warnings' = warnings + 1
        /\ UNCHANGED <<now, spending>>

UserTick ==
    /\ TimePasses
    /\ UNCHANGED <<bucket, pause, spending, warnings>>

UserNext == Allow \/ Warn \/ UserTick

UserSpec == UserInit /\ [][UserNext]_userVars

-----------------------------------------------------------------------------
(***************************************************************************)
(* Types; the bucket never holds more than it can.                         *)
(***************************************************************************)
UserTypeOK ==
    /\ now \in Nat /\ warnings \in Nat
    /\ bucket \in [tokens : 0 .. Full, ts : 0 .. now, expires : Nat]
    /\ pause \in [until : Nat, expires : Nat]
    /\ spending \in [since : 0 .. now, spent : Nat]

(***************************************************************************)
(* From any allowed attempt on, at any later time, a user has been given   *)
(* no more than a full bucket and what refilled meanwhile, expired keys    *)
(* and pauses in between included: a bucket expires only when it would be  *)
(* full again.                                                             *)
(***************************************************************************)
WindowBound == spending.spent <= Full + (now - spending.since)

(***************************************************************************)
(* A user is warned once, then silently ignored, then let through: when    *)
(* the announced pause is over a token is there, so that no second warning *)
(* follows the first without an allowed attempt in between ("the only one  *)
(* allowed to warn", limiter.py:10).                                       *)
(***************************************************************************)
OneWarning == warnings <= 1
=============================================================================
