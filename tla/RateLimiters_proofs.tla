------------------------ MODULE RateLimiters_proofs ------------------------
(***************************************************************************)
(* Theorems about the two rate limiters.  UserLimiter, for every rate,     *)
(* capacity, buffer and unit of time; and TgApiLimiter, for every rate,    *)
(* burst, number of calls, chats and retries.                              *)
(***************************************************************************)
EXTENDS UserLimiter, TgApiLimiter, FiniteSetTheorems, TLAPS

LEMMA CeilIsAbove ==
    ASSUME NEW t \in Nat, NEW unit \in Nat \ {0}
    PROVE  Ceil(t, unit) \in Nat /\ Ceil(t, unit) >= t
  BY SMT DEF Ceil

-----------------------------------------------------------------------------
LEMMA Sizes ==
    /\ Cost \in Nat \ {0} /\ Second \in Nat \ {0} /\ Milli \in Nat \ {0} /\ Buffer \in Nat
    /\ Full \in Nat /\ Full >= Cost
    /\ BucketTtl \in Nat /\ BucketTtl > Full
  <1>1. /\ Cost \in Nat \ {0} /\ MaxTokens \in Nat \ {0}
        /\ Second \in Nat \ {0} /\ Milli \in Nat \ {0} /\ Buffer \in Nat
    BY LimiterAssumption, TimeAssumption
  <1>2. Full \in Nat /\ Full >= Cost
    BY <1>1, SMT DEF Full
  <1>3. Ceil(Full, Second) \in Nat /\ Ceil(Full, Second) >= Full
    BY <1>1, <1>2, CeilIsAbove
  <1> QED BY <1>1, <1>2, <1>3, SMT DEF BucketTtl

(***************************************************************************)
(* The inductive invariant.  A bucket outlives the time it takes to fill   *)
(* up; what was spent and what is left never exceed a full bucket and the  *)
(* refill since; and a pause that was announced ends when the bucket has a *)
(* token again.                                                            *)
(***************************************************************************)
BucketInv == bucket.expires = 0 \/ bucket.expires = bucket.ts + BucketTtl

SpendingInv == spending.spent + Tokens <= Full + (now - spending.since)

PauseInv ==
    /\ warnings \in {0, 1}
    /\ warnings = 1 =>
          /\ pause.until < pause.expires
          /\ bucket.tokens + (pause.until - bucket.ts) >= Cost

UserIInv == UserTypeOK /\ BucketInv /\ SpendingInv /\ PauseInv

LEMMA TokensInRange ==
    ASSUME UserTypeOK
    PROVE  Tokens \in 0 .. Full
  BY Sizes, SMT DEF UserTypeOK, Tokens

(***************************************************************************)
(* A live bucket written now holds what was written; a tick adds at most   *)
(* one unit.                                                               *)
(***************************************************************************)
LEMMA TokensWritten ==
    ASSUME UserTypeOK, NEW n \in 0 .. Full, now' = now,
           bucket' = [tokens |-> n, ts |-> now, expires |-> now + BucketTtl]
    PROVE  Tokens' = n
  BY Sizes, SMT DEF UserTypeOK, Tokens

LEMMA TokensTick ==
    ASSUME UserIInv, UserTick
    PROVE  Tokens' <= Tokens + 1 /\ Tokens' \in 0 .. Full
  BY Sizes, SMT DEF UserIInv, UserTypeOK, BucketInv, Tokens, UserTick, TimePasses

LEMMA UserInitInv == UserInit => UserIInv
  <1> SUFFICES ASSUME UserInit PROVE UserIInv
    OBVIOUS
  <1>1. UserTypeOK
    BY Sizes, SMT DEF UserInit, UserTypeOK, NothingSpent
  <1>2. BucketInv /\ PauseInv
    BY DEF UserInit, BucketInv, PauseInv
  <1>3. SpendingInv
    BY <1>1, TokensInRange, Sizes, SMT DEF UserInit, SpendingInv, NothingSpent
  <1> QED BY <1>1, <1>2, <1>3 DEF UserIInv

LEMMA AllowInv == UserIInv /\ Allow => UserIInv'
  <1> SUFFICES ASSUME UserIInv, Allow PROVE UserIInv'
    OBVIOUS
  <1> UserTypeOK /\ BucketInv /\ SpendingInv /\ PauseInv
    BY DEF UserIInv
  <1>1. Tokens \in 0 .. Full /\ Tokens >= Cost
    BY TokensInRange DEF Allow
  <1>2. Tokens' = Tokens - Cost
    <2>1. Tokens - Cost \in 0 .. Full
      BY <1>1, Sizes, SMT
    <2> QED BY <2>1, TokensWritten DEF Allow
  <1>3. spending' \in [since : 0 .. now, spent : Nat]
    BY Sizes, SMT DEF Allow, UserTypeOK
  <1>4. UserTypeOK'
    BY <1>1, <1>3, Sizes, SMT DEF Allow, UserTypeOK
  <1>5. BucketInv' /\ PauseInv'
    BY DEF Allow, BucketInv, PauseInv
  <1>6. SpendingInv'
    <2>1. spending'.spent <= Full - (Tokens - Cost) + (now - spending'.since)
      BY <1>1, Sizes, SMT DEF Allow, UserTypeOK, SpendingInv, NothingSpent
    <2> QED BY <1>1, <1>2, <1>3, <2>1, Sizes, SMT DEF Allow, UserTypeOK, SpendingInv
  <1> QED BY <1>4, <1>5, <1>6 DEF UserIInv

LEMMA WarnInv == UserIInv /\ Warn => UserIInv'
  <1> SUFFICES ASSUME UserIInv, Warn PROVE UserIInv'
    OBVIOUS
  <1> UserTypeOK /\ BucketInv /\ SpendingInv /\ PauseInv
    BY DEF UserIInv
  <1> DEFINE wait == Ceil(Cost - Tokens, Milli) + Buffer
  <1>1. Tokens \in 0 .. Full /\ Tokens < Cost /\ Cost - Tokens \in Nat
    BY TokensInRange, Sizes, SMT DEF Warn
  <1>2. Tokens' = Tokens
    BY <1>1, TokensWritten DEF Warn
  <1>3. wait \in Nat /\ wait >= Cost - Tokens
    BY <1>1, CeilIsAbove, Sizes, SMT
  <1>4. /\ bucket' = [tokens |-> Tokens, ts |-> now, expires |-> now + BucketTtl]
        /\ pause' = [until |-> now + wait, expires |-> now + Ceil(wait, Second) + Second]
        /\ warnings' = warnings + 1 /\ now' = now /\ spending' = spending
    BY DEF Warn
  <1> HIDE DEF wait
  <1>5. Ceil(wait, Second) \in Nat /\ Ceil(wait, Second) >= wait
    BY <1>3, CeilIsAbove, Sizes
  <1>6. UserTypeOK'
    BY <1>1, <1>3, <1>4, <1>5, Sizes, SMT DEF UserTypeOK
  <1>7. BucketInv'
    BY <1>4 DEF BucketInv
  <1>8. SpendingInv'
    BY <1>2, <1>4 DEF SpendingInv
  <1>9. PauseInv'
    <2>1. warnings = 0
      <3> SUFFICES ASSUME warnings = 1 PROVE FALSE
        BY DEF PauseInv
      <3>1. now >= pause.until
        BY SMT DEF Warn, Paused, PauseInv, UserTypeOK
      <3>2. Tokens >= Cost
        BY <3>1, Sizes, SMT DEF Tokens, PauseInv, UserTypeOK
      <3> QED BY <1>1, <3>2, Sizes, SMT
    <2> QED BY <1>1, <1>3, <1>4, <1>5, <2>1, Sizes, SMT DEF PauseInv, UserTypeOK
  <1> QED BY <1>6, <1>7, <1>8, <1>9 DEF UserIInv

LEMMA UserTickInv == UserIInv /\ UserTick => UserIInv'
  <1> SUFFICES ASSUME UserIInv, UserTick PROVE UserIInv'
    OBVIOUS
  <1>1. Tokens' <= Tokens + 1 /\ Tokens' \in 0 .. Full /\ Tokens \in 0 .. Full
    BY TokensTick, TokensInRange DEF UserIInv
  <1>2. UserTypeOK'
    BY SMT DEF UserIInv, UserTypeOK, UserTick, TimePasses
  <1>3. BucketInv' /\ PauseInv'
    BY DEF UserIInv, BucketInv, PauseInv, UserTick, TimePasses
  <1>4. SpendingInv'
    BY <1>1, Sizes, SMT DEF UserIInv, UserTypeOK, SpendingInv, UserTick, TimePasses
  <1> QED BY <1>2, <1>3, <1>4 DEF UserIInv

LEMMA UserStutterInv == UserIInv /\ UNCHANGED userVars => UserIInv'
  BY DEF userVars, UserIInv, UserTypeOK, BucketInv, SpendingInv, PauseInv, Tokens

LEMMA UserInvariance == UserSpec => []UserIInv
  <1>1. UserIInv /\ [UserNext]_userVars => UserIInv'
    BY AllowInv, WarnInv, UserTickInv, UserStutterInv DEF UserNext
  <1> QED BY UserInitInv, <1>1, PTL DEF UserSpec

(***************************************************************************)
(* Types: the bucket never holds more tokens than its capacity, and was    *)
(* never written in the future (BUCKET_SCRIPT).                            *)
(***************************************************************************)
THEOREM UserTypeCorrect == UserSpec => []UserTypeOK
  BY UserInvariance, PTL DEF UserIInv

(***************************************************************************)
(* No user is let through more often than the capacity and the rate allow, *)
(* over any span of time and across the expiry of the bucket (the EXPIRE   *)
(* of BUCKET_SCRIPT).                                                      *)
(***************************************************************************)
THEOREM RateIsBounded == UserSpec => []WindowBound
  <1>1. UserIInv => WindowBound
    <2> SUFFICES ASSUME UserIInv PROVE WindowBound
      OBVIOUS
    <2>1. Tokens \in 0 .. Full
      BY TokensInRange DEF UserIInv
    <2> QED BY <2>1, Sizes, SMT DEF UserIInv, UserTypeOK, SpendingInv, WindowBound
  <1> QED BY UserInvariance, <1>1, PTL

(***************************************************************************)
(* A denied user is warned once per pause: the pause BUCKET_SCRIPT sets    *)
(* with the warning lasts until a token is there.                          *)
(***************************************************************************)
THEOREM WarnedOnce == UserSpec => []OneWarning
  <1>1. UserIInv => OneWarning
    BY SMT DEF UserIInv, PauseInv, OneWarning
  <1> QED BY UserInvariance, <1>1, PTL
-----------------------------------------------------------------------------
LEMMA ToleranceIsNat ==
    ASSUME NEW k
    PROVE  Tolerance(k) \in Nat
  <1>1. ASSUME NEW burst \in Nat \ {0}, NEW period \in Nat \ {0}
        PROVE  (burst - 1) * period \in Nat
    BY <1>1, SMT
  <1> QED BY <1>1, BudgetAssumption DEF Tolerance

LEMMA ChargeIsNat ==
    ASSUME NEW k, NEW cost \in 1 .. MaxCost
    PROVE  Charge(k, cost) \in Nat
  <1>1. ASSUME NEW period \in Nat \ {0}, NEW n \in Nat
        PROVE  period * n \in Nat
    BY <1>1, SMT
  <1>2. cost \in Nat
    BY BudgetAssumption, SMT
  <1> QED BY <1>1, <1>2, BudgetAssumption DEF Charge

(***************************************************************************)
(* A key never expires before its arrival time, so that an absent key and  *)
(* a past arrival time mean the same: an unused budget.                    *)
(***************************************************************************)
ExpiryInv == \A k \in Key : gcra[k].tat <= gcra[k].expires

(***************************************************************************)
(* The arrival time carries everything reserved since the first slot, and  *)
(* no slot is given before the last one.                                   *)
(***************************************************************************)
WindowInv ==
    window # NoWindow =>
       /\ window.key \in Key
       /\ window.since + window.spent <= gcra[window.key].tat
       /\ \/ window.last <= now
          \/ window.last <= gcra[window.key].tat - Tolerance(window.key)

\* Only an open window counts reservations.
CountedInv == \A c \in Call : call[c].counted => window # NoWindow

IInv == TypeOK /\ ExpiryInv /\ WindowInv /\ CountedInv /\ SlotsAreSpread

LEMMA SlotFacts ==
    ASSUME TypeOK, ExpiryInv, NEW k \in Key
    PROVE  /\ Tat(k) \in Nat /\ Tat(k) >= now /\ Tat(k) >= gcra[k].tat
           /\ Slot(k) \in Nat /\ Slot(k) >= now /\ Slot(k) <= Tat(k)
           /\ Slot(k) >= Tat(k) - Tolerance(k)
  <1>1. now \in Nat /\ gcra[k].tat \in Nat /\ gcra[k].expires \in Nat
    BY SMT DEF TypeOK, Budget
  <1>2. gcra[k].tat <= gcra[k].expires
    BY DEF ExpiryInv
  <1>3. Tat(k) \in Nat /\ Tat(k) >= now /\ Tat(k) >= gcra[k].tat
    BY <1>1, <1>2, SMT DEF Tat, Later
  <1> QED BY <1>1, <1>3, ToleranceIsNat, SMT DEF Slot, Later

LEMMA ReservedFacts ==
    ASSUME TypeOK, ExpiryInv, NEW k \in Key, NEW cost \in 1 .. MaxCost
    PROVE  /\ Reserved(k, cost) \in Budget
           /\ Reserved(k, cost).tat = Tat(k) + Charge(k, cost)
           /\ Reserved(k, cost).tat <= Reserved(k, cost).expires
  <1> DEFINE tat == Tat(k) + Charge(k, cost)
             rest == tat - now + Tolerance(k)
  <1>1. now \in Nat /\ tat \in Nat /\ tat >= now
    BY SlotFacts, ChargeIsNat, SMT DEF TypeOK
  <1>2. rest \in Nat /\ rest >= tat - now
    BY <1>1, ToleranceIsNat, SMT
  <1> HIDE DEF rest
  <1>3. Ceil(rest, Milli) \in Nat /\ Ceil(rest, Milli) >= rest /\ Second \in Nat
    BY <1>2, CeilIsAbove, TimeAssumption
  <1>4. TimeToLive(k, tat) = Ceil(rest, Milli) + Second
    BY DEF TimeToLive, rest
  <1>5. Reserved(k, cost) = [tat |-> tat, expires |-> now + TimeToLive(k, tat)]
    BY DEF Reserved
  <1> HIDE DEF tat
  <1>6. Reserved(k, cost) \in Budget /\ Reserved(k, cost).tat = tat
        /\ Reserved(k, cost).tat <= Reserved(k, cost).expires
    BY <1>1, <1>2, <1>3, <1>4, <1>5, SMT DEF Budget
  <1> QED BY <1>6 DEF tat

LEMMA InitInv == Init => IInv
  <1> SUFFICES ASSUME Init PROVE IInv
    OBVIOUS
  <1>1. Idle \in CallRecord
    BY BudgetAssumption, RetryAssumption, SMT DEF Idle, CallRecord
  <1>2. TypeOK
    BY <1>1, SMT DEF Init, TypeOK, Budget, NoWindow
  <1>3. ExpiryInv
    BY SMT DEF Init, ExpiryInv
  <1>4. WindowInv /\ CountedInv /\ SlotsAreSpread
    BY DEF Init, Idle, WindowInv, CountedInv, SlotsAreSpread
  <1> QED BY <1>2, <1>3, <1>4 DEF IInv

(***************************************************************************)
(* A reservation, by a new request or by a retry.                          *)
(***************************************************************************)
LEMMA PaceInv ==
    ASSUME IInv, NEW c \in Call, NEW chat \in Chat \union {NoChat},
           NEW cost \in 1 .. MaxCost, NEW attempt \in 0 .. MaxRetries,
           Pace(c, chat, cost, attempt)
    PROVE  IInv'
  <1> TypeOK /\ ExpiryInv /\ WindowInv /\ CountedInv /\ SlotsAreSpread
    BY DEF IInv
  <1> DEFINE keys == KeysOf(chat)
             slot == IF chat \in Chat THEN Later(Slot(Bot), Slot(chat)) ELSE Slot(Bot)
             due == now + Ceil(slot - now, Milli)
  <1>1. keys \subseteq Key /\ Bot \in Key
    BY DEF KeysOf, Key
  <1>2. due \in Nat
    <2>1. slot \in Nat /\ slot >= now /\ now \in Nat
      BY SlotFacts, SMT DEF Key, Later, TypeOK
    <2>2. slot - now \in Nat
      BY <2>1, SMT
    <2> QED BY <2>1, <2>2, CeilIsAbove, TimeAssumption
  <1>3. now' = now
        /\ gcra' = [k \in Key |-> IF k \in keys THEN Reserved(k, cost) ELSE gcra[k]]
    BY DEF Pace
  <1>4. PICK counted \in BOOLEAN :
           /\ call' = [call EXCEPT ![c] =
                        [at |-> "paced", chat |-> chat, cost |-> cost, attempt |-> attempt,
                         due |-> due, counted |-> counted]]
           /\ ~counted => window' = window
           /\ counted => \E k \in keys : Observe(k, cost)
    BY DEF Pace
  <1>5. \/ \E k \in keys : (window = NoWindow \/ window.key = k) /\ Observe(k, cost)
        \/ window.key \notin keys /\ window' = window
    BY DEF Pace
  <1> HIDE DEF due, keys, slot
  <1>6. \A k \in Key : gcra'[k] \in Budget /\ gcra'[k].tat <= gcra'[k].expires
    BY <1>3, ReservedFacts DEF TypeOK, ExpiryInv
  <1>7. gcra' \in [Key -> Budget] /\ ExpiryInv'
    BY <1>3, <1>6 DEF ExpiryInv
  <1>8. call' \in [Call -> CallRecord]
    BY <1>2, <1>4, SMT DEF TypeOK, CallRecord
  <1>9. CountedInv'
    <2>1. window' = window \/ \E k \in keys : Observe(k, cost)
      BY <1>5
    <2>2. \A k \in keys : Observe(k, cost) => window' # NoWindow
      <3> SUFFICES ASSUME NEW k \in keys, Observe(k, cost) PROVE window' # NoWindow
        OBVIOUS
      <3>1. window'.key = k /\ NoWindow.key = NoChat
        BY DEF Observe, NoWindow
      <3> QED BY <1>1, <3>1, KeyAssumption DEF Key
    <2>3. window # NoWindow => window' # NoWindow
      BY <2>1, <2>2
    <2>4. call'[c].counted = counted
      BY <1>4 DEF TypeOK
    <2>5. counted => window' # NoWindow
      BY <1>4, <2>2
    <2>6. \A d \in Call : d # c => call'[d] = call[d]
      BY <1>4 DEF TypeOK
    <2> QED BY <2>3, <2>4, <2>5, <2>6 DEF CountedInv
  <1>10. CASE window.key \notin keys /\ window' = window
    <2>1. TypeOK'
      BY <1>3, <1>7, <1>8, <1>10 DEF TypeOK
    <2>2. SlotsAreSpread'
      BY <1>10 DEF SlotsAreSpread
    <2>3. window # NoWindow => gcra'[window.key] = gcra[window.key]
      BY <1>3, <1>10 DEF WindowInv
    <2>4. WindowInv'
      BY <1>3, <1>10, <2>3 DEF WindowInv
    <2> QED BY <1>7, <1>9, <2>1, <2>2, <2>4 DEF IInv
  <1>11. ASSUME NEW k \in keys, window = NoWindow \/ window.key = k, Observe(k, cost)
         PROVE  IInv'
    <2>1. k \in Key
      BY <1>1
    <2>2. /\ window' = [key |-> k, last |-> Slot(k),
                        since |-> IF window = NoWindow THEN Slot(k) ELSE window.since,
                        before |-> window.spent, spent |-> window.spent + Charge(k, cost),
                        sent |-> window.sent]
      BY <1>11 DEF Observe
    <2>3. /\ window.since \in Nat /\ window.last \in Nat /\ window.spent \in Nat
          /\ window.before \in Nat /\ window.sent \in Nat
          /\ now \in Nat /\ gcra[k].tat \in Nat
      BY <2>1, SMT DEF TypeOK, Budget
    <2>4. Charge(k, cost) \in Nat /\ Tolerance(k) \in Nat
      BY ChargeIsNat, ToleranceIsNat
    <2>5. TypeOK'
      <3>1. window' \in [key : Key \union {NoChat}, since : Nat, last : Nat,
                         before : Nat, spent : Nat, sent : Nat]
        BY <2>1, <2>2, <2>3, <2>4, SlotFacts, SMT
      <3> QED BY <1>3, <1>7, <1>8, <3>1 DEF TypeOK
    <2>6. gcra'[k].tat = Tat(k) + Charge(k, cost)
      BY <1>3, <1>11, <2>1, ReservedFacts
    <2>7. /\ window'.key = k /\ window'.last = Slot(k)
          /\ window'.before = window.spent
          /\ window'.spent = window.spent + Charge(k, cost)
          /\ window'.since = IF window = NoWindow THEN Slot(k) ELSE window.since
      BY <2>2
    <2>8. /\ window'.since + window.spent <= Tat(k)
          /\ window'.since <= Slot(k)
      <3>1. CASE window = NoWindow
        <4>1. window.spent = 0
          BY <3>1 DEF NoWindow
        <4> QED BY <2>1, <2>7, <3>1, <4>1, SlotFacts, SMT
      <3>2. CASE window # NoWindow
        <4>1. window.key = k /\ window'.since = window.since
          BY <1>11, <2>7, <3>2
        <4>2. window.since + window.spent <= gcra[k].tat /\ window.since <= window.last
          BY <3>2, <4>1 DEF WindowInv, SlotsAreSpread
        <4>3. window.last <= now \/ window.last <= gcra[k].tat - Tolerance(k)
          BY <3>2, <4>1 DEF WindowInv
        <4> QED BY <2>1, <2>3, <2>4, <4>1, <4>2, <4>3, SlotFacts, SMT
      <3> QED BY <3>1, <3>2
    <2>9. window'.since \in Nat
      BY <2>5 DEF TypeOK
    <2>10. WindowInv'
      <3>1. Slot(k) = now \/ Slot(k) = Tat(k) - Tolerance(k)
        BY DEF Slot, Later
      <3>2. Tat(k) \in Nat
        BY <2>1, SlotFacts
      <3>3. window'.since + window'.spent <= gcra'[k].tat
        BY <2>3, <2>4, <2>6, <2>7, <2>8, <2>9, <3>2, SMT
      <3>4. window'.last <= now \/ window'.last <= gcra'[k].tat - Tolerance(k)
        BY <2>3, <2>4, <2>6, <2>7, <3>1, <3>2, SMT
      <3> QED BY <1>3, <2>1, <2>7, <3>3, <3>4 DEF WindowInv, Tolerance
    <2>11. SlotsAreSpread'
      BY <1>3, <2>1, <2>3, <2>4, <2>7, <2>8, <2>9, SlotFacts, SMT DEF SlotsAreSpread
    <2> QED BY <1>7, <1>9, <2>5, <2>10, <2>11 DEF IInv
  <1> QED BY <1>5, <1>10, <1>11

(***************************************************************************)
(* The other steps neither touch a budget nor reserve in the window.       *)
(***************************************************************************)
LEMMA OtherInv ==
    ASSUME IInv, TypeOK', gcra' = gcra, now' \in {now, now + 1},
           \A f \in {"key", "since", "last", "before", "spent"} : window'[f] = window[f],
           window = NoWindow <=> window' = NoWindow,
           \A c \in Call : call'[c].counted => call[c].counted
    PROVE  IInv'
  <1>1. ExpiryInv' /\ CountedInv'
    BY DEF IInv, ExpiryInv, CountedInv
  <1>2. /\ window'.key = window.key /\ window'.since = window.since
        /\ window'.last = window.last /\ window'.before = window.before
        /\ window'.spent = window.spent
    OBVIOUS
  <1>3. window.last \in Nat /\ now \in Nat
    BY DEF IInv, TypeOK
  <1>4. WindowInv'
    BY <1>2, <1>3, SMT DEF IInv, WindowInv, Tolerance
  <1>5. SlotsAreSpread'
    BY <1>2 DEF IInv, SlotsAreSpread, Tolerance
  <1> QED BY <1>1, <1>4, <1>5 DEF IInv

LEMMA CallUpdate ==
    ASSUME TypeOK, NEW c \in Call, NEW rec \in CallRecord, call' = [call EXCEPT ![c] = rec]
    PROVE  /\ call' \in [Call -> CallRecord] /\ call'[c] = rec
           /\ \A d \in Call : d # c => call'[d] = call[d]
  BY DEF TypeOK

LEMMA IdleIsCall == Idle \in CallRecord /\ ~Idle.counted
  BY BudgetAssumption, RetryAssumption, SMT DEF Idle, CallRecord

LEMMA SendInv ==
    ASSUME IInv, NEW c \in Call, Send(c), NEW rec \in CallRecord,
           rec.counted => call[c].counted, call' = [call EXCEPT ![c] = rec]
    PROVE  IInv'
  <1> TypeOK /\ CountedInv
    BY DEF IInv
  <1>1. /\ call' \in [Call -> CallRecord]
        /\ \A d \in Call : call'[d].counted => call[d].counted
    BY CallUpdate
  <1>2. call[c] \in CallRecord /\ call[c].cost \in 1 .. MaxCost
    BY DEF TypeOK, CallRecord
  <1>3. CASE call[c].counted
    <2> DEFINE n == Charge(window.key, call[c].cost)
    <2>1. window # NoWindow /\ window' = [window EXCEPT !.sent = @ + n]
      BY <1>3 DEF Send, CountedInv
    <2>2. n \in Nat
      BY <1>2, ChargeIsNat
    <2> HIDE DEF n
    <2>3. /\ window' \in [key : Key \union {NoChat}, since : Nat, last : Nat,
                          before : Nat, spent : Nat, sent : Nat]
          /\ \A f \in {"key", "since", "last", "before", "spent"} : window'[f] = window[f]
      BY <2>1, <2>2, SMT DEF TypeOK
    <2>4. window' # NoWindow
      <3>1. window.key \in Key
        BY <2>1 DEF IInv, WindowInv
      <3>2. NoWindow.key = NoChat
        BY DEF NoWindow
      <3>3. window'.key = window.key
        BY <2>3
      <3> QED BY <3>1, <3>2, <3>3, KeyAssumption DEF Key
    <2>5. TypeOK'
      BY <1>1, <2>3 DEF TypeOK, Send
    <2> QED BY <1>1, <2>1, <2>3, <2>4, <2>5, OtherInv DEF Send
  <1>4. CASE ~call[c].counted
    <2>1. window' = window
      BY <1>4 DEF Send
    <2>2. TypeOK'
      BY <1>1, <2>1 DEF TypeOK, Send
    <2> QED BY <1>1, <2>1, <2>2, OtherInv DEF Send
  <1> QED BY <1>3, <1>4

LEMMA FloodedInv ==
    ASSUME IInv, NEW c \in Call, Flooded(c)
    PROVE  IInv'
  <1>1. Send(c) /\ call[c] \in CallRecord
    BY DEF Flooded, IInv, TypeOK
  <1>2. CASE call' = [call EXCEPT ![c] = Idle]
    BY <1>1, <1>2, IdleIsCall, SendInv
  <1>3. CASE /\ call[c].attempt < MaxRetries
             /\ \E after \in RetryAfter :
                   call' = [call EXCEPT ![c].at = "backoff", ![c].attempt = @ + 1,
                                        ![c].due = now + Later(after, MinRetryDelay)]
    <2>1. PICK after \in RetryAfter :
             call' = [call EXCEPT ![c].at = "backoff", ![c].attempt = @ + 1,
                                  ![c].due = now + Later(after, MinRetryDelay)]
      BY <1>3
    <2> DEFINE due == now + Later(after, MinRetryDelay)
               rec == [call[c] EXCEPT !.at = "backoff", !.attempt = @ + 1, !.due = due]
    <2>2. due \in Nat
      BY RetryAssumption, SMT DEF IInv, TypeOK, Later
    <2>3. call' = [call EXCEPT ![c] = rec]
      BY <2>1 DEF IInv, TypeOK
    <2> HIDE DEF due
    <2>4. call[c].attempt + 1 \in 0 .. MaxRetries
      BY <1>1, <1>3, RetryAssumption, SMT DEF CallRecord
    <2>5. rec \in CallRecord /\ rec.counted = call[c].counted
      BY <1>1, <2>2, <2>4 DEF CallRecord
    <2> HIDE DEF rec
    <2> QED BY <1>1, <2>3, <2>5, SendInv
  <1> QED BY <1>2, <1>3 DEF Flooded

LEMMA NextInv == IInv /\ [Next]_vars => IInv'
  <1> SUFFICES ASSUME IInv, [Next]_vars PROVE IInv'
    OBVIOUS
  <1>1. ASSUME NEW c \in Call, Request(c) PROVE IInv'
    <2>1. 0 \in 0 .. MaxRetries
      BY RetryAssumption, SMT
    <2> QED BY <1>1, <2>1, PaceInv DEF Request
  <1>2. ASSUME NEW c \in Call, Retry(c) PROVE IInv'
    <2>1. /\ call[c].chat \in Chat \union {NoChat} /\ call[c].cost \in 1 .. MaxCost
          /\ call[c].attempt \in 0 .. MaxRetries
      BY DEF IInv, TypeOK, CallRecord
    <2> QED BY <1>2, <2>1, PaceInv DEF Retry
  <1>3. ASSUME NEW c \in Call, Answered(c) PROVE IInv'
    BY <1>3, IdleIsCall, SendInv DEF Answered
  <1>4. ASSUME NEW c \in Call, Flooded(c) PROVE IInv'
    BY <1>4, FloodedInv
  <1>5. ASSUME NEW c \in Call, Abandon(c) PROVE IInv'
    <2>1. /\ call' = [call EXCEPT ![c] = Idle]
          /\ gcra' = gcra /\ now' = now /\ window' = window
      BY <1>5 DEF Abandon
    <2>2. /\ call' \in [Call -> CallRecord]
          /\ \A d \in Call : call'[d].counted => call[d].counted
      BY <2>1, IdleIsCall, CallUpdate DEF IInv
    <2>3. TypeOK'
      BY <2>1, <2>2 DEF IInv, TypeOK
    <2> QED BY <2>1, <2>2, <2>3, OtherInv
  <1>6. CASE Tick
    <2>1. now' = now + 1 /\ gcra' = gcra /\ call' = call /\ window' = window
      BY <1>6 DEF Tick, TimePasses
    <2>2. TypeOK'
      BY <2>1, SMT DEF IInv, TypeOK
    <2> QED BY <2>1, <2>2, OtherInv
  <1>7. CASE UNCHANGED vars
    <2>1. TypeOK'
      BY <1>7 DEF IInv, TypeOK, vars
    <2> QED BY <1>7, <2>1, OtherInv DEF vars
  <1> QED BY <1>1, <1>2, <1>3, <1>4, <1>5, <1>6, <1>7 DEF Next

LEMMA Invariance == Spec => []IInv
  BY InitInv, NextInv, PTL DEF Spec

(***************************************************************************)
(* Types: no request is tried more often than flood_retries allows         *)
(* (RetryFloodControl), and no slot lies in the past.                      *)
(***************************************************************************)
THEOREM TypeCorrect == Spec => []TypeOK
  BY Invariance, PTL DEF IInv

(***************************************************************************)
(* Whatever coroutines and replicas reserve, in whatever order, the slots  *)
(* RESERVE_SCRIPT gives out for a bot or a chat respect its burst and rate *)
(* from any slot to any later one, and the expiry of a key forgives none.  *)
(***************************************************************************)
THEOREM SlotsRespectTheBudget == Spec => []SlotsAreSpread
  BY Invariance, PTL DEF IInv

(***************************************************************************)
(* The messages of one budget that are on their way: reserved, but still   *)
(* asleep in PaceRequests.  A request is as many pairs as its charge, so   *)
(* that their number is what it will add to what was sent.                 *)
(***************************************************************************)
Pending == {p \in Call \X Nat :
               /\ call[p[1]].at = "paced" /\ call[p[1]].counted
               /\ p[2] \in 1 .. Charge(window.key, call[p[1]].cost)}

DueBy(t) == {p \in Pending : call[p[1]].due <= t}

(***************************************************************************)
(* What was sent and what is asleep was reserved; and at any later time t, *)
(* what will have been sent by then is within the budget: the last of      *)
(* these reservations has a slot before t, and the others fit before it.   *)
(***************************************************************************)
FlightInv ==
    /\ IsFiniteSet(Pending)
    /\ window.sent + Cardinality(Pending) <= window.spent
    /\ \A t \in Nat :
          t >= now /\ (window.sent > 0 \/ DueBy(t) # {}) =>
             window.sent + Cardinality(DueBy(t))
               <= Tolerance(window.key) + (t - window.since) + Charge(window.key, MaxCost)

\* The pairs of one request.
LEMMA RowOfCall ==
    ASSUME NEW c, NEW n \in Nat
    PROVE  IsFiniteSet({c} \X (1 .. n)) /\ Cardinality({c} \X (1 .. n)) = n
  <1>1. IsFiniteSet(1 .. n) /\ Cardinality(1 .. n) = n
    BY FS_Interval
  <1>2. IsFiniteSet({c}) /\ Cardinality({c}) = 1
    BY FS_Singleton
  <1> QED BY <1>1, <1>2, FS_Product

LEMMA ChargeGrows ==
    ASSUME NEW k, NEW cost \in 1 .. MaxCost
    PROVE  Charge(k, cost) <= Charge(k, MaxCost) /\ Charge(k, MaxCost) \in Nat
  <1>1. ASSUME NEW period \in Nat, NEW m \in Nat, NEW n \in Nat, m <= n
        PROVE  period * m <= period * n
    BY <1>1, SMT
  <1>2. cost \in Nat /\ MaxCost \in 1 .. MaxCost /\ MaxCost \in Nat /\ cost <= MaxCost
    BY BudgetAssumption, SMT
  <1>3. Charge(k, MaxCost) \in Nat
    BY <1>2, ChargeIsNat
  <1>4. BotPeriod * cost <= BotPeriod * MaxCost
    BY <1>1, <1>2, BudgetAssumption
  <1> QED BY <1>3, <1>4, BudgetAssumption, SMT DEF Charge

LEMMA FlightFacts ==
    ASSUME IInv
    PROVE  /\ \A t : DueBy(t) \subseteq Pending
           /\ window.sent > 0 \/ Pending # {} => window # NoWindow
           /\ window.sent \in Nat /\ window.spent \in Nat /\ window.since \in Nat /\ now \in Nat
  <1>1. window.sent \in Nat /\ window.spent \in Nat /\ window.since \in Nat /\ now \in Nat
    BY DEF IInv, TypeOK
  <1>2. Pending # {} => window # NoWindow
    BY DEF Pending, IInv, CountedInv
  <1>3. window.sent > 0 => window # NoWindow
    BY <1>1, SMT DEF NoWindow
  <1> QED BY <1>1, <1>2, <1>3 DEF DueBy

(***************************************************************************)
(* Steps that neither send nor reserve for the window.                     *)
(***************************************************************************)
LEMMA NothingSentInv ==
    ASSUME IInv, IInv', FlightInv, window' = window, now' >= now,
           \A d \in Call : call'[d].at = "paced" /\ call'[d].counted => call'[d] = call[d]
    PROVE  FlightInv'
  <1>1. Pending' \subseteq Pending /\ \A t \in Nat : DueBy(t)' \subseteq DueBy(t)
    BY DEF Pending, DueBy, Charge
  <1>2. /\ IsFiniteSet(Pending) /\ Cardinality(Pending) \in Nat
        /\ IsFiniteSet(Pending') /\ Cardinality(Pending') \in Nat
        /\ Cardinality(Pending') <= Cardinality(Pending)
    BY <1>1, FS_Subset, FS_CardinalityType DEF FlightInv
  <1>3. window'.sent + Cardinality(Pending') <= window'.spent
    BY <1>2, FlightFacts DEF FlightInv
  <1>4. ASSUME NEW t \in Nat, t >= now', window'.sent > 0 \/ DueBy(t)' # {}
        PROVE  window'.sent + Cardinality(DueBy(t)')
                 <= Tolerance(window'.key) + (t - window'.since) + Charge(window'.key, MaxCost)
    <2>1. t >= now /\ (window.sent > 0 \/ DueBy(t) # {})
      BY <1>1, <1>4, FlightFacts DEF IInv, TypeOK
    <2>2. window.sent + Cardinality(DueBy(t))
            <= Tolerance(window.key) + (t - window.since) + Charge(window.key, MaxCost)
      BY <2>1 DEF FlightInv
    <2>3. /\ Cardinality(DueBy(t)') <= Cardinality(DueBy(t))
          /\ Cardinality(DueBy(t)) \in Nat /\ Cardinality(DueBy(t)') \in Nat
      <3>1. IsFiniteSet(DueBy(t))
        BY <1>2, FlightFacts, FS_Subset
      <3> QED BY <3>1, <1>1, FS_Subset, FS_CardinalityType
    <2>4. MaxCost \in 1 .. MaxCost
      BY BudgetAssumption
    <2>5. Tolerance(window.key) \in Nat /\ Charge(window.key, MaxCost) \in Nat
      BY <2>4, ToleranceIsNat, ChargeIsNat
    <2> QED BY <2>2, <2>3, <2>5, FlightFacts
  <1>5. window'.key = window.key
    OBVIOUS
  <1> QED BY <1>2, <1>3, <1>4 DEF FlightInv, Tolerance, Charge

(***************************************************************************)
(* A counted request leaves: its pairs move to what was sent.              *)
(***************************************************************************)
LEMMA SentInv ==
    ASSUME IInv, IInv', FlightInv, NEW c \in Call, Send(c), call[c].counted,
           call'[c].at # "paced", \A d \in Call : d # c => call'[d] = call[d]
    PROVE  FlightInv'
  <1> DEFINE n == Charge(window.key, call[c].cost)
             Mine == {c} \X (1 .. n)
  <1>1. n \in Nat /\ call[c].at = "paced" /\ call[c].due <= now /\ now' = now
    <2>1. call[c].cost \in 1 .. MaxCost /\ call[c].due \in Nat
      BY DEF IInv, TypeOK, CallRecord
    <2> QED BY <2>1, ChargeIsNat, FlightFacts DEF Send
  <1>2. window' = [window EXCEPT !.sent = @ + n]
    BY DEF Send
  <1>3. /\ window'.key = window.key /\ window'.since = window.since
        /\ window'.spent = window.spent /\ window'.sent = window.sent + n
    BY <1>2 DEF IInv, TypeOK
  <1>4. Mine \subseteq Pending /\ \A t \in Nat : t >= now => Mine \subseteq DueBy(t)
    <2>1. \A p \in Mine : p \in Call \X Nat /\ p[1] = c /\ p[2] \in 1 .. n
      BY <1>1
    <2>2. \A p \in Mine : p \in Pending
      BY <1>1, <2>1 DEF Pending
    <2>3. \A t \in Nat : t >= now => call[c].due <= t
      BY <1>1, FlightFacts DEF IInv, TypeOK, CallRecord
    <2> QED BY <2>1, <2>2, <2>3 DEF DueBy
  <1>5. /\ Pending' \subseteq Pending \ Mine
        /\ \A t \in Nat : DueBy(t)' \subseteq DueBy(t) \ Mine
    <2>1. \A p \in Pending' : p[1] \in Call /\ p[1] # c /\ call'[p[1]] = call[p[1]]
      BY DEF Pending
    <2>2. Pending' \subseteq Pending
      BY <1>3, <2>1 DEF Pending, Charge
    <2>3. \A p \in Mine : p[1] = c
      OBVIOUS
    <2>4. \A t \in Nat : DueBy(t)' \subseteq DueBy(t)
      BY <2>1, <2>2 DEF DueBy
    <2> QED BY <2>1, <2>2, <2>3, <2>4 DEF DueBy
  <1>6. IsFiniteSet(Mine) /\ Cardinality(Mine) = n
    BY <1>1, RowOfCall
  <1>7. ASSUME NEW S \in SUBSET Pending, Mine \subseteq S, NEW T \in SUBSET (S \ Mine)
        PROVE  /\ IsFiniteSet(T) /\ Cardinality(S) \in Nat /\ Cardinality(T) \in Nat
               /\ n + Cardinality(T) <= Cardinality(S)
    <2> HIDE DEF Mine, n
    <2>1. IsFiniteSet(S)
      BY FS_Subset DEF FlightInv
    <2>2. IsFiniteSet(S \ Mine) /\ Cardinality(S \ Mine) = Cardinality(S) - Cardinality(S \intersect Mine)
      BY <2>1, FS_Difference
    <2>3. S \intersect Mine = Mine
      BY <1>7
    <2>4. Cardinality(S) \in Nat /\ Cardinality(S \ Mine) = Cardinality(S) - n
      BY <1>6, <2>1, <2>2, <2>3, FS_CardinalityType
    <2>5. IsFiniteSet(T) /\ Cardinality(T) \in Nat /\ Cardinality(T) <= Cardinality(S \ Mine)
      BY <2>2, FS_Subset, FS_CardinalityType
    <2> QED BY <1>1, <2>4, <2>5
  <1>8. n > 0 => Mine # {}
    <2>1. n > 0 => <<c, 1>> \in Mine
      BY <1>1
    <2> QED BY <2>1
  <1> HIDE DEF Mine, n
  <1>9. /\ IsFiniteSet(Pending') /\ Cardinality(Pending) \in Nat /\ Cardinality(Pending') \in Nat
        /\ n + Cardinality(Pending') <= Cardinality(Pending)
    BY <1>4, <1>5, <1>7
  <1>10. window'.sent + Cardinality(Pending') <= window'.spent
    BY <1>1, <1>3, <1>9, FlightFacts DEF FlightInv
  <1>11. ASSUME NEW t \in Nat, t >= now', window'.sent > 0 \/ DueBy(t)' # {}
         PROVE  window'.sent + Cardinality(DueBy(t)')
                  <= Tolerance(window'.key) + (t - window'.since) + Charge(window'.key, MaxCost)
    <2>1. t >= now
      BY <1>1, <1>11
    <2>2. window.sent > 0 \/ DueBy(t) # {}
      <3>1. window'.sent > 0 => window.sent > 0 \/ n > 0
        BY <1>1, <1>3, FlightFacts
      <3> QED BY <1>4, <1>5, <1>8, <1>11, <2>1, <3>1
    <2>3. window.sent + Cardinality(DueBy(t))
            <= Tolerance(window.key) + (t - window.since) + Charge(window.key, MaxCost)
      BY <2>1, <2>2 DEF FlightInv
    <2>4. /\ Cardinality(DueBy(t)) \in Nat /\ Cardinality(DueBy(t)') \in Nat
          /\ n + Cardinality(DueBy(t)') <= Cardinality(DueBy(t))
      BY <1>4, <1>5, <1>7, <2>1, FlightFacts
    <2>5. MaxCost \in 1 .. MaxCost
      BY BudgetAssumption
    <2>6. Tolerance(window.key) \in Nat /\ Charge(window.key, MaxCost) \in Nat
      BY <2>5, ToleranceIsNat, ChargeIsNat
    <2> QED BY <1>1, <1>3, <2>3, <2>4, <2>6, FlightFacts
  <1> QED BY <1>9, <1>10, <1>11 DEF FlightInv, Tolerance, Charge

(***************************************************************************)
(* A reservation for the window, with a slot no earlier than any before:   *)
(* whoever wakes up after that slot finds all the others fit before it.    *)
(***************************************************************************)
LEMMA ObservedInv ==
    ASSUME IInv, IInv', FlightInv, NEW c \in Call, NEW k \in Key, NEW cost \in 1 .. MaxCost,
           window = NoWindow \/ window.key = k, Observe(k, cost), now' = now,
           call' \in [Call -> CallRecord], call'[c].cost = cost, call'[c].due >= Slot(k),
           \A d \in Call : d # c => call'[d] = call[d]
    PROVE  FlightInv'
  <1> DEFINE n == Charge(k, cost)
             Mine == {c} \X (1 .. n)
             due == call'[c].due
  <1>1. n \in Nat /\ due \in Nat /\ Slot(k) \in Nat /\ due >= Slot(k)
    BY ChargeIsNat, SlotFacts DEF IInv, CallRecord
  <1>2. /\ window'.key = k /\ window'.last = Slot(k) /\ window'.before = window.spent
        /\ window'.spent = window.spent + n /\ window'.sent = window.sent
        /\ window # NoWindow => window'.since = window.since /\ window.key = k
    BY DEF Observe
  <1>3. /\ Pending' \subseteq Pending \union Mine
        /\ \A t \in Nat : DueBy(t)' \subseteq DueBy(t) \union Mine
        /\ \A t \in Nat : ~ (due <= t) => DueBy(t)' \subseteq DueBy(t)
    <2>1. Pending # {} => window.key = k
      BY <1>2, FlightFacts
    <2>2. \A p \in Pending' : p[1] = c => p \in Mine
      BY <1>2 DEF Pending, Charge
    <2>3. \A p \in Pending' : p[1] # c => p \in Pending
      <3> SUFFICES ASSUME NEW p \in Pending', p[1] # c PROVE p \in Pending
        OBVIOUS
      <3>1. p \in Call \X Nat /\ call[p[1]].counted /\ call[p[1]].at = "paced"
            /\ p[2] \in 1 .. Charge(k, call[p[1]].cost)
        BY <1>2 DEF Pending, Charge
      <3>2. window.key = k
        BY <1>2, <3>1 DEF IInv, CountedInv
      <3> QED BY <3>1, <3>2 DEF Pending
    <2>4. \A t \in Nat : \A p \in DueBy(t)' : IF p[1] = c THEN due <= t ELSE p \in DueBy(t)
      BY <2>3 DEF DueBy, Pending
    <2>5. \A t \in Nat : DueBy(t)' \subseteq Pending'
      BY DEF DueBy
    <2> HIDE DEF due, Mine
    <2> QED BY <2>2, <2>3, <2>4, <2>5
  <1>4. IsFiniteSet(Mine) /\ Cardinality(Mine) = n
    BY <1>1, RowOfCall
  <1>5. /\ window'.before <= Tolerance(k) + (window'.last - window'.since)
        /\ window'.since \in Nat /\ window'.sent \in Nat
    <2>1. window' # NoWindow
      BY <1>2, KeyAssumption DEF NoWindow, Key
    <2> QED BY <1>2, <2>1 DEF IInv, SlotsAreSpread, TypeOK, Tolerance
  <1> HIDE DEF Mine, n, due
  <1>6. ASSUME NEW S \in SUBSET Pending, NEW T \in SUBSET (S \union Mine)
        PROVE  /\ IsFiniteSet(T) /\ Cardinality(S) \in Nat /\ Cardinality(T) \in Nat
               /\ Cardinality(T) <= Cardinality(S) + n
    <2>1. IsFiniteSet(S) /\ IsFiniteSet(S \intersect Mine)
      BY <1>4, FS_Subset, FS_Intersection DEF FlightInv
    <2>2. /\ IsFiniteSet(S \union Mine)
          /\ Cardinality(S \union Mine) = Cardinality(S) + Cardinality(Mine) - Cardinality(S \intersect Mine)
      BY <1>4, <2>1, FS_Union
    <2>3. Cardinality(S) \in Nat /\ Cardinality(S \intersect Mine) \in Nat
      BY <2>1, FS_CardinalityType
    <2>4. IsFiniteSet(T) /\ Cardinality(T) \in Nat /\ Cardinality(T) <= Cardinality(S \union Mine)
      BY <2>2, FS_Subset, FS_CardinalityType
    <2> QED BY <1>1, <1>4, <2>2, <2>3, <2>4
  <1>7. /\ IsFiniteSet(Pending') /\ Cardinality(Pending) \in Nat /\ Cardinality(Pending') \in Nat
        /\ Cardinality(Pending') <= Cardinality(Pending) + n
    BY <1>3, <1>6
  <1>8. window'.sent + Cardinality(Pending') <= window'.spent
    BY <1>1, <1>2, <1>7, FlightFacts DEF FlightInv
  <1>9. /\ Tolerance(k) \in Nat /\ Charge(k, MaxCost) \in Nat /\ n <= Charge(k, MaxCost)
    BY ToleranceIsNat, ChargeGrows DEF n
  <1>10. ASSUME NEW t \in Nat, t >= now', window'.sent > 0 \/ DueBy(t)' # {}
         PROVE  window'.sent + Cardinality(DueBy(t)')
                  <= Tolerance(k) + (t - window'.since) + Charge(k, MaxCost)
    <2>1. CASE due <= t
      <3>1. /\ Cardinality(DueBy(t)) \in Nat /\ Cardinality(DueBy(t)') \in Nat
            /\ Cardinality(DueBy(t)') <= Cardinality(DueBy(t)) + n
        BY <1>3, <1>6, FlightFacts
      <3>2. Cardinality(DueBy(t)) <= Cardinality(Pending)
        BY FlightFacts, FS_Subset DEF FlightInv
      <3>3. window.sent + Cardinality(Pending) <= window.spent
        BY DEF FlightInv
      <3> QED BY <1>1, <1>2, <1>5, <1>7, <1>9, <2>1, <3>1, <3>2, <3>3, FlightFacts
    <2>2. CASE ~ (due <= t)
      <3>1. DueBy(t)' \subseteq DueBy(t)
        BY <1>3, <2>2
      <3>2. window.sent > 0 \/ DueBy(t) # {}
        BY <1>2, <1>10, <3>1
      <3>3. window # NoWindow
        BY <3>2, FlightFacts
      <3>4. window.sent + Cardinality(DueBy(t))
              <= Tolerance(k) + (t - window'.since) + Charge(k, MaxCost)
        BY <1>2, <1>10, <3>2, <3>3 DEF FlightInv
      <3>5. /\ Cardinality(DueBy(t)) \in Nat /\ Cardinality(DueBy(t)') \in Nat
            /\ Cardinality(DueBy(t)') <= Cardinality(DueBy(t))
        <4>1. IsFiniteSet(DueBy(t))
          BY FlightFacts, FS_Subset DEF FlightInv
        <4> QED BY <3>1, <4>1, FS_Subset, FS_CardinalityType
      <3> QED BY <1>2, <1>5, <1>9, <3>4, <3>5, FlightFacts
    <2> QED BY <2>1, <2>2
  <1> QED BY <1>2, <1>7, <1>8, <1>10 DEF FlightInv, Tolerance, Charge

LEMMA PaceFlightInv ==
    ASSUME IInv, IInv', FlightInv, NEW c \in Call, NEW chat \in Chat \union {NoChat},
           NEW cost \in 1 .. MaxCost, NEW attempt \in 0 .. MaxRetries,
           Pace(c, chat, cost, attempt)
    PROVE  FlightInv'
  <1> DEFINE slot == IF chat \in Chat THEN Later(Slot(Bot), Slot(chat)) ELSE Slot(Bot)
             due == now + Ceil(slot - now, Milli)
             Sleeps(counted) ==
                call' = [call EXCEPT ![c] =
                           [at |-> "paced", chat |-> chat, cost |-> cost, attempt |-> attempt,
                            due |-> due, counted |-> counted]]
  <1>1. KeysOf(chat) \subseteq Key /\ Bot \in Key
    BY DEF KeysOf, Key
  <1>2. \A k \in KeysOf(chat) : slot >= Slot(k)
    <2>1. \A k \in Key : Slot(k) \in Nat
      BY SlotFacts DEF IInv
    <2>2. chat \in Chat => chat \in Key
      BY DEF Key
    <2>3. ASSUME NEW k \in KeysOf(chat) PROVE k = Bot \/ (k = chat /\ chat \in Chat)
      BY DEF KeysOf
    <2> QED BY <1>1, <2>1, <2>2, <2>3, SMT DEF Later
  <1>3. slot \in Nat /\ slot >= now /\ now \in Nat
    BY <1>1, SlotFacts, SMT DEF Key, Later, IInv, TypeOK
  <1>4. due >= slot /\ due \in Nat
    <2> HIDE DEF slot
    <2>1. slot - now \in Nat
      BY <1>3, SMT
    <2>2. Ceil(slot - now, Milli) \in Nat /\ Ceil(slot - now, Milli) >= slot - now
      BY <2>1, CeilIsAbove, TimeAssumption
    <2> QED BY <1>3, <2>2
  <1>5. \A k \in KeysOf(chat) : due >= Slot(k) /\ Slot(k) \in Nat
    <2> HIDE DEF slot, due
    <2>1. \A k \in KeysOf(chat) : Slot(k) \in Nat
      BY <1>1, SlotFacts DEF IInv
    <2> QED BY <1>2, <1>3, <1>4, <2>1
  <1>6. /\ now' = now /\ call' \in [Call -> CallRecord]
        /\ \/ \E k \in KeysOf(chat) : (window = NoWindow \/ window.key = k)
                                      /\ Observe(k, cost) /\ Sleeps(TRUE)
           \/ UNCHANGED window /\ Sleeps(FALSE)
    BY DEF Pace, IInv, TypeOK
  <1> HIDE DEF due
  <1>7. ASSUME NEW counted \in BOOLEAN, Sleeps(counted)
        PROVE  /\ call'[c].due = due /\ call'[c].cost = cost /\ call'[c].counted = counted
               /\ \A d \in Call : d # c => call'[d] = call[d]
    BY <1>7 DEF IInv, TypeOK
  <1> HIDE DEF Sleeps, slot
  <1>8. ASSUME NEW k \in KeysOf(chat), window = NoWindow \/ window.key = k,
               Observe(k, cost), Sleeps(TRUE)
        PROVE  FlightInv'
    <2>1. k \in Key /\ call'[c].due >= Slot(k)
      BY <1>1, <1>5, <1>7, <1>8
    <2> QED BY <1>6, <1>7, <1>8, <2>1, ObservedInv
  <1>9. ASSUME UNCHANGED window, Sleeps(FALSE) PROVE FlightInv'
    <2>1. call'[c].counted = FALSE /\ \A d \in Call : d # c => call'[d] = call[d]
      BY <1>7, <1>9, Zenon
    <2>2. now' >= now
      BY <1>3, <1>6
    <2> QED BY <1>9, <2>1, <2>2, NothingSentInv
  <1> QED BY <1>6, <1>8, <1>9

LEMMA SendFlightInv ==
    ASSUME IInv, IInv', FlightInv, NEW c \in Call, Answered(c) \/ Flooded(c)
    PROVE  FlightInv'
  <1>1. Send(c) /\ now' = now /\ now \in Nat
    BY DEF Answered, Flooded, Send, IInv, TypeOK
  <1>2. call'[c].at # "paced" /\ \A d \in Call : d # c => call'[d] = call[d]
    <2> call \in [Call -> CallRecord]
      BY DEF IInv, TypeOK
    <2>1. CASE call' = [call EXCEPT ![c] = Idle]
      BY <2>1 DEF Idle
    <2>2. ASSUME NEW after \in RetryAfter,
                 call' = [call EXCEPT ![c].at = "backoff", ![c].attempt = @ + 1,
                                      ![c].due = now + Later(after, MinRetryDelay)]
          PROVE  call'[c].at # "paced" /\ \A d \in Call : d # c => call'[d] = call[d]
      BY <2>2 DEF CallRecord
    <2> QED BY <2>1, <2>2 DEF Answered, Flooded
  <1>3. CASE call[c].counted
    BY <1>1, <1>2, <1>3, SentInv
  <1>4. CASE ~ call[c].counted
    <2>1. window' = window
      BY <1>1, <1>4 DEF Send
    <2> QED BY <1>1, <1>2, <2>1, NothingSentInv
  <1> QED BY <1>3, <1>4

LEMMA FlightNextInv == IInv /\ IInv' /\ FlightInv /\ [Next]_vars => FlightInv'
  <1> SUFFICES ASSUME IInv, IInv', FlightInv, [Next]_vars PROVE FlightInv'
    OBVIOUS
  <1> now \in Nat /\ call \in [Call -> CallRecord]
    BY DEF IInv, TypeOK
  <1>1. ASSUME NEW c \in Call, Request(c) PROVE FlightInv'
    <2>1. 0 \in 0 .. MaxRetries
      BY RetryAssumption, SMT
    <2> QED BY <1>1, <2>1, PaceFlightInv DEF Request
  <1>2. ASSUME NEW c \in Call, Retry(c) PROVE FlightInv'
    <2>1. /\ call[c].chat \in Chat \union {NoChat} /\ call[c].cost \in 1 .. MaxCost
          /\ call[c].attempt \in 0 .. MaxRetries
      BY DEF CallRecord
    <2> QED BY <1>2, <2>1, PaceFlightInv DEF Retry
  <1>3. ASSUME NEW c \in Call, Answered(c) \/ Flooded(c) PROVE FlightInv'
    BY <1>3, SendFlightInv
  <1>4. ASSUME NEW c \in Call, Abandon(c) PROVE FlightInv'
    <2>1. window' = window /\ now' = now /\ call' = [call EXCEPT ![c] = Idle]
      BY <1>4 DEF Abandon
    <2>2. \A d \in Call : call'[d].at = "paced" => call'[d] = call[d]
      BY <2>1 DEF Idle
    <2> QED BY <2>1, <2>2, NothingSentInv
  <1>5. CASE Tick
    <2>1. window' = window /\ now' = now + 1 /\ call' = call
      BY <1>5 DEF Tick, TimePasses
    <2>2. now' >= now
      BY <2>1
    <2> QED BY <2>1, <2>2, NothingSentInv
  <1>6. CASE UNCHANGED vars
    <2>1. window' = window /\ now' >= now /\ call' = call
      BY <1>6 DEF vars
    <2> QED BY <2>1, NothingSentInv
  <1> QED BY <1>1, <1>2, <1>3, <1>4, <1>5, <1>6 DEF Next

(***************************************************************************)
(* What PaceRequests lets through to Telegram, repetitions after a flood   *)
(* answer included, stays within the budget of a bot and of a chat over    *)
(* any time, up to one media group: however coroutines overtake each other *)
(* between the reservation and the end of the sleep, and are cancelled.    *)
(***************************************************************************)
THEOREM SendsRespectTheBudget == Spec => []SendsAreWithinBudget
  <1>1. Init => FlightInv
    <2> SUFFICES ASSUME Init PROVE FlightInv
      OBVIOUS
    <2>1. Pending = {}
      BY DEF Pending, Init, Idle
    <2>2. \A t : DueBy(t) = {}
      BY <2>1 DEF DueBy
    <2>3. IsFiniteSet({}) /\ Cardinality({}) = 0
      BY FS_EmptySet
    <2> QED BY <2>1, <2>2, <2>3 DEF FlightInv, Init, NoWindow
  <1>2. IInv /\ FlightInv => SendsAreWithinBudget
    <2> SUFFICES ASSUME IInv, FlightInv, window.sent > 0
                 PROVE  window.sent <= Tolerance(window.key) + (now - window.since)
                                         + Charge(window.key, MaxCost)
      BY DEF SendsAreWithinBudget
    <2>1. window.sent + Cardinality(DueBy(now))
            <= Tolerance(window.key) + (now - window.since) + Charge(window.key, MaxCost)
      BY FlightFacts DEF FlightInv
    <2>2. Cardinality(DueBy(now)) \in Nat
      BY FlightFacts, FS_Subset, FS_CardinalityType DEF FlightInv
    <2>3. MaxCost \in 1 .. MaxCost
      BY BudgetAssumption
    <2>4. Tolerance(window.key) \in Nat /\ Charge(window.key, MaxCost) \in Nat
      BY <2>3, ToleranceIsNat, ChargeIsNat
    <2> QED BY <2>1, <2>2, <2>4, FlightFacts
  <1> QED BY Invariance, <1>1, <1>2, FlightNextInv, PTL DEF Spec
=============================================================================
