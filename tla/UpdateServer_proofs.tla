------------------------- MODULE UpdateServer_proofs -------------------------
(***************************************************************************)
(* For every number of updates, userbots, permits and instances: no update *)
(* switches a userbot with a valid token off but one that was under way    *)
(* when its token was replaced or was handed a stale row; every part of an *)
(* album is handled, and none twice, but for the cases the properties      *)
(* name.                                                                   *)
(***************************************************************************)
EXTENDS UpdateServer, SequenceTheorems, TLAPS

USE DEF redis, rows, bots, history, Goto, InSection, Runs, Underway

(***************************************************************************)
(* The cache has at most one instance of a userbot.                        *)
(***************************************************************************)
OnePerBot(s) == \A i, j \in DOMAIN s : s[i].bot = s[j].bot => i = j

CacheInv == cache \in Seq(Instance) /\ Len(cache) <= CacheSize /\ OnePerBot(cache)

TaskType ==
    /\ server \in {"up", "stopping", "closed"}
    /\ at \in [Update -> InSection \union {"none", "loaded", "read", "waiting", "done"}]
    /\ entry \in [Bot -> Token \union {NoToken}]
    /\ botToken \in [Update -> Token]
    /\ token \in [Bot -> Token] /\ live \in [Bot -> Token]
    /\ active \subseteq Bot

AlbumType ==
    /\ list \subseteq Part /\ lock \in BOOLEAN
    /\ album \in [Part -> SUBSET Part]

HistoryType ==
    /\ handled \in [Update -> Nat]
    /\ late \subseteq Part /\ reread \subseteq Part /\ spoiled \subseteq Update
    /\ outlived \in BOOLEAN
    /\ overtaken \subseteq Update /\ misled \subseteq Update /\ wronged \subseteq Update
    /\ faults \in 0 .. MaxFaults

TypeInv == TaskType /\ CacheInv /\ AlbumType /\ HistoryType

\* An update has the token of the row, or had it when that was replaced, or was handed
\* another by Redis.
TokenInv ==
    \A u \in Update :
        Underway(u) => botToken[u] = token[BotOf[u]] \/ u \in overtaken \union misled

IInv == TypeInv /\ TokenInv /\ OnlyOvertakenUpdatesSwitchOff

LEMMA TypeInvType == TypeInv => TypeOK
  BY DEF TypeInv, TaskType, CacheInv, AlbumType, HistoryType, TypeOK, OnePerBot
-----------------------------------------------------------------------------
(***************************************************************************)
(* The cache.                                                              *)
(***************************************************************************)
LEMMA SubSeqTyped ==
  ASSUME NEW S, NEW s \in Seq(S), NEW m \in 1 .. Len(s) + 1, NEW n \in 0 .. Len(s)
  PROVE  /\ SubSeq(s, m, n) \in Seq(S)
         /\ Len(SubSeq(s, m, n)) = IF m <= n THEN n - m + 1 ELSE 0
         /\ \A i \in 1 .. n - m + 1 : SubSeq(s, m, n)[i] = s[m + i - 1]
<1>1. Len(s) \in Nat /\ DOMAIN s = 1 .. Len(s)
  BY LenProperties
<1>2. m \in Int /\ n \in Int /\ \A i \in m .. n : s[i] \in S
  BY <1>1, ElementOfSeq
<1> QED
  BY <1>2, SubSeqProperties

LEMMA WithoutTyped ==
  ASSUME CacheInv, NEW b \in Bot
  PROVE  /\ Without(b) \in Seq(Instance) /\ Len(Without(b)) <= Len(cache)
         /\ OnePerBot(Without(b))
         /\ \A i \in DOMAIN Without(b) : Without(b)[i].bot # b
<1>1. CASE Cached(b) = {}
  BY <1>1 DEF Without, Cached, CacheInv
<1>2. CASE Cached(b) # {}
  <2> DEFINE n == Len(cache)
             k == CHOOSE i \in Cached(b) : TRUE
             before == SubSeq(cache, 1, k - 1)
             after == SubSeq(cache, k + 1, n)
  <2>0. cache \in Seq(Instance) /\ n \in Nat /\ DOMAIN cache = 1 .. n
    BY LenProperties DEF CacheInv
  <2>1. k \in 1 .. n /\ cache[k].bot = b
    BY <1>2, <2>0 DEF Cached
  <2>2. /\ before \in Seq(Instance) /\ Len(before) = k - 1
        /\ \A i \in 1 .. k - 1 : before[i] = cache[i]
    <3> HIDE DEF k, n
    <3>1. k - 1 \in 0 .. Len(cache) /\ 1 \in 1 .. Len(cache) + 1
      BY <2>0, <2>1 DEF n
    <3>2. /\ before \in Seq(Instance) /\ Len(before) = IF 1 <= k - 1 THEN k - 1 - 1 + 1 ELSE 0
          /\ \A i \in 1 .. k - 1 - 1 + 1 : before[i] = cache[1 + i - 1]
      BY <2>0, <3>1, SubSeqTyped, Zenon
    <3> QED
      BY <2>0, <2>1, <3>2
  <2>3. /\ after \in Seq(Instance) /\ Len(after) = n - k
        /\ \A i \in 1 .. n - k : after[i] = cache[k + i]
    <3> HIDE DEF k, n
    <3>1. k + 1 \in 1 .. Len(cache) + 1 /\ n \in 0 .. Len(cache)
      BY <2>0, <2>1 DEF n
    <3>2. /\ after \in Seq(Instance) /\ Len(after) = IF k + 1 <= n THEN n - (k + 1) + 1 ELSE 0
          /\ \A i \in 1 .. n - (k + 1) + 1 : after[i] = cache[k + 1 + i - 1]
      BY <2>0, <3>1, SubSeqTyped, Zenon
    <3> QED
      BY <2>0, <2>1, <3>2
  <2> DEFINE s == before \o after
             old(i) == IF i < k THEN i ELSE i + 1
  <2>4. /\ s \in Seq(Instance) /\ Len(s) = n - 1 /\ DOMAIN s = 1 .. n - 1
        /\ \A i \in 1 .. n - 1 : s[i] = cache[old(i)] /\ old(i) \in 1 .. n /\ old(i) # k
    <3> HIDE DEF before, after, k, n
    <3>1. /\ s \in Seq(Instance) /\ Len(s) = Len(before) + Len(after)
          /\ \A i \in 1 .. Len(before) + Len(after) :
                s[i] = IF i <= Len(before) THEN before[i] ELSE after[i - Len(before)]
      BY <2>2, <2>3, ConcatProperties, Zenon
    <3>2. Len(s) = n - 1 /\ DOMAIN s = 1 .. n - 1
      BY <2>0, <2>1, <2>2, <2>3, <3>1, LenProperties
    <3>3. \A i \in 1 .. n - 1 : old(i) \in 1 .. n /\ old(i) # k
      BY <2>0, <2>1
    <3>4. \A i \in 1 .. n - 1 : s[i] = cache[old(i)]
      <4> HIDE DEF s
      <4> SUFFICES ASSUME NEW i \in 1 .. n - 1 PROVE s[i] = cache[old(i)]
        OBVIOUS
      <4>0. s[i] = IF i <= k - 1 THEN before[i] ELSE after[i - (k - 1)]
        BY <2>0, <2>1, <2>2, <2>3, <3>1
      <4>1. CASE i < k
        BY <2>0, <2>1, <2>2, <4>0, <4>1
      <4>2. CASE ~ i < k
        <5>1. i - (k - 1) \in 1 .. n - k /\ k + (i - (k - 1)) = i + 1 /\ ~ i <= k - 1
          BY <2>0, <2>1, <4>2
        <5> QED
          BY <2>3, <4>0, <4>2, <5>1
      <4> QED
        BY <4>1, <4>2
    <3> QED
      BY <3>1, <3>2, <3>3, <3>4
  <2>5. Without(b) = s
    BY <1>2 DEF Without, RemoveAt
  <2>6. \A i, j \in 1 .. n : cache[i].bot = cache[j].bot => i = j
    BY <2>0 DEF CacheInv, OnePerBot
  <2> HIDE DEF s, k, n
  <2>7. \A i \in 1 .. n - 1 : s[i].bot # b
    BY <2>1, <2>4, <2>6
  <2>8. \A i, j \in 1 .. n - 1 : s[i].bot = s[j].bot => i = j
    <3> SUFFICES ASSUME NEW i \in 1 .. n - 1, NEW j \in 1 .. n - 1, s[i].bot = s[j].bot PROVE i = j
      OBVIOUS
    <3>1. old(i) = old(j)
      BY <2>4, <2>6
    <3> QED
      BY <2>0, <2>1, <3>1
  <2>9. Len(s) <= Len(cache)
    BY <2>0, <2>4 DEF n
  <2> QED
    BY <2>4, <2>5, <2>7, <2>8, <2>9 DEF OnePerBot
<1> QED
  BY <1>1, <1>2

\* The instance an update gets has the token of the row it was handed.
LEMMA ResolverType ==
  ASSUME CacheInv, NEW b \in Bot, NEW t \in Token
  PROVE  GetOrCreate(b, t) = [bot |-> b, token |-> t] /\ GetOrCreate(b, t) \in Instance
<1>0. /\ cache \in Seq(Instance)
      /\ \A i \in DOMAIN cache : cache[i] \in Instance
  BY ElementOfSeq, LenProperties DEF CacheInv
<1>1. [bot |-> b, token |-> t] \in Instance
  BY <1>0 DEF Instance
<1>2. CASE \E i \in Cached(b) : cache[i].token = t
  <2> DEFINE k == CHOOSE i \in Cached(b) : TRUE
  <2>1. PICK i \in Cached(b) : cache[i].token = t
    BY <1>2
  <2>2. k \in Cached(b)
    BY <2>1
  <2>3. k = i
    BY <2>1, <2>2 DEF Cached, CacheInv, OnePerBot
  <2>4. cache[k].bot = b /\ cache[k].token = t /\ cache[k] \in Instance
    BY <1>0, <2>1, <2>2, <2>3 DEF Cached
  <2>5. cache[k] = [bot |-> b, token |-> t]
    BY <2>4 DEF Instance
  <2> QED
    BY <1>1, <1>2, <2>5 DEF GetOrCreate
<1>3. CASE ~ \E i \in Cached(b) : cache[i].token = t
  BY <1>1, <1>3 DEF GetOrCreate
<1> QED
  BY <1>2, <1>3

\* Appending the instance of a userbot that has none, and evicting the first.
LEMMA EvictTyped ==
  ASSUME NEW s \in Seq(Instance), Len(s) <= CacheSize, OnePerBot(s),
         NEW instance \in Instance, \A i \in DOMAIN s : s[i].bot # instance.bot
  PROVE  LET t == Evict(Append(s, instance))
         IN  t \in Seq(Instance) /\ Len(t) <= CacheSize /\ OnePerBot(t)
<1> DEFINE n == Len(s)
           a == Append(s, instance)
<1>0. n \in Nat /\ DOMAIN s = 1 .. n /\ CacheSize \in Nat
  BY LenProperties, SizeAssumption
<1>1. /\ a \in Seq(Instance) /\ a # <<>> /\ Len(a) = n + 1 /\ DOMAIN a = 1 .. n + 1
      /\ \A i \in 1 .. n : a[i] = s[i]
      /\ a[n + 1] = instance
  BY <1>0, AppendProperties, LenProperties
<1> HIDE DEF a
<1>2. \A i, j \in 1 .. n + 1 : a[i].bot = a[j].bot => i = j
  <2> SUFFICES ASSUME NEW i \in 1 .. n + 1, NEW j \in 1 .. n + 1, a[i].bot = a[j].bot PROVE i = j
    OBVIOUS
  <2>1. CASE i = n + 1 \/ j = n + 1
    BY <1>0, <1>1, <2>1
  <2>2. CASE i \in 1 .. n /\ j \in 1 .. n
    BY <1>0, <1>1, <2>2 DEF OnePerBot
  <2> QED
    BY <1>0, <2>1, <2>2
<1>3. CASE Len(a) > CacheSize
  <2>1. /\ Tail(a) \in Seq(Instance) /\ Len(Tail(a)) = n /\ DOMAIN Tail(a) = 1 .. n
        /\ \A i \in 1 .. n : Tail(a)[i] = a[i + 1]
    BY <1>0, <1>1, HeadTailProperties, LenProperties
  <2>2. \A i, j \in 1 .. n : Tail(a)[i].bot = Tail(a)[j].bot => i = j
    <3> SUFFICES ASSUME NEW i \in 1 .. n, NEW j \in 1 .. n, Tail(a)[i].bot = Tail(a)[j].bot
                 PROVE  i = j
      OBVIOUS
    <3>1. i + 1 \in 1 .. n + 1 /\ j + 1 \in 1 .. n + 1
      BY <1>0
    <3>2. i + 1 = j + 1
      BY <1>2, <2>1, <3>1
    <3> QED
      BY <1>0, <3>2
  <2>3. Evict(a) = Tail(a)
    BY <1>3 DEF Evict
  <2> QED
    BY <2>1, <2>2, <2>3 DEF OnePerBot, a
<1>4. CASE ~ Len(a) > CacheSize
  <2>1. Evict(a) = a
    BY <1>4 DEF Evict
  <2> QED
    BY <1>0, <1>1, <1>2, <1>4, <2>1 DEF OnePerBot, a
<1> QED
  BY <1>3, <1>4

LEMMA KeepCache ==
  ASSUME CacheInv, NEW instance \in Instance, Keep(instance)
  PROVE  CacheInv'
<1> DEFINE b == instance.bot
<1>0. b \in Bot
  BY DEF Instance
<1>1. /\ Without(b) \in Seq(Instance) /\ Len(Without(b)) <= Len(cache)
      /\ OnePerBot(Without(b))
      /\ \A i \in DOMAIN Without(b) : Without(b)[i].bot # b
  BY <1>0, WithoutTyped
<1>2. Len(Without(b)) <= CacheSize
  BY <1>1, LenProperties, SizeAssumption DEF CacheInv
<1>3. cache' = Evict(Append(Without(b), instance))
  BY DEF Keep
<1> QED
  BY <1>1, <1>2, <1>3, EvictTyped DEF CacheInv

LEMMA AcceptCache ==
  ASSUME CacheInv, TaskType, NEW u \in Update, Accept(u)
  PROVE  CacheInv' /\ botToken' = [botToken EXCEPT ![u] = botToken[u]]
<1> DEFINE b == BotOf[u]
<1>0. b \in Bot /\ botToken[u] \in Token
  BY UpdateAssumption DEF TaskType
<1>1. /\ GetOrCreate(b, botToken[u]) = [bot |-> b, token |-> botToken[u]]
      /\ GetOrCreate(b, botToken[u]) \in Instance
  BY <1>0, ResolverType
<1>2. CacheInv'
  <2>1. Keep(GetOrCreate(b, botToken[u]))
    BY DEF Accept
  <2> QED
    BY <1>1, <2>1, KeepCache
<1>3. botToken' = [botToken EXCEPT ![u] = GetOrCreate(b, botToken[u]).token]
  BY DEF Accept
<1> QED
  BY <1>1, <1>2, <1>3
-----------------------------------------------------------------------------
(***************************************************************************)
(* The rest: what each step does to the tasks, the album and the history.  *)
(***************************************************************************)
LEMMA InitInv == Init => IInv
<1> SUFFICES ASSUME Init PROVE IInv
  OBVIOUS
<1>0. 0 \in Token /\ 0 \in 0 .. MaxFaults
  BY BoundAssumption DEF Token
<1>1. TaskType
  BY <1>0 DEF Init, TaskType
<1>2. CacheInv
  BY SizeAssumption, EmptySeq DEF Init, CacheInv, OnePerBot
<1>3. AlbumType /\ HistoryType
  BY <1>0 DEF Init, AlbumType, HistoryType
<1>4. TokenInv /\ OnlyOvertakenUpdatesSwitchOff
  BY DEF Init, TokenInv, OnlyOvertakenUpdatesSwitchOff
<1> QED
  BY <1>1, <1>2, <1>3, <1>4 DEF IInv, TypeInv

\* Steps that leave cache, tokens and what is overtaken alone keep the rest
\* when no task starts and none does wrong.
Calm ==
    /\ UNCHANGED <<cache, botToken, token, live, overtaken, misled, wronged>>
    /\ \A u \in Update : Underway(u)' => Underway(u)

LEMMA CalmKeeps ==
  ASSUME IInv, Calm
  PROVE  CacheInv' /\ TokenInv' /\ OnlyOvertakenUpdatesSwitchOff'
<1>1. CacheInv'
  BY DEF IInv, TypeInv, CacheInv, Calm
<1>2. TokenInv' /\ OnlyOvertakenUpdatesSwitchOff'
  BY DEF IInv, TokenInv, OnlyOvertakenUpdatesSwitchOff, Calm
<1> QED
  BY <1>1, <1>2

LEMMA SubjectType ==
  ASSUME TypeInv, NEW u \in Update
  PROVE  Subject(u) \subseteq Update
  BY DEF Subject, TypeInv, AlbumType, Update

LEMMA PartKeeps ==
  ASSUME IInv, NEW p \in Part, PartStep(p)
  PROVE  IInv'
<1>0. TypeInv /\ p \in Update /\ Part \subseteq Update /\ Subject(p) \subseteq Update
  BY SubjectType DEF IInv, Update
<1>1. CASE Push(p)
  <2>1. TaskType' /\ AlbumType'
    BY <1>0, <1>1 DEF Push, Fails, TypeInv, TaskType, AlbumType
  <2>2. HistoryType'
    BY <1>0, <1>1, BoundAssumption DEF Push, Fault, Fails, TypeInv, AlbumType, HistoryType
  <2>3. Calm
    BY <1>0, <1>1 DEF Push, Fails, Calm, TypeInv, TaskType
  <2> QED
    BY <2>1, <2>2, <2>3, CalmKeeps DEF IInv, TypeInv
<1>2. CASE SetLock(p)
  <2>1. TaskType' /\ AlbumType'
    BY <1>0, <1>2 DEF SetLock, TypeInv, TaskType, AlbumType
  <2>2. HistoryType'
    BY <1>0, <1>2 DEF SetLock, TypeInv, AlbumType, HistoryType
  <2>3. Calm
    BY <1>0, <1>2 DEF SetLock, Calm, TypeInv, TaskType
  <2> QED
    BY <2>1, <2>2, <2>3, CalmKeeps DEF IInv, TypeInv
<1>3. CASE FindLock(p)
  <2>1. TaskType' /\ AlbumType'
    BY <1>0, <1>3 DEF FindLock, TypeInv, TaskType, AlbumType
  <2>2. HistoryType'
    BY <1>0, <1>3 DEF FindLock, TypeInv, AlbumType, HistoryType
  <2>3. Calm
    BY <1>0, <1>3 DEF FindLock, Calm, TypeInv, TaskType
  <2> QED
    BY <2>1, <2>2, <2>3, CalmKeeps DEF IInv, TypeInv
<1>4. CASE LoseLock(p)
  <2>1. TaskType' /\ AlbumType'
    BY <1>0, <1>4 DEF LoseLock, Fails, TypeInv, TaskType, AlbumType
  <2>2. HistoryType'
    BY <1>0, <1>4, BoundAssumption DEF LoseLock, Fault, Fails, TypeInv, AlbumType, HistoryType
  <2>3. Calm
    BY <1>0, <1>4 DEF LoseLock, Fails, Calm, TypeInv, TaskType
  <2> QED
    BY <2>1, <2>2, <2>3, CalmKeeps DEF IInv, TypeInv
<1>5. CASE Read(p)
  <2>1. TaskType' /\ AlbumType'
    BY <1>0, <1>5 DEF Read, TypeInv, TaskType, AlbumType
  <2>2. HistoryType'
    BY <1>0, <1>5, BoundAssumption DEF Read, Fault, TypeInv, AlbumType, HistoryType
  <2>3. Calm
    BY <1>0, <1>5 DEF Read, Calm, TypeInv, TaskType
  <2> QED
    BY <2>1, <2>2, <2>3, CalmKeeps DEF IInv, TypeInv
<1>6. CASE Clear(p)
  <2>1. TaskType' /\ AlbumType'
    BY <1>0, <1>6 DEF Clear, Fails, TypeInv, TaskType, AlbumType
  <2>2. HistoryType'
    BY <1>0, <1>6, BoundAssumption DEF Clear, Fault, Fails, TypeInv, AlbumType, HistoryType
  <2>3. Calm
    BY <1>0, <1>6 DEF Clear, Fails, Calm, TypeInv, TaskType
  <2> QED
    BY <2>1, <2>2, <2>3, CalmKeeps DEF IInv, TypeInv
<1>7. CASE Unlock(p)
  <2>1. TaskType' /\ AlbumType'
    BY <1>0, <1>7 DEF Unlock, TypeInv, TaskType, AlbumType
  <2>2. HistoryType'
    BY <1>0, <1>7, BoundAssumption DEF Unlock, Fault, TypeInv, AlbumType, HistoryType
  <2>3. Calm
    BY <1>0, <1>7 DEF Unlock, Calm, TypeInv, TaskType
  <2> QED
    BY <2>1, <2>2, <2>3, CalmKeeps DEF IInv, TypeInv
<1> QED
  BY <1>1, <1>2, <1>3, <1>4, <1>5, <1>6, <1>7 DEF PartStep

LEMMA TaskKeeps ==
  ASSUME IInv, NEW u \in Update, TaskStep(u)
  PROVE  IInv'
<1>0. TypeInv /\ BotOf[u] \in Bot /\ Subject(u) \subseteq Update
  BY SubjectType, UpdateAssumption DEF IInv
<1>1. CASE Acquire(u)
  <2>1. TaskType' /\ AlbumType' /\ HistoryType'
    BY <1>0, <1>1 DEF Acquire, TypeInv, TaskType, AlbumType, HistoryType
  <2>2. Calm
    BY <1>0, <1>1 DEF Acquire, Calm, TypeInv, TaskType
  <2> QED
    BY <2>1, <2>2, CalmKeeps DEF IInv, TypeInv
<1>2. CASE Handle(u)
  <2>1. TaskType' /\ AlbumType'
    BY <1>0, <1>2 DEF Handle, AfterHandle, TypeInv, TaskType, AlbumType
  <2>2. HistoryType'
    BY <1>0, <1>2, BoundAssumption DEF Handle, Fault, TypeInv, HistoryType
  <2>3. Calm
    BY <1>0, <1>2 DEF Handle, AfterHandle, Calm, TypeInv, TaskType
  <2> QED
    BY <2>1, <2>2, <2>3, CalmKeeps DEF IInv, TypeInv
<1>3. CASE UserbotTokenInvalid(u)
  <2>1. TaskType' /\ AlbumType' /\ HistoryType'
    BY <1>0, <1>3 DEF UserbotTokenInvalid, Current, AfterHandle, TypeInv, TaskType, AlbumType, HistoryType
  <2>2. CacheInv'
    <3>1. cache' = Without(BotOf[u])
      BY <1>3 DEF UserbotTokenInvalid, Current
    <3>2. /\ Without(BotOf[u]) \in Seq(Instance) /\ Len(Without(BotOf[u])) <= Len(cache)
          /\ OnePerBot(Without(BotOf[u]))
      BY <1>0, WithoutTyped DEF TypeInv
    <3>3. Len(Without(BotOf[u])) <= CacheSize
      BY <1>0, <3>2, LenProperties, SizeAssumption DEF TypeInv, CacheInv
    <3> QED
      BY <3>1, <3>2, <3>3 DEF CacheInv
  <2>3. /\ at[u] = "handle" /\ botToken[u] # live[BotOf[u]]
        /\ \A v \in Update : Underway(v)' => Underway(v)
    BY <1>0, <1>3 DEF UserbotTokenInvalid, Current, AfterHandle, TypeInv, TaskType
  <2>4. TokenInv'
    BY <1>3, <2>3 DEF IInv, TokenInv, UserbotTokenInvalid
  <2>5. OnlyOvertakenUpdatesSwitchOff'
    <3>1. botToken[u] = token[BotOf[u]] \/ u \in overtaken \union misled
      BY <2>3 DEF IInv, TokenInv
    <3>2. overtaken' = overtaken /\ misled' = misled
          /\ wronged' = IF token[BotOf[u]] = live[BotOf[u]] THEN wronged \union {u} ELSE wronged
      BY <1>3 DEF UserbotTokenInvalid, Current
    <3> QED
      BY <2>3, <3>1, <3>2 DEF IInv, OnlyOvertakenUpdatesSwitchOff
  <2> QED
    BY <2>1, <2>2, <2>4, <2>5 DEF IInv, TypeInv
<1>4. CASE u \in Part /\ PartStep(u)
  BY <1>4, PartKeeps
<1> QED
  BY <1>1, <1>2, <1>3, <1>4 DEF TaskStep

\* An update is handed the token of the row, or is misled.
LEMMA LookKeeps ==
  ASSUME IInv, NEW u \in Update, Look(u)
  PROVE  IInv'
<1>0. TypeInv /\ BotOf[u] \in Bot
  BY UpdateAssumption DEF IInv
<1>1. PICK t \in Token, label \in {"loaded", "read"} :
         /\ botToken' = [botToken EXCEPT ![u] = t] /\ Goto(u, label)
         /\ misled' \in {misled, misled \union {u}}
         /\ t = token[BotOf[u]] \/ u \in misled'
  <2>1. CASE entry[BotOf[u]] # NoToken
    <3>1. entry[BotOf[u]] \in Token
      BY <1>0, <2>1 DEF TypeInv, TaskType
    <3>2. /\ botToken' = [botToken EXCEPT ![u] = entry[BotOf[u]]] /\ Goto(u, "read")
          /\ misled' = IF entry[BotOf[u]] = token[BotOf[u]] THEN misled ELSE misled \union {u}
      BY <2>1 DEF Look
    <3> QED
      BY <3>1, <3>2
  <2>2. CASE entry[BotOf[u]] = NoToken
    <3>1. token[BotOf[u]] \in Token
      BY <1>0 DEF TypeInv, TaskType
    <3>2. /\ botToken' = [botToken EXCEPT ![u] = token[BotOf[u]]] /\ Goto(u, "loaded")
          /\ misled' = misled
      BY <2>2 DEF Look
    <3> QED
      BY <3>1, <3>2
  <2> QED
    BY <2>1, <2>2
<1>2. UNCHANGED <<server, bots, redis, album, handled, late, reread, spoiled, outlived,
                  overtaken, wronged, faults>>
  BY DEF Look
<1>3. TaskType' /\ AlbumType'
  BY <1>0, <1>1, <1>2 DEF TypeInv, TaskType, AlbumType
<1>4. HistoryType' /\ CacheInv'
  BY <1>0, <1>1, <1>2 DEF TypeInv, HistoryType, CacheInv
<1>5. TokenInv' /\ OnlyOvertakenUpdatesSwitchOff'
  <2>1. \A v \in Update \ {u} : botToken'[v] = botToken[v] /\ at'[v] = at[v]
    BY <1>0, <1>1 DEF TypeInv, TaskType
  <2>2. botToken'[u] = token[BotOf[u]] \/ u \in misled'
    BY <1>0, <1>1 DEF TypeInv, TaskType
  <2> QED
    BY <1>1, <1>2, <2>1, <2>2 DEF IInv, TokenInv, OnlyOvertakenUpdatesSwitchOff
<1> QED
  BY <1>3, <1>4, <1>5 DEF IInv, TypeInv

LEMMA AcceptKeeps ==
  ASSUME IInv, NEW u \in Update, Accept(u)
  PROVE  IInv'
<1>0. TypeInv /\ BotOf[u] \in Bot
  BY UpdateAssumption DEF IInv
<1>1. CacheInv' /\ botToken' = [botToken EXCEPT ![u] = botToken[u]]
  BY <1>0, AcceptCache DEF TypeInv
<1>2. botToken[u] \in Token /\ botToken' = botToken
  BY <1>0, <1>1 DEF TypeInv, TaskType
<1>3. /\ entry' \in {entry, [entry EXCEPT ![BotOf[u]] = botToken[u]]}
      /\ at[u] \in {"loaded", "read"}
      /\ at' = [at EXCEPT ![u] = "waiting"]
      /\ UNCHANGED <<server, active, token, live, list, lock, album, history>>
  BY DEF Accept
<1>4. TaskType' /\ AlbumType' /\ HistoryType'
  BY <1>0, <1>2, <1>3 DEF TypeInv, TaskType, AlbumType, HistoryType
<1>5. TokenInv' /\ OnlyOvertakenUpdatesSwitchOff'
  <2>1. \A v \in Update : Underway(v)' => Underway(v)
    BY <1>0, <1>3 DEF TypeInv, TaskType
  <2> QED
    BY <1>2, <1>3, <2>1 DEF IInv, TokenInv, OnlyOvertakenUpdatesSwitchOff
<1> QED
  BY <1>1, <1>4, <1>5 DEF IInv, TypeInv

LEMMA InterruptedType ==
  ASSUME TypeInv
  PROVE  Interrupted \subseteq Update
<1>1. \A v \in Update : Subject(v) \subseteq Update
  BY SubjectType
<1> DEFINE running == {u \in Update : Runs(u)}
           subjects == UNION {Subject(u) : u \in {v \in Update : at[v] \in {"handle", "clear"}}}
           unread == IF \E p \in Part : at[p] = "sleep" THEN list ELSE {}
<1>2. running \subseteq Update
  OBVIOUS
<1>3. subjects \subseteq Update
  BY <1>1
<1>4. unread \subseteq Update
  BY DEF TypeInv, AlbumType, Update
<1>5. Interrupted = running \union subjects \union unread
  BY DEF Interrupted
<1> HIDE DEF running, subjects, unread
<1> QED
  BY <1>2, <1>3, <1>4, <1>5

LEMMA ServerKeeps ==
  ASSUME IInv, LockExpires \/ ListExpires \/ Shutdown \/ Close \/ Crash \/ Start
  PROVE  IInv'
<1>0. TypeInv /\ Interrupted \subseteq Update /\ Part \subseteq Update
  BY InterruptedType DEF IInv, Update
<1>1. CASE LockExpires
  <2>0. faults' \in 0 .. MaxFaults /\ outlived' \in BOOLEAN
    <3>0. faults \in 0 .. MaxFaults /\ outlived \in BOOLEAN
      BY <1>0 DEF TypeInv, HistoryType
    <3>1. CASE Fault /\ outlived' = TRUE
      BY <3>0, <3>1, BoundAssumption DEF Fault
    <3>2. CASE UNCHANGED <<faults, outlived>>
      BY <3>0, <3>2
    <3> QED
      BY <1>1, <3>1, <3>2 DEF LockExpires
  <2>1. TaskType' /\ AlbumType' /\ HistoryType'
    BY <1>0, <1>1, <2>0 DEF LockExpires, TypeInv, TaskType, AlbumType, HistoryType
  <2>2. Calm
    BY <1>1 DEF LockExpires, Calm
  <2> QED
    BY <2>1, <2>2, CalmKeeps DEF IInv, TypeInv
<1>2. CASE ListExpires
  <2>1. TaskType' /\ AlbumType' /\ HistoryType'
    BY <1>0, <1>2 DEF ListExpires, TypeInv, TaskType, AlbumType, HistoryType
  <2>2. Calm
    BY <1>2 DEF ListExpires, Calm
  <2> QED
    BY <2>1, <2>2, CalmKeeps DEF IInv, TypeInv
<1>3. CASE Shutdown
  <2> PICK tried \in SUBSET {p \in Part : at[p] = "sleep"} :
          at' = [u \in Update |->
              IF u \in tried \/ (u \in Part /\ at[u] = "handle") THEN "clear" ELSE Dropped(u)]
    BY <1>3 DEF Shutdown
  <2>1. TaskType' /\ AlbumType' /\ HistoryType'
    BY <1>0, <1>3, BoundAssumption DEF Shutdown, Fault, Dropped, TypeInv, TaskType, AlbumType, HistoryType
  <2>2. Calm
    BY <1>3 DEF Shutdown, Dropped, Calm
  <2> QED
    BY <2>1, <2>2, CalmKeeps DEF IInv, TypeInv
<1>4. CASE Close
  <2>1. TaskType' /\ AlbumType' /\ HistoryType'
    BY <1>0, <1>4 DEF Close, TypeInv, TaskType, AlbumType, HistoryType
  <2>2. Calm
    BY <1>4 DEF Close, Calm
  <2> QED
    BY <2>1, <2>2, CalmKeeps DEF IInv, TypeInv
<1>5. CASE Crash
  <2>1. TaskType' /\ AlbumType' /\ HistoryType'
    BY <1>0, <1>5, BoundAssumption DEF Crash, Fault, Dropped, TypeInv, TaskType, AlbumType, HistoryType
  <2>2. Calm
    BY <1>5 DEF Crash, Dropped, Calm
  <2> QED
    BY <2>1, <2>2, CalmKeeps DEF IInv, TypeInv
<1>6. CASE Start
  <2>1. TaskType' /\ AlbumType' /\ HistoryType'
    BY <1>0, <1>6 DEF Start, TypeInv, TaskType, AlbumType, HistoryType
  <2>2. CacheInv'
    BY <1>6, SizeAssumption, EmptySeq DEF Start, CacheInv, OnePerBot
  <2>3. TokenInv' /\ OnlyOvertakenUpdatesSwitchOff'
    BY <1>6 DEF Start, IInv, TokenInv, OnlyOvertakenUpdatesSwitchOff
  <2> QED
    BY <2>1, <2>2, <2>3 DEF IInv, TypeInv
<1> QED
  BY <1>1, <1>2, <1>3, <1>4, <1>5, <1>6

\* A token replaced overtakes whoever has the old one; an entry that goes misleads nobody.
LEMMA TokenKeeps ==
  ASSUME IInv, NEW b \in Bot, Revoke(b) \/ SaveToken(b)
  PROVE  IInv'
<1>0. TypeInv
  BY DEF IInv
<1>1. CASE Revoke(b)
  <2>1. live[b] + 1 \in Token
    BY <1>0, <1>1, BoundAssumption DEF Revoke, TypeInv, TaskType, Token
  <2>2. TaskType' /\ AlbumType' /\ HistoryType' /\ CacheInv'
    BY <1>0, <1>1, <2>1 DEF Revoke, TypeInv, TaskType, CacheInv, AlbumType, HistoryType
  <2>3. TokenInv' /\ OnlyOvertakenUpdatesSwitchOff'
    BY <1>1 DEF Revoke, IInv, TokenInv, OnlyOvertakenUpdatesSwitchOff
  <2> QED
    BY <2>2, <2>3 DEF IInv, TypeInv
<1>2. CASE SaveToken(b)
  <2>0. PICK t \in 0 .. live[b] :
          /\ IF t < token[b] THEN Fault ELSE UNCHANGED faults
          /\ token' = [token EXCEPT ![b] = t]
          /\ Keep([bot |-> b, token |-> t]) \/ UNCHANGED cache
    BY <1>2 DEF SaveToken
  <2>1. /\ overtaken' = overtaken \union {u \in Update : Underway(u) /\ BotOf[u] = b}
        /\ UNCHANGED <<server, at, botToken, entry, active, live, redis, album,
                       handled, late, reread, spoiled, outlived, misled, wronged>>
    BY <1>2 DEF SaveToken
  <2>2. t \in Token
    BY <1>0, <2>0, BoundAssumption DEF TypeInv, TaskType, Token
  <2>3. faults' \in 0 .. MaxFaults
    BY <1>0, <2>0, BoundAssumption DEF Fault, TypeInv, HistoryType
  <2>4. TaskType' /\ AlbumType' /\ HistoryType'
    BY <1>0, <2>0, <2>1, <2>2, <2>3 DEF TypeInv, TaskType, AlbumType, HistoryType
  <2>5. CacheInv'
    <3>1. [bot |-> b, token |-> t] \in Instance
      BY <2>2 DEF Instance
    <3>2. CASE Keep([bot |-> b, token |-> t])
      BY <1>0, <3>1, <3>2, KeepCache DEF TypeInv
    <3>3. CASE UNCHANGED cache
      BY <1>0, <3>3 DEF TypeInv, CacheInv
    <3> QED
      BY <2>0, <3>2, <3>3
  <2>6. TokenInv'
    BY <1>0, <2>0, <2>1, UpdateAssumption DEF IInv, TypeInv, TaskType, TokenInv
  <2>7. OnlyOvertakenUpdatesSwitchOff'
    BY <2>1 DEF IInv, OnlyOvertakenUpdatesSwitchOff
  <2> QED
    BY <2>4, <2>5, <2>6, <2>7 DEF IInv, TypeInv
<1> QED
  BY <1>1, <1>2

LEMMA DropKeeps ==
  ASSUME IInv, NEW b \in Bot, Drop(b)
  PROVE  IInv'
<1>1. TaskType' /\ AlbumType' /\ HistoryType' /\ CacheInv'
  BY DEF Drop, IInv, TypeInv, TaskType, CacheInv, AlbumType, HistoryType
<1>2. TokenInv' /\ OnlyOvertakenUpdatesSwitchOff'
  BY DEF Drop, IInv, TokenInv, OnlyOvertakenUpdatesSwitchOff
<1> QED
  BY <1>1, <1>2 DEF IInv, TypeInv

LEMMA StutterKeeps ==
  ASSUME IInv, UNCHANGED vars
  PROVE  IInv'
<1>1. TypeInv'
  BY DEF vars, IInv, TypeInv, TaskType, CacheInv, AlbumType, HistoryType
<1>2. TokenInv' /\ OnlyOvertakenUpdatesSwitchOff'
  BY DEF vars, IInv, TokenInv, OnlyOvertakenUpdatesSwitchOff
<1> QED
  BY <1>1, <1>2 DEF IInv

LEMMA NextInv == IInv /\ [Next]_vars => IInv'
<1> SUFFICES ASSUME IInv, [Next]_vars PROVE IInv'
  OBVIOUS
<1>1. CASE \E u \in Update : Look(u) \/ Accept(u)
  BY <1>1, LookKeeps, AcceptKeeps
<1>2. CASE \E u \in Update : TaskStep(u)
  BY <1>2, TaskKeeps
<1>3. CASE LockExpires \/ ListExpires \/ Shutdown \/ Close \/ Crash \/ Start
  BY <1>3, ServerKeeps
<1>4. CASE \E b \in Bot : Drop(b) \/ Revoke(b) \/ SaveToken(b)
  BY <1>4, DropKeeps, TokenKeeps
<1>5. CASE UNCHANGED vars
  BY <1>5, StutterKeeps
<1> QED
  BY <1>1, <1>2, <1>3, <1>4, <1>5 DEF Next
-----------------------------------------------------------------------------
(***************************************************************************)
(* The album.  A part holds the lock from setting it to deleting it.       *)
(***************************************************************************)
Holds(p) == at[p] \in {"sleep", "handle", "clear", "unlock"}

\* The lock has one holder as long as it did not expire under one.
HolderInv == ~ outlived => \A p, q \in Part : Holds(p) => lock /\ (Holds(q) => p = q)

\* A part that has not pushed itself is in no list and no album; an album is read once.
Fresh(p) == at[p] \in {"none", "loaded", "read", "waiting", "push"}

FreshInv ==
    /\ \A p \in Part : Fresh(p) =>
          p \notin list /\ handled[p] = 0 /\ \A q \in Part : p \notin album[q]
    /\ \A q \in Part : Fresh(q) \/ at[q] \in {"lock", "sleep"} => album[q] = {}

\* What became of a part that looked for the lock: it was handled, came late or was
\* spoiled, or it is in the list a part will read or in the album a handler was given.
Accounted(p) ==
    \/ handled[p] > 0 \/ p \in late \/ p \in spoiled
    \/ p \in list /\ \E q \in Part : at[q] = "sleep"
    \/ \E q \in Part : at[q] = "handle" /\ p \in Subject(q)

AccountInv == ~ outlived => \A p \in Part : Holds(p) \/ at[p] = "done" => Accounted(p)

\* Who waits with a part, or was given it, is the first; and a part that was handled is
\* in the list only as long as its handler has that list still to delete.
First(p) ==
    /\ handled[p] <= 1
    /\ at[p] = "sleep" => handled[p] = 0
    /\ \A q \in Part : at[q] = "handle" /\ p \in Subject(q) => handled[p] = 0
    /\ handled[p] > 0 => (\E q \in Part : p \in album[q]) \/ at[p] \in {"clear", "unlock", "done"}
    /\ handled[p] > 0 /\ p \in list => \E q \in Part : at[q] = "clear" /\ p \in Subject(q)

OnceInv == ~ outlived => \A p \in Part : p \in reread \/ p \in spoiled \/ First(p)

AlbumInv == HolderInv /\ FreshInv /\ AccountInv /\ OnceInv

LEMMA AlbumInit == Init => AlbumInv
  BY DEF Init, AlbumInv, HolderInv, FreshInv, Fresh, AccountInv, OnceInv, First, Holds, Update

LEMMA HandledType ==
  ASSUME TypeInv
  PROVE  \A p \in Part : handled[p] \in Nat
  BY DEF TypeInv, HistoryType, Update

LEMMA SubjectOfPart ==
  /\ \A q \in Part : Subject(q) = IF album[q] # {} THEN album[q] ELSE {q}
  /\ \A q \in Part : Subject(q)' = IF album'[q] # {} THEN album'[q] ELSE {q}
  BY DEF Subject

\* A step that leaves the parts and their history alone.
AlbumFrame ==
    UNCHANGED <<list, lock, album, handled, late, reread, spoiled, outlived>>

\* The task of u goes on.
Moves(u, label) ==
    /\ at'[u] = label
    /\ \A v \in Update : v # u => at'[v] = at[v]

LEMMA MovesIf ==
  ASSUME TypeInv, NEW u \in Update, NEW label, Goto(u, label)
  PROVE  Moves(u, label)
  BY DEF TypeInv, TaskType, Moves

LEMMA AlbumStill ==
  ASSUME AlbumInv, AlbumFrame, \A p \in Part : at'[p] = at[p]
  PROVE  AlbumInv'
<1>1. HolderInv' /\ FreshInv'
  BY DEF AlbumInv, AlbumFrame, HolderInv, FreshInv, Fresh, Holds
<1>2. AccountInv'
  BY SubjectOfPart DEF AlbumInv, AlbumFrame, AccountInv, Accounted, Holds
<1>3. OnceInv'
  BY SubjectOfPart DEF AlbumInv, AlbumFrame, OnceInv, First
<1> QED
  BY <1>1, <1>2, <1>3 DEF AlbumInv

\* An update begins, or a message that is no part is handled.
LEMMA AlbumBegin ==
  ASSUME TypeInv, AlbumInv, NEW u \in Update, Look(u) \/ Accept(u) \/ Acquire(u)
  PROVE  AlbumInv'
<1>1. AlbumFrame
  BY DEF Look, Accept, Acquire, AlbumFrame
<1>2. CASE u \notin Part
  <2>1. \A p \in Part : at'[p] = at[p]
    BY <1>2 DEF Look, Accept, Acquire, TypeInv, TaskType, Update
  <2> QED
    BY <1>1, <2>1, AlbumStill
<1>3. CASE u \in Part
  <2>1. PICK label \in {"loaded", "read", "waiting", "push"} : Moves(u, label)
    BY <1>3, MovesIf DEF Look, Accept, Acquire
  <2>2. at[u] \in {"none", "loaded", "read", "waiting"}
    BY DEF Look, Accept, Acquire
  <2>3. \A p \in Part : p # u => at'[p] = at[p]
    BY <2>1 DEF Moves, Update
  <2>4. HolderInv' /\ FreshInv'
    BY <1>1, <1>3, <2>1, <2>2, <2>3 DEF AlbumInv, AlbumFrame, HolderInv, FreshInv, Fresh, Holds, Moves
  <2>5. AccountInv'
    BY <1>1, <1>3, <2>1, <2>2, <2>3, SubjectOfPart
       DEF AlbumInv, AlbumFrame, AccountInv, Accounted, Holds, Moves
  <2>6. OnceInv'
    BY <1>1, <1>3, <2>1, <2>2, <2>3, SubjectOfPart
       DEF AlbumInv, AlbumFrame, OnceInv, First, Moves
  <2> QED
    BY <2>4, <2>5, <2>6 DEF AlbumInv
<1> QED
  BY <1>2, <1>3

\* A call of Redis that fails ends the task of its part, and spoils what it worked on.
GivesUp(p) ==
    /\ at[p] \in {"push", "lock", "clear"} /\ Moves(p, "done")
    /\ lock => lock'
    /\ at[p] = "clear" => list' \subseteq list
    /\ at[p] # "clear" => list' \in {list, list \union {p}}
    /\ spoiled' = spoiled \union Subject(p)
    /\ UNCHANGED <<album, handled, late, reread, outlived>>

LEMMA AlbumGivesUp ==
  ASSUME TypeInv, AlbumInv, NEW p \in Part, GivesUp(p)
  PROVE  AlbumInv'
<1>0. p \in Update /\ Part \subseteq Update
  BY DEF Update
<1>1. at'[p] = "done" /\ \A q \in Part : q # p => at'[q] = at[q]
  BY <1>0 DEF GivesUp, Moves
<1>2. at[p] # "clear" => p \in spoiled'
  <2>1. at[p] # "clear" => album[p] = {}
    BY DEF GivesUp, AlbumInv, FreshInv, Fresh
  <2> QED
    BY <2>1, SubjectOfPart DEF GivesUp
<1>3. (at[p] = "clear" /\ ~ outlived) => \A q \in Part : Holds(q) => q = p
  BY DEF AlbumInv, HolderInv, Holds
<1>4. HolderInv'
  BY <1>1 DEF GivesUp, AlbumInv, HolderInv, Holds
<1>5. FreshInv'
  BY <1>1 DEF GivesUp, AlbumInv, FreshInv, Fresh
<1>6. AccountInv'
  <2> SUFFICES ASSUME ~ outlived', NEW r \in Part, Holds(r)' \/ at'[r] = "done"
               PROVE  Accounted(r)'
    BY DEF AccountInv
  <2>0. ~ outlived
    BY DEF GivesUp
  <2>1. CASE r \in spoiled'
    BY <2>1 DEF Accounted
  <2>2. CASE r \notin spoiled'
    <3>1. Holds(r) \/ at[r] = "done"
      BY <1>1, <1>2, <2>2 DEF Holds, GivesUp
    <3>2. Accounted(r) /\ r \notin spoiled
      BY <2>0, <2>2, <3>1 DEF AlbumInv, AccountInv, GivesUp
    <3>3. CASE r \in list /\ \E q \in Part : at[q] = "sleep"
      BY <1>1, <1>3, <2>0, <3>3 DEF Accounted, GivesUp, Holds
    <3>4. CASE ~ (r \in list /\ \E q \in Part : at[q] = "sleep")
      BY <1>1, <3>2, <3>4, SubjectOfPart DEF Accounted, GivesUp
    <3> QED
      BY <3>3, <3>4
  <2> QED
    BY <2>1, <2>2
<1>7. OnceInv'
  <2> SUFFICES ASSUME ~ outlived', NEW r \in Part, r \notin reread', r \notin spoiled'
               PROVE  First(r)'
    BY DEF OnceInv
  <2>1. ~ outlived /\ r \notin reread /\ r \notin spoiled /\ r \notin Subject(p)
    BY DEF GivesUp
  <2>2. First(r)
    BY <2>1 DEF AlbumInv, OnceInv
  <2>3. r \in list' => r \in list
    BY <1>2 DEF GivesUp
  <2> QED
    BY <1>1, <2>1, <2>2, <2>3, SubjectOfPart DEF First, GivesUp
<1> QED
  BY <1>4, <1>5, <1>6, <1>7 DEF AlbumInv

LEMMA FailsMoves ==
  ASSUME TypeInv, NEW p \in Part, Fails(p)
  PROVE  Moves(p, "done") /\ spoiled' = spoiled \union Subject(p)
<1>1. p \in Update /\ Goto(p, "done")
  BY DEF Fails, Update
<1> QED
  BY <1>1, MovesIf DEF Fails

LEMMA AlbumPush ==
  ASSUME TypeInv, AlbumInv, NEW p \in Part, Push(p), ~ Fails(p)
  PROVE  AlbumInv'
<1>0. p \in Update /\ Part \subseteq Update
  BY DEF Update
<1>1. /\ at[p] = "push" /\ list' = list \union {p} /\ Moves(p, "lock")
      /\ UNCHANGED <<lock, album, handled, late, reread, spoiled, outlived>>
  BY <1>0, MovesIf DEF Push
<1>2. at'[p] = "lock" /\ \A q \in Part : q # p => at'[q] = at[q]
  BY <1>0, <1>1 DEF Moves
<1>3. handled[p] = 0
  BY <1>1 DEF AlbumInv, FreshInv, Fresh
<1>4. HolderInv' /\ FreshInv'
  BY <1>1, <1>2 DEF AlbumInv, HolderInv, FreshInv, Fresh, Holds
<1>5. AccountInv'
  BY <1>1, <1>2, SubjectOfPart DEF AlbumInv, AccountInv, Accounted, Holds
<1>6. OnceInv'
  BY <1>1, <1>2, <1>3, SubjectOfPart DEF AlbumInv, OnceInv, First
<1> QED
  BY <1>4, <1>5, <1>6 DEF AlbumInv

\* The part that sets the lock was handled by nobody, or an album with it was read; and
\* what is in the list was handled by nobody, for nobody has it still to delete.
LEMMA AlbumSetLock ==
  ASSUME TypeInv, AlbumInv, NEW p \in Part, SetLock(p)
  PROVE  AlbumInv'
<1>0. p \in Update /\ Part \subseteq Update
  BY DEF Update
<1>1. /\ at[p] = "lock" /\ ~ lock /\ lock' = TRUE /\ Moves(p, "sleep")
      /\ reread' = IF \E q \in Part : p \in album[q] THEN reread \union {p} ELSE reread
      /\ late' = IF p \in list THEN late ELSE late \union {p}
      /\ UNCHANGED <<list, album, handled, spoiled, outlived>>
  BY <1>0, MovesIf DEF SetLock
<1>2. at'[p] = "sleep" /\ \A q \in Part : q # p => at'[q] = at[q]
  BY <1>0, <1>1 DEF Moves
<1>3. ~ outlived => \A q \in Part : ~ Holds(q)
  BY <1>1 DEF AlbumInv, HolderInv
<1>4. HolderInv' /\ FreshInv'
  BY <1>1, <1>2, <1>3 DEF AlbumInv, HolderInv, FreshInv, Fresh, Holds
<1>5. AccountInv'
  BY <1>1, <1>2, SubjectOfPart DEF AlbumInv, AccountInv, Accounted, Holds
<1>6. OnceInv'
  <2> SUFFICES ASSUME ~ outlived', NEW r \in Part, r \notin reread', r \notin spoiled'
               PROVE  First(r)'
    BY DEF OnceInv
  <2>1. ~ outlived /\ r \notin reread /\ r \notin spoiled
    BY <1>1
  <2>2. First(r)
    BY <2>1 DEF AlbumInv, OnceInv
  <2>3. r = p => handled[r] = 0
    <3>1. r = p => ~ \E q \in Part : p \in album[q]
      BY <1>1
    <3> QED
      BY <1>1, <2>2, <3>1, HandledType DEF First
  <2> QED
    BY <1>1, <1>2, <1>3, <2>1, <2>2, <2>3, SubjectOfPart DEF First, Holds
<1> QED
  BY <1>4, <1>5, <1>6 DEF AlbumInv

LEMMA AlbumFindLock ==
  ASSUME TypeInv, AlbumInv, NEW p \in Part, FindLock(p)
  PROVE  AlbumInv'
<1>0. p \in Update /\ Part \subseteq Update
  BY DEF Update
<1>1. /\ at[p] = "lock" /\ Moves(p, "done")
      /\ late' = IF p \in list /\ (\E q \in Part : at[q] = "sleep") THEN late ELSE late \union {p}
      /\ UNCHANGED <<list, lock, album, handled, reread, spoiled, outlived>>
  BY <1>0, MovesIf DEF FindLock
<1>2. at'[p] = "done" /\ \A q \in Part : q # p => at'[q] = at[q]
  BY <1>0, <1>1 DEF Moves
<1>4. HolderInv' /\ FreshInv'
  BY <1>1, <1>2 DEF AlbumInv, HolderInv, FreshInv, Fresh, Holds
<1>5. AccountInv'
  BY <1>1, <1>2, SubjectOfPart DEF AlbumInv, AccountInv, Accounted, Holds
<1>6. OnceInv'
  BY <1>1, <1>2, SubjectOfPart DEF AlbumInv, OnceInv, First
<1> QED
  BY <1>4, <1>5, <1>6 DEF AlbumInv

\* What was in the list is in the album now, or was deleted unread.
LEMMA AlbumRead ==
  ASSUME TypeInv, AlbumInv, NEW p \in Part, Read(p), at'[p] = "handle"
  PROVE  AlbumInv'
<1>0. p \in Update /\ Part \subseteq Update
  BY DEF Update
<1>1. /\ at[p] = "sleep" /\ Moves(p, "handle")
      /\ UNCHANGED <<lock, handled, late, reread, outlived>>
  <2>1. Moves(p, "handle") \/ Moves(p, "clear")
    BY <1>0, MovesIf DEF Read
  <2> QED
    BY <2>1 DEF Read, Moves
<1>2. at'[p] = "handle" /\ \A q \in Part : q # p => at'[q] = at[q]
  BY <1>0, <1>1 DEF Moves
<1>3. \/ album' = [album EXCEPT ![p] = list] /\ list' = list /\ spoiled' = spoiled
      \/ album' = album /\ list' = {} /\ spoiled' = spoiled \union list
  <2>1. at' # [at EXCEPT ![p] = "clear"]
    BY <1>0 DEF TypeInv, TaskType
  <2> QED
    BY <2>1 DEF Read
<1>4. album[p] = {} /\ \A q \in Part : q # p => album'[q] = album[q]
  BY <1>1, <1>3 DEF AlbumInv, FreshInv, Fresh, TypeInv, AlbumType
<1>5. \/ album'[p] = list /\ list' = list /\ spoiled' = spoiled
      \/ album'[p] = {} /\ list' = {} /\ spoiled' = spoiled \union list
  BY <1>3, <1>4 DEF TypeInv, AlbumType
<1>6. HolderInv'
  BY <1>1, <1>2 DEF AlbumInv, HolderInv, Holds
<1>7. FreshInv'
  BY <1>1, <1>2, <1>4, <1>5 DEF AlbumInv, FreshInv, Fresh
<1>8. AccountInv'
  <2> SUFFICES ASSUME ~ outlived', NEW r \in Part, Holds(r)' \/ at'[r] = "done"
               PROVE  Accounted(r)'
    BY DEF AccountInv
  <2>1. Accounted(r)
    BY <1>1, <1>2 DEF AlbumInv, AccountInv, Holds
  <2>2. CASE r \in list
    BY <1>2, <1>5, <2>2, SubjectOfPart DEF Accounted
  <2>3. CASE r \notin list
    BY <1>1, <1>2, <1>4, <1>5, <2>1, <2>3, SubjectOfPart DEF Accounted
  <2> QED
    BY <2>2, <2>3
<1>9. OnceInv'
  <2> SUFFICES ASSUME ~ outlived', NEW r \in Part, r \notin reread', r \notin spoiled'
               PROVE  First(r)'
    BY DEF OnceInv
  <2>1. ~ outlived /\ r \notin reread /\ r \notin spoiled
    BY <1>1, <1>5
  <2>2. First(r)
    BY <2>1 DEF AlbumInv, OnceInv
  <2>3. \A q \in Part : Holds(q) => q = p
    BY <1>1, <2>1 DEF AlbumInv, HolderInv, Holds
  <2>4. r \in list => handled[r] = 0
    BY <1>1, <2>2, <2>3, HandledType DEF First, Holds
  <2>5. \A q \in Part : at'[q] = "handle" /\ r \in Subject(q)' => handled'[r] = 0
    BY <1>1, <1>2, <1>5, <2>2, <2>3, <2>4, SubjectOfPart DEF First, Holds
  <2>6. handled'[r] > 0 => (\E q \in Part : r \in album'[q]) \/ at'[r] \in {"clear", "unlock", "done"}
    BY <1>1, <1>2, <1>4, <2>2 DEF First
  <2>7. ~ (handled'[r] > 0 /\ r \in list')
    BY <1>1, <1>5, <2>4
  <2> QED
    BY <1>1, <1>2, <2>2, <2>5, <2>6, <2>7 DEF First
<1> QED
  BY <1>6, <1>7, <1>8, <1>9 DEF AlbumInv

\* The list cannot be read: it is deleted, and what is in it spoiled.
LEMMA AlbumUnread ==
  ASSUME TypeInv, AlbumInv, NEW p \in Part, Read(p), at'[p] # "handle"
  PROVE  AlbumInv'
<1>0. p \in Update /\ Part \subseteq Update
  BY DEF Update
<1>1. at' # [at EXCEPT ![p] = "handle"]
  BY <1>0 DEF TypeInv, TaskType
<1>2. /\ at[p] = "sleep" /\ Goto(p, "clear")
      /\ spoiled' = spoiled \union list \union {p}
      /\ UNCHANGED <<list, lock, album, handled, late, reread, outlived>>
  BY <1>1 DEF Read
<1>3. at'[p] = "clear" /\ \A q \in Part : q # p => at'[q] = at[q]
  BY <1>0, <1>2, MovesIf DEF Moves
<1>4. HolderInv' /\ FreshInv'
  BY <1>2, <1>3 DEF AlbumInv, HolderInv, FreshInv, Fresh, Holds
<1>5. AccountInv'
  BY <1>2, <1>3, SubjectOfPart DEF AlbumInv, AccountInv, Accounted, Holds
<1>6. OnceInv'
  BY <1>2, <1>3, SubjectOfPart DEF AlbumInv, OnceInv, First
<1> QED
  BY <1>4, <1>5, <1>6 DEF AlbumInv

\* What the handler was given was handled by nobody before; the list is to be deleted.
LEMMA AlbumHandle ==
  ASSUME TypeInv, AlbumInv, NEW u \in Update, Handle(u) \/ UserbotTokenInvalid(u)
  PROVE  AlbumInv'
<1>1. /\ at[u] = "handle" /\ Moves(u, AfterHandle(u))
      /\ UNCHANGED <<list, lock, album, late, reread, outlived>>
  BY MovesIf DEF Handle, UserbotTokenInvalid
<1>2. \/ /\ handled' = [v \in Update |-> IF v \in Subject(u) THEN handled[v] + 1 ELSE handled[v]]
         /\ spoiled' = spoiled
      \/ handled' = handled /\ spoiled' = spoiled \union Subject(u)
  BY DEF Handle, UserbotTokenInvalid
<1>3. \A p \in Part : handled[p] \in Nat /\ p \in Update
  BY HandledType DEF Update
<1>4. \/ /\ \A p \in Part : handled'[p] = IF p \in Subject(u) THEN handled[p] + 1 ELSE handled[p]
         /\ spoiled' = spoiled
      \/ handled' = handled /\ spoiled' = spoiled \union Subject(u)
  BY <1>2, <1>3
<1>5. CASE u \notin Part
  <2>1. Subject(u) = {u}
    BY <1>5 DEF Subject
  <2>2. \A p \in Part : p \notin Subject(u) /\ at'[p] = at[p]
    BY <1>1, <1>3, <1>5, <2>1 DEF Moves
  <2>3. \A p \in Part : handled'[p] = handled[p] /\ (p \in spoiled' <=> p \in spoiled)
    BY <1>4, <2>2
  <2>4. HolderInv' /\ FreshInv'
    BY <1>1, <2>2, <2>3 DEF AlbumInv, HolderInv, FreshInv, Fresh, Holds
  <2>5. AccountInv'
    BY <1>1, <2>2, <2>3, SubjectOfPart DEF AlbumInv, AccountInv, Accounted, Holds
  <2>6. OnceInv'
    BY <1>1, <2>2, <2>3, SubjectOfPart DEF AlbumInv, OnceInv, First
  <2> QED
    BY <2>4, <2>5, <2>6 DEF AlbumInv
<1>6. CASE u \in Part
  <2>1. at'[u] = "clear" /\ \A q \in Part : q # u => at'[q] = at[q]
    BY <1>1, <1>3, <1>6 DEF Moves, AfterHandle
  <2>2. \A q \in Part : Subject(q)' = Subject(q)
    BY <1>1, SubjectOfPart
  <2>3. \A p \in Part : p \in Subject(u) => p = u \/ p \in album[u]
    BY <1>6, SubjectOfPart
  <2>4. HolderInv'
    BY <1>1, <1>6, <2>1 DEF AlbumInv, HolderInv, Holds
  <2>5. FreshInv'
    <3> SUFFICES ASSUME NEW p \in Part PROVE
            /\ Fresh(p)' =>
                  p \notin list' /\ handled'[p] = 0 /\ \A q \in Part : p \notin album'[q]
            /\ Fresh(p)' \/ at'[p] \in {"lock", "sleep"} => album'[p] = {}
      BY DEF FreshInv, Fresh
    <3>1. CASE p = u
      BY <2>1, <3>1 DEF Fresh
    <3>2. CASE p # u
      BY <1>1, <1>4, <1>6, <2>1, <2>3, <3>2 DEF AlbumInv, FreshInv, Fresh
    <3> QED
      BY <3>1, <3>2
  <2>6. AccountInv'
    <3> SUFFICES ASSUME ~ outlived', NEW r \in Part, Holds(r)' \/ at'[r] = "done"
                 PROVE  Accounted(r)'
      BY DEF AccountInv
    <3>1. Accounted(r)
      BY <1>1, <1>6, <2>1 DEF AlbumInv, AccountInv, Holds
    <3>2. CASE r \in Subject(u)
      BY <1>3, <1>4, <3>2 DEF Accounted
    <3>3. CASE r \notin Subject(u)
      BY <1>1, <1>4, <1>6, <2>1, <2>2, <3>1, <3>3 DEF Accounted
    <3> QED
      BY <3>2, <3>3
  <2>7. OnceInv'
    <3> SUFFICES ASSUME ~ outlived', NEW r \in Part, r \notin reread', r \notin spoiled'
                 PROVE  First(r)'
      BY DEF OnceInv
    <3>1. ~ outlived /\ r \notin reread /\ r \notin spoiled
      BY <1>1, <1>4
    <3>2. First(r)
      BY <3>1 DEF AlbumInv, OnceInv
    <3>3. \A q \in Part : Holds(q) => q = u
      BY <1>1, <1>6, <3>1 DEF AlbumInv, HolderInv, Holds
    <3>4. \A q \in Part : at'[q] # "handle" /\ at'[q] # "sleep"
      BY <2>1, <3>3 DEF Holds
    <3>5. CASE r \in Subject(u) /\ handled'[r] = handled[r] + 1
      <4>1. handled'[r] = 1
        BY <1>1, <1>6, <3>2, <3>5 DEF First
      <4>2. (\E q \in Part : r \in album'[q]) \/ at'[r] \in {"clear", "unlock", "done"}
        BY <1>1, <1>6, <2>1, <2>3, <3>5
      <4>3. \E q \in Part : at'[q] = "clear" /\ r \in Subject(q)'
        BY <1>6, <2>1, <2>2, <3>5
      <4> QED
        BY <3>4, <4>1, <4>2, <4>3 DEF First
    <3>6. CASE r \notin Subject(u) /\ handled'[r] = handled[r]
      BY <1>1, <1>6, <2>1, <2>2, <3>2, <3>4, <3>6 DEF First
    <3> QED
      BY <1>4, <3>5, <3>6
  <2> QED
    BY <2>4, <2>5, <2>6, <2>7 DEF AlbumInv
<1> QED
  BY <1>5, <1>6

\* Nobody waits to read the list that is deleted.
LEMMA AlbumClear ==
  ASSUME TypeInv, AlbumInv, NEW p \in Part, Clear(p), ~ Fails(p)
  PROVE  AlbumInv'
<1>0. p \in Update /\ Part \subseteq Update
  BY DEF Update
<1>1. /\ at[p] = "clear" /\ list' = {} /\ Moves(p, "unlock")
      /\ UNCHANGED <<lock, album, handled, late, reread, spoiled, outlived>>
  BY <1>0, MovesIf DEF Clear
<1>2. at'[p] = "unlock" /\ \A q \in Part : q # p => at'[q] = at[q]
  BY <1>0, <1>1 DEF Moves
<1>3. ~ outlived => \A q \in Part : at[q] # "sleep"
  BY <1>1 DEF AlbumInv, HolderInv, Holds
<1>4. HolderInv' /\ FreshInv'
  BY <1>1, <1>2 DEF AlbumInv, HolderInv, FreshInv, Fresh, Holds
<1>5. AccountInv'
  BY <1>1, <1>2, <1>3, SubjectOfPart DEF AlbumInv, AccountInv, Accounted, Holds
<1>6. OnceInv'
  BY <1>1, <1>2, SubjectOfPart DEF AlbumInv, OnceInv, First
<1> QED
  BY <1>4, <1>5, <1>6 DEF AlbumInv

LEMMA AlbumUnlock ==
  ASSUME TypeInv, AlbumInv, NEW p \in Part, Unlock(p)
  PROVE  AlbumInv'
<1>0. p \in Update /\ Part \subseteq Update
  BY DEF Update
<1>1. /\ at[p] = "unlock" /\ Moves(p, "done")
      /\ UNCHANGED <<list, album, handled, late, reread, spoiled, outlived>>
  BY <1>0, MovesIf DEF Unlock
<1>2. at'[p] = "done" /\ \A q \in Part : q # p => at'[q] = at[q]
  BY <1>0, <1>1 DEF Moves
<1>4. HolderInv' /\ FreshInv'
  BY <1>1, <1>2 DEF AlbumInv, HolderInv, FreshInv, Fresh, Holds
<1>5. AccountInv'
  BY <1>1, <1>2, SubjectOfPart DEF AlbumInv, AccountInv, Accounted, Holds
<1>6. OnceInv'
  BY <1>1, <1>2, SubjectOfPart DEF AlbumInv, OnceInv, First
<1> QED
  BY <1>4, <1>5, <1>6 DEF AlbumInv

LEMMA AlbumPart ==
  ASSUME TypeInv, AlbumInv, NEW p \in Part, PartStep(p)
  PROVE  AlbumInv'
<1>1. CASE Push(p)
  <2>1. CASE ~ Fails(p)
    BY <1>1, <2>1, AlbumPush
  <2>2. CASE Fails(p)
    <3>1. GivesUp(p)
      BY <1>1, <2>2, FailsMoves DEF Push, GivesUp
    <3> QED
      BY <3>1, AlbumGivesUp
  <2> QED
    BY <2>1, <2>2
<1>2. CASE LoseLock(p)
  <2>1. lock => lock'
    BY <1>2 DEF LoseLock, TypeInv, AlbumType
  <2>2. GivesUp(p)
    BY <1>2, <2>1, FailsMoves DEF LoseLock, GivesUp
  <2> QED
    BY <2>2, AlbumGivesUp
<1>3. CASE Clear(p)
  <2>1. CASE ~ Fails(p)
    BY <1>3, <2>1, AlbumClear
  <2>2. CASE Fails(p)
    <3>1. GivesUp(p)
      BY <1>3, <2>2, FailsMoves DEF Clear, GivesUp
    <3> QED
      BY <3>1, AlbumGivesUp
  <2> QED
    BY <2>1, <2>2
<1>4. CASE SetLock(p) \/ FindLock(p) \/ Unlock(p)
  BY <1>4, AlbumSetLock, AlbumFindLock, AlbumUnlock
<1>5. CASE Read(p)
  BY <1>5, AlbumRead, AlbumUnread
<1> QED
  BY <1>1, <1>2, <1>3, <1>4, <1>5 DEF PartStep

\* A lock with a holder does not expire but as one that was outlived; a list that
\* somebody waits to read does not expire.
LEMMA AlbumExpires ==
  ASSUME TypeInv, AlbumInv, LockExpires \/ ListExpires
  PROVE  AlbumInv'
<1>1. CASE LockExpires
  <2>1. /\ UNCHANGED <<at, list, album, handled, late, reread, spoiled>>
        /\ ~ outlived' => ~ outlived /\ \A p \in Part : ~ Holds(p)
    BY <1>1 DEF LockExpires, Collecting, Holds
  <2>2. HolderInv' /\ FreshInv'
    BY <2>1 DEF AlbumInv, HolderInv, FreshInv, Fresh, Holds
  <2>3. AccountInv'
    BY <2>1, SubjectOfPart DEF AlbumInv, AccountInv, Accounted, Holds
  <2>4. OnceInv'
    BY <2>1, SubjectOfPart DEF AlbumInv, OnceInv, First
  <2> QED
    BY <2>2, <2>3, <2>4 DEF AlbumInv
<1>2. CASE ListExpires
  <2>1. /\ UNCHANGED <<at, lock, album, handled, late, reread, spoiled, outlived>>
        /\ list' = {} /\ \A p \in Part : at[p] # "sleep"
    BY <1>2 DEF ListExpires, Collecting
  <2>2. HolderInv' /\ FreshInv'
    BY <2>1 DEF AlbumInv, HolderInv, FreshInv, Fresh, Holds
  <2>3. AccountInv'
    BY <2>1, SubjectOfPart DEF AlbumInv, AccountInv, Accounted, Holds
  <2>4. OnceInv'
    BY <2>1, SubjectOfPart DEF AlbumInv, OnceInv, First
  <2> QED
    BY <2>2, <2>3, <2>4 DEF AlbumInv
<1> QED
  BY <1>1, <1>2

\* What a stop leaves undone is spoiled.
Stops ==
    /\ \A p \in Part :
          \/ at'[p] = at[p] /\ ~ Runs(p)
          \/ at'[p] = "none" /\ at[p] \in {"loaded", "read"}
          \/ at'[p] = "done" /\ Runs(p)
          \/ at'[p] = "clear" /\ at[p] \in {"sleep", "handle"}
    /\ spoiled' = spoiled \union Interrupted
    /\ UNCHANGED <<list, lock, album, handled, late, reread, outlived>>

LEMMA AlbumStops ==
  ASSUME TypeInv, AlbumInv, Stops
  PROVE  AlbumInv'
<1>1. \A p \in Part : Runs(p) => p \in Interrupted
  BY DEF Interrupted, Update
<1>2. \A p, q \in Part : at[q] \in {"handle", "clear"} /\ p \in Subject(q) => p \in Interrupted
  BY DEF Interrupted, Update
<1>3. \A p, q \in Part : at[q] = "sleep" /\ p \in list => p \in Interrupted
  BY DEF Interrupted
<1>4. /\ UNCHANGED <<list, lock, album, handled, late, reread, outlived>>
      /\ \A p \in Part : p \in spoiled \/ p \in Interrupted => p \in spoiled'
      /\ \A p \in Part : at'[p] \notin {"sleep", "handle", "waiting", "push", "lock"}
      /\ \A p \in Part : Holds(p)' => Holds(p)
      /\ \A p \in Part : Fresh(p)' => Fresh(p)
  BY DEF Stops, Holds, Fresh
<1>5. HolderInv' /\ FreshInv'
  BY <1>4 DEF AlbumInv, HolderInv, FreshInv, Fresh, Holds
<1>6. AccountInv'
  <2> SUFFICES ASSUME ~ outlived', NEW r \in Part, Holds(r)' \/ at'[r] = "done"
               PROVE  Accounted(r)'
    BY DEF AccountInv
  <2>1. CASE r \in Interrupted
    BY <1>4, <2>1 DEF Accounted
  <2>2. CASE r \notin Interrupted
    <3>1. at[r] = "done"
      BY <1>1, <2>2 DEF Stops, Holds
    <3>2. Accounted(r)
      BY <1>4, <3>1 DEF AlbumInv, AccountInv
    <3> QED
      BY <1>2, <1>3, <1>4, <2>2, <3>2 DEF Accounted
  <2> QED
    BY <2>1, <2>2
<1>7. OnceInv'
  <2> SUFFICES ASSUME ~ outlived', NEW r \in Part, r \notin reread', r \notin spoiled'
               PROVE  First(r)'
    BY DEF OnceInv
  <2>1. ~ outlived /\ r \notin reread /\ r \notin spoiled /\ r \notin Interrupted
    BY <1>4
  <2>2. First(r) /\ (at'[r] = at[r] \/ (at'[r] = "none" /\ at[r] \in {"loaded", "read"}))
    BY <1>1, <2>1 DEF AlbumInv, OnceInv, Stops
  <2> QED
    BY <1>2, <1>4, <2>1, <2>2 DEF First
<1> QED
  BY <1>5, <1>6, <1>7 DEF AlbumInv

LEMMA AlbumServer ==
  ASSUME TypeInv, AlbumInv, Shutdown \/ Crash
  PROVE  AlbumInv'
<1>0. /\ Part \subseteq Update
      /\ at \in [Update -> InSection \union {"none", "loaded", "read", "waiting", "done"}]
  BY DEF Update, TypeInv, TaskType
<1>1. CASE Shutdown
  <2>1. PICK tried \in SUBSET {p \in Part : at[p] = "sleep"} :
          at' = [u \in Update |->
              IF u \in tried \/ (u \in Part /\ at[u] = "handle") THEN "clear" ELSE Dropped(u)]
    BY <1>1 DEF Shutdown
  <2>2. \A p \in Part :
          \/ at'[p] = at[p] /\ ~ Runs(p)
          \/ at'[p] = "none" /\ at[p] \in {"loaded", "read"}
          \/ at'[p] = "done" /\ Runs(p)
          \/ at'[p] = "clear" /\ at[p] \in {"sleep", "handle"}
    BY <1>0, <2>1 DEF Dropped
  <2>3. Stops
    BY <1>1, <2>2 DEF Shutdown, Stops
  <2> QED
    BY <2>3, AlbumStops
<1>2. CASE Crash
  <2>1. Stops
    BY <1>0, <1>2 DEF Crash, Dropped, Stops
  <2> QED
    BY <2>1, AlbumStops
<1> QED
  BY <1>1, <1>2

LEMMA AlbumNext == TypeInv /\ AlbumInv /\ [Next]_vars => AlbumInv'
<1> SUFFICES ASSUME TypeInv, AlbumInv, [Next]_vars PROVE AlbumInv'
  OBVIOUS
<1>1. CASE \E u \in Update : Look(u) \/ Accept(u)
  BY <1>1, AlbumBegin
<1>2. ASSUME NEW u \in Update, TaskStep(u) PROVE AlbumInv'
  <2>1. CASE Acquire(u)
    BY <2>1, AlbumBegin
  <2>2. CASE Handle(u) \/ UserbotTokenInvalid(u)
    BY <2>2, AlbumHandle
  <2>3. CASE u \in Part /\ PartStep(u)
    BY <2>3, AlbumPart
  <2> QED
    BY <1>2, <2>1, <2>2, <2>3 DEF TaskStep
<1>3. CASE LockExpires \/ ListExpires
  BY <1>3, AlbumExpires
<1>4. CASE Shutdown \/ Crash
  BY <1>4, AlbumServer
<1>5. CASE Close \/ Start \/ (\E b \in Bot : Drop(b) \/ Revoke(b)) \/ UNCHANGED vars
  <2>1. AlbumFrame /\ \A p \in Part : at'[p] = at[p]
    BY <1>5 DEF Close, Start, Drop, Revoke, vars, AlbumFrame
  <2> QED
    BY <2>1, AlbumStill
<1>6. CASE \E b \in Bot : SaveToken(b)
  <2>1. AlbumFrame /\ \A p \in Part : at'[p] = at[p]
    BY <1>6 DEF SaveToken, AlbumFrame
  <2> QED
    BY <2>1, AlbumStill
<1> QED
  BY <1>1, <1>2, <1>3, <1>4, <1>5, <1>6 DEF Next
-----------------------------------------------------------------------------
\* The invariant holds in every state that is reached.
THEOREM Invariance == Spec => []IInv
<1>1. Init => IInv
  BY InitInv
<1>2. IInv /\ [Next]_vars => IInv'
  BY NextInv
<1> QED
  BY <1>1, <1>2, PTL DEF Spec

\* Every variable keeps its type; the cache holds no two instances of a userbot.
THEOREM Typed == Spec => []TypeOK
<1>1. IInv => TypeOK
  BY TypeInvType DEF IInv
<1> QED
  BY <1>1, Invariance, PTL

\* A userbot with a valid token is switched off as unauthorized only by an update that
\* was under way when its token was replaced, or was handed a row from Redis still with
\* the old one (tg_webhook.py, CachedUserBotRepository.get_by_id,
\* BotResolver.get_or_create, on_token_invalid).
THEOREM SwitchedOffByOvertaken == Spec => []OnlyOvertakenUpdatesSwitchOff
<1>1. IInv => OnlyOvertakenUpdatesSwitchOff
  BY DEF IInv
<1> QED
  BY <1>1, Invariance, PTL

\* So does what is known of the album.
LEMMA AlbumInvariance == Spec => []AlbumInv
<1>1. Init => AlbumInv
  BY AlbumInit
<1>2. IInv /\ AlbumInv /\ [Next]_vars => AlbumInv'
  BY AlbumNext DEF IInv
<1> QED
  BY <1>1, <1>2, Invariance, PTL DEF Spec

\* When all tasks have ended, every part of an album was handled, but for those of a
\* handler that failed or was cancelled and those that came late (MediaGroupMiddleware).
THEOREM EveryPartIsHandled == Spec => []PartsAreHandled
<1>1. IInv /\ AlbumInv => PartsAreHandled
  <2> SUFFICES ASSUME IInv, AlbumInv, Quiet, ~ outlived, NEW p \in Part, at[p] = "done"
               PROVE  handled[p] > 0 \/ p \in late \/ p \in spoiled
    BY DEF PartsAreHandled
  <2>1. Accounted(p)
    BY DEF AlbumInv, AccountInv
  <2>2. \A q \in Part : at[q] # "sleep" /\ at[q] # "handle"
    BY DEF Quiet, Update
  <2> QED
    BY <2>1, <2>2 DEF Accounted
<1> QED
  BY <1>1, Invariance, AlbumInvariance, PTL

\* No part is handled twice, but for one that set the lock after an album with it was
\* read and for a list that a stopped task could not delete (MediaGroupMiddleware).
THEOREM NoPartIsHandledTwice == Spec => []PartsAreHandledOnce
<1>1. AlbumInv => PartsAreHandledOnce
  BY DEF AlbumInv, OnceInv, First, PartsAreHandledOnce
<1> QED
  BY <1>1, AlbumInvariance, PTL
=============================================================================
