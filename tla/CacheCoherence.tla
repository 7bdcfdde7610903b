--------------------------- MODULE CacheCoherence ---------------------------
(***************************************************************************)
(* The read-through Redis cache of Kita in front of Postgres: the          *)
(* UnitOfWork (database/uow.py), the CacheJournal (database/redis/         *)
(* journal.py) and CachedRepository (database/repository/cached/).         *)
(*                                                                         *)
(* A session is the request scope of one handler: one AsyncSession, one    *)
(* journal, one unit of work.  The contents of a row are abstracted to a   *)
(* version number, fresh for every write, 0 standing for "no row"; a cache *)
(* entry is the vector of the row versions it was computed from, so that   *)
(* stale, uncommitted and rolled-back data can be told apart.              *)
(*                                                                         *)
(* Postgres runs at READ COMMITTED: a select sees the committed rows and   *)
(* the session's own writes, and a written row stays locked to its end.    *)
(***************************************************************************)
EXTENDS Naturals

CONSTANTS
    Session,     \* request scopes running concurrently (webhook process, worker)
    Row,         \* rows of Postgres
    CacheKey,    \* keys of Redis
    Reads,       \* Reads[k]: the rows the loader of key k selects
    Invalidates, \* Invalidates[r]: the keys an update of row r invalidates
    Primary,     \* Primary[k]: the row whose absence makes the loader return None
    NoRow,       \* Primary[k] of an aggregate, whose loader always has a value
    NoKey,       \* no _cache_or_load in progress
    NoEntry,     \* a key absent from Redis
    NoOp,        \* no journalled operation for a key
    Delete,      \* the journalled operation of invalidate(), _DELETE in the code
    MaxVersion,  \* bound: writes in a behaviour
    MaxDepth     \* bound: nesting of transaction() blocks

Snapshot == [Row -> Nat]

ASSUME ReadsAssumption == Reads \in [CacheKey -> SUBSET Row]
ASSUME InvalidatesAssumption == Invalidates \in [Row -> SUBSET CacheKey]
\* get_or_create is offered for keys whose row invalidates that key alone.
ASSUME PrimaryAssumption ==
    /\ Primary \in [CacheKey -> Row \union {NoRow}]
    /\ NoRow \notin Row
    /\ \A k \in CacheKey : Primary[k] \in Row =>
          Primary[k] \in Reads[k] /\ Invalidates[Primary[k]] \subseteq {k}
ASSUME NullAssumption ==
    /\ NoEntry \notin Snapshot
    /\ NoOp \notin Snapshot /\ Delete \notin Snapshot /\ NoOp # Delete
ASSUME BoundAssumption == MaxVersion \in Nat /\ MaxDepth \in Nat \ {0}

VARIABLES
    db,        \* committed version of each row
    committed, \* history: the versions of each row that were its committed value
    cache,     \* Redis
    phase,     \* unit of work: "idle", "txn" inside transaction(), "flush" after COMMIT
    depth,     \* transaction() blocks the session is in, the nested ones included
    writes,    \* uncommitted version the session wrote to each row, 0 if none
    pending,   \* CacheJournal._pending
    stage,     \* _cache_or_load: "ready", "load" after a miss, "store" before the SET
    key,       \* the key _cache_or_load works on
    loaded,    \* what its loader returned
    version,   \* versions used so far
    issued,    \* history: versions written inside the current outermost block
    durable,   \* history: versions written inside a block that was committed
    aborted,   \* history: versions written inside a block that was rolled back
    tainted    \* history: keys a late fill or a lost operation may have left stale

sessionVars == <<phase, depth, writes, pending, stage, key, loaded>>
vars == <<db, committed, cache, sessionVars, version, issued, durable, aborted, tainted>>

NoWrites == [r \in Row |-> 0]
NoPending == [k \in CacheKey |-> NoOp]

(***************************************************************************)
(* What a select of the session returns, and the cached form of key k.     *)
(***************************************************************************)
Visible(s, r) == IF writes[s][r] # 0 THEN writes[s][r] ELSE db[r]

SnapshotOf(s, k) == [r \in Row |-> IF r \in Reads[k] THEN Visible(s, r) ELSE 0]

LoadsNone(s, k) == Primary[k] \in Row /\ Visible(s, Primary[k]) = 0

Locked(s, r) == \E t \in Session \ {s} : writes[t][r] # 0

(***************************************************************************)
(* A snapshot of k that some row with an invalidation for k has outrun.    *)
(***************************************************************************)
Outdated(k, snap) == \E r \in Reads[k] : k \in Invalidates[r] /\ snap[r] # db[r]

Retaint(k, isTainted) == IF isTainted THEN tainted \union {k} ELSE tainted \ {k}

Init ==
    /\ db = [r \in Row |-> 0]
    /\ committed = [r \in Row |-> {0}]
    /\ cache = [k \in CacheKey |-> NoEntry]
    /\ phase = [s \in Session |-> "idle"]
    /\ depth = [s \in Session |-> 0]
    /\ writes = [s \in Session |-> NoWrites]
    /\ pending = [s \in Session |-> NoPending]
    /\ stage = [s \in Session |-> "ready"]
    /\ key = [s \in Session |-> NoKey]
    /\ loaded = [s \in Session |-> NoWrites]
    /\ version = 0
    /\ issued = [s \in Session |-> {}]
    /\ durable = {}
    /\ aborted = {}
    /\ tainted = {}

(***************************************************************************)
(* COMMIT makes the session's writes the committed rows.                   *)
(***************************************************************************)
Publish(s) ==
    /\ db' = [r \in Row |-> Visible(s, r)]
    /\ committed' = [r \in Row |-> committed[r] \union {Visible(s, r)}]
    /\ durable' = durable \union issued[s]

-----------------------------------------------------------------------------
(***************************************************************************)
(* async with uow.transaction(): the outermost block opens the journal, a  *)
(* nested one only yields.                                                 *)
(***************************************************************************)
Begin(s) ==
    /\ phase[s] = "idle" /\ stage[s] = "ready"
    /\ phase' = [phase EXCEPT ![s] = "txn"]
    /\ depth' = [depth EXCEPT ![s] = 1]
    /\ UNCHANGED <<db, committed, cache, writes, pending, stage, key, loaded,
                   version, issued, durable, aborted, tainted>>

EnterNested(s) ==
    /\ phase[s] = "txn" /\ stage[s] = "ready" /\ depth[s] < MaxDepth
    /\ depth' = [depth EXCEPT ![s] = @ + 1]
    /\ UNCHANGED <<db, committed, cache, phase, writes, pending, stage, key, loaded,
                   version, issued, durable, aborted, tainted>>

\* Mutants: leaving a nested block commits; the block count is not kept at one.
MutInnerExitCommits(s) ==
    /\ phase[s] = "txn" /\ stage[s] = "ready" /\ depth[s] > 1
    /\ depth' = [depth EXCEPT ![s] = @ - 1]
    /\ Publish(s)
    /\ writes' = [writes EXCEPT ![s] = NoWrites]
    /\ UNCHANGED <<cache, phase, pending, stage, key, loaded,
                   version, issued, aborted, tainted>>

MutExitUnguarded(s) ==
    /\ phase[s] = "txn" /\ stage[s] = "ready"
    /\ depth' = [depth EXCEPT ![s] = @ - 1]
    /\ UNCHANGED <<db, committed, cache, phase, writes, pending, stage, key, loaded,
                   version, issued, durable, aborted, tainted>>

ExitNested(s) ==
    /\ phase[s] = "txn" /\ stage[s] = "ready" /\ depth[s] > 1
    /\ depth' = [depth EXCEPT ![s] = @ - 1]
    /\ UNCHANGED <<db, committed, cache, phase, writes, pending, stage, key, loaded,
                   version, issued, durable, aborted, tainted>>

\* Mutant: the repository writes the row and forgets its cached copies.
MutUpdateWithoutInvalidate(s, r) ==
    /\ phase[s] = "txn" /\ stage[s] = "ready"
    /\ version < MaxVersion /\ ~Locked(s, r)
    /\ version' = version + 1
    /\ writes' = [writes EXCEPT ![s][r] = version + 1]
    /\ issued' = [issued EXCEPT ![s] = @ \union {version + 1}]
    /\ UNCHANGED <<db, committed, cache, phase, depth, pending, stage, key, loaded,
                   durable, aborted, tainted>>

(***************************************************************************)
(* update(), save(), create(), apply_verdict() of a cached repository: the *)
(* row is written, then its keys are invalidated through the journal.      *)
(***************************************************************************)
Update(s, r) ==
    /\ phase[s] = "txn" /\ stage[s] = "ready"
    /\ version < MaxVersion /\ ~Locked(s, r)
    /\ version' = version + 1
    /\ writes' = [writes EXCEPT ![s][r] = version + 1]
    /\ issued' = [issued EXCEPT ![s] = @ \union {version + 1}]
    /\ pending' = [pending EXCEPT ![s] =
                     [k \in CacheKey |-> IF k \in Invalidates[r] THEN Delete ELSE @[k]]]
    /\ UNCHANGED <<db, committed, cache, phase, depth, stage, key, loaded,
                   durable, aborted, tainted>>

(***************************************************************************)
(* _cache_or_load.  A hit changes nothing; a miss goes to the loader.      *)
(***************************************************************************)
GetMiss(s, k) ==
    /\ phase[s] \in {"idle", "txn"} /\ stage[s] = "ready"
    /\ cache[k] = NoEntry
    /\ stage' = [stage EXCEPT ![s] = "load"]
    /\ key' = [key EXCEPT ![s] = k]
    /\ UNCHANGED <<db, committed, cache, phase, depth, writes, pending, loaded,
                   version, issued, durable, aborted, tainted>>

\* _cache_or_load returns to its caller.
Return(s) ==
    /\ stage' = [stage EXCEPT ![s] = "ready"]
    /\ key' = [key EXCEPT ![s] = NoKey]

\* Mutant: the journal is not active, the SET goes to Redis before the COMMIT.
MutLoadBypassesJournal(s) ==
    LET k == key[s] IN
    /\ phase[s] = "txn" /\ stage[s] = "load"
    /\ Return(s)
    /\ cache' = IF LoadsNone(s, k) THEN cache
                ELSE [cache EXCEPT ![k] = SnapshotOf(s, k)]
    /\ UNCHANGED <<db, committed, phase, depth, writes, pending, loaded,
                   version, issued, durable, aborted, tainted>>

\* Inside a transaction the result goes to the journal, in memory.
LoadInTransaction(s) ==
    LET k == key[s] IN
    /\ phase[s] = "txn" /\ stage[s] = "load"
    /\ Return(s)
    /\ pending' = IF LoadsNone(s, k) THEN pending
                  ELSE [pending EXCEPT ![s][k] = SnapshotOf(s, k)]
    /\ UNCHANGED <<db, committed, cache, phase, depth, writes, loaded,
                   version, issued, durable, aborted, tainted>>

\* get_or_create: INSERT ... ON CONFLICT DO NOTHING, populate=False.
LoadOrCreate(s) ==
    LET k == key[s]
        p == Primary[k]
    IN
    /\ phase[s] = "txn" /\ stage[s] = "load" /\ p \in Row
    /\ ~Locked(s, p)
    /\ Return(s)
    /\ pending' = [pending EXCEPT ![s][k] = Delete]
    /\ \/ /\ Visible(s, p) = 0 /\ version < MaxVersion
          /\ version' = version + 1
          /\ writes' = [writes EXCEPT ![s][p] = version + 1]
          /\ issued' = [issued EXCEPT ![s] = @ \union {version + 1}]
       \/ /\ Visible(s, p) # 0
          /\ UNCHANGED <<version, writes, issued>>
    /\ UNCHANGED <<db, committed, cache, phase, depth, loaded, durable,
                   aborted, tainted>>

\* Outside a transaction the SET is a Redis call of its own, after the select.
LoadOutside(s) ==
    LET k == key[s] IN
    /\ phase[s] = "idle" /\ stage[s] = "load"
    /\ \/ /\ LoadsNone(s, k)
          /\ Return(s)
          /\ UNCHANGED loaded
       \/ /\ ~LoadsNone(s, k)
          /\ stage' = [stage EXCEPT ![s] = "store"]
          /\ loaded' = [loaded EXCEPT ![s] = SnapshotOf(s, k)]
          /\ UNCHANGED key
    /\ UNCHANGED <<db, committed, cache, phase, depth, writes, pending,
                   version, issued, durable, aborted, tainted>>

Store(s) ==
    LET k == key[s] IN
    /\ phase[s] = "idle" /\ stage[s] = "store"
    /\ cache' = [cache EXCEPT ![k] = loaded[s]]
    /\ tainted' = Retaint(k, Outdated(k, loaded[s]))
    /\ Return(s)
    /\ loaded' = [loaded EXCEPT ![s] = NoWrites]
    /\ UNCHANGED <<db, committed, phase, depth, writes, pending,
                   version, issued, durable, aborted>>

-----------------------------------------------------------------------------
(***************************************************************************)
(* The end of the outermost block.                                         *)
(***************************************************************************)
\* The session is back outside every block, with nothing of the transaction left.
Leave(s) ==
    /\ phase' = [phase EXCEPT ![s] = "idle"]
    /\ depth' = [depth EXCEPT ![s] = 0]
    /\ writes' = [writes EXCEPT ![s] = NoWrites]
    /\ pending' = [pending EXCEPT ![s] = NoPending]
    /\ loaded' = [loaded EXCEPT ![s] = NoWrites]
    /\ issued' = [issued EXCEPT ![s] = {}]
    /\ Return(s)
    /\ UNCHANGED version

\* The keys whose journalled operation disappears with the journal.
Lost(s) == {k \in CacheKey : pending[s][k] # NoOp}

Commit(s) ==
    /\ phase[s] = "txn" /\ stage[s] = "ready" /\ depth[s] = 1
    /\ Publish(s)
    /\ phase' = [phase EXCEPT ![s] = "flush"]
    /\ writes' = [writes EXCEPT ![s] = NoWrites]
    /\ issued' = [issued EXCEPT ![s] = {}]
    /\ UNCHANGED <<cache, depth, pending, stage, key, loaded,
                   version, aborted, tainted>>

\* session.commit() raises although the server committed: the journal is discarded.
CommitUnacknowledged(s) ==
    /\ phase[s] = "txn" /\ stage[s] = "ready" /\ depth[s] = 1
    /\ Publish(s)
    /\ tainted' = tainted \union Lost(s)
    /\ Leave(s)
    /\ UNCHANGED <<cache, aborted>>

\* Any exception inside the block, or a COMMIT the server refused.
Rollback(s) ==
    /\ phase[s] = "txn"
    /\ aborted' = aborted \union issued[s]
    /\ Leave(s)
    /\ UNCHANGED <<db, committed, cache, durable, tainted>>

\* journal.flush(): one Redis call per operation, a failure is logged and dropped.
FlushOp(s, k) ==
    /\ phase[s] = "flush" /\ pending[s][k] # NoOp
    /\ pending' = [pending EXCEPT ![s][k] = NoOp]
    /\ \/ /\ pending[s][k] = Delete
          /\ cache' = [cache EXCEPT ![k] = NoEntry]
          /\ tainted' = tainted \ {k}
       \/ /\ pending[s][k] # Delete
          /\ cache' = [cache EXCEPT ![k] = pending[s][k]]
          /\ tainted' = Retaint(k, Outdated(k, pending[s][k]))
       \/ /\ tainted' = tainted \union {k}
          /\ UNCHANGED cache
    /\ UNCHANGED <<db, committed, phase, depth, writes, stage, key, loaded,
                   version, issued, durable, aborted>>

EndTransaction(s) ==
    /\ phase[s] = "flush" /\ pending[s] = NoPending
    /\ Leave(s)
    /\ UNCHANGED <<db, committed, cache, durable, aborted, tainted>>

\* CancelledError (shutdown) or a process crash: no except clause runs; the
\* request scope is closed, which rolls an uncommitted transaction back.
Cancel(s) ==
    /\ phase[s] # "idle" \/ stage[s] # "ready"
    /\ aborted' = IF phase[s] = "txn" THEN aborted \union issued[s] ELSE aborted
    /\ tainted' = IF phase[s] = "flush" THEN tainted \union Lost(s) ELSE tainted
    /\ Leave(s)
    /\ UNCHANGED <<db, committed, cache, durable>>

\* Mutant: the SET carries no TTL.
MutNoExpiry(k) == FALSE /\ UNCHANGED vars

\* The TTL every SET carries, or an entry that no longer decodes.
Expire(k) ==
    /\ cache[k] # NoEntry
    /\ cache' = [cache EXCEPT ![k] = NoEntry]
    /\ tainted' = tainted \ {k}
    /\ UNCHANGED <<db, committed, sessionVars, version, issued, durable, aborted>>

SessionStep(s) ==
    \/ Begin(s) \/ EnterNested(s) \/ ExitNested(s)
    \/ \E r \in Row : Update(s, r)
    \/ \E k \in CacheKey : GetMiss(s, k)
    \/ LoadInTransaction(s) \/ LoadOrCreate(s) \/ LoadOutside(s) \/ Store(s)
    \/ Commit(s) \/ CommitUnacknowledged(s) \/ Rollback(s)
    \/ \E k \in CacheKey : FlushOp(s, k)
    \/ EndTransaction(s) \/ Cancel(s)

Next ==
    \/ \E s \in Session : SessionStep(s)
    \/ \E k \in CacheKey : Expire(k)

Spec == Init /\ [][Next]_vars

(***************************************************************************)
(* Fairness: a handler's awaits end (statement timeouts, Redis socket      *)
(* timeouts), so a fill, a flush and a transaction do too; every entry has *)
(* a TTL, so it is eventually gone.                                        *)
(***************************************************************************)
Fairness ==
    /\ \A s \in Session :
          /\ WF_vars(LoadOutside(s) \/ Store(s))
          /\ WF_vars(Commit(s) \/ Rollback(s))
          /\ WF_vars((\E k \in CacheKey : FlushOp(s, k)) \/ EndTransaction(s))
    /\ \A k \in CacheKey : WF_vars(Expire(k))

LiveSpec == Spec /\ Fairness

-----------------------------------------------------------------------------
TypeOK ==
    /\ db \in [Row -> Nat]
    /\ committed \in [Row -> SUBSET Nat]
    /\ cache \in [CacheKey -> Snapshot \union {NoEntry}]
    /\ phase \in [Session -> {"idle", "txn", "flush"}]
    /\ depth \in [Session -> Nat]
    /\ writes \in [Session -> [Row -> Nat]]
    /\ pending \in [Session -> [CacheKey -> Snapshot \union {NoOp, Delete}]]
    /\ stage \in [Session -> {"ready", "load", "store"}]
    /\ key \in [Session -> CacheKey \union {NoKey}]
    /\ \A s \in Session : stage[s] # "ready" => key[s] \in CacheKey
    /\ loaded \in [Session -> Snapshot]
    /\ version \in Nat
    /\ issued \in [Session -> SUBSET Nat]
    /\ durable \in SUBSET Nat
    /\ aborted \in SUBSET Nat
    /\ tainted \in SUBSET CacheKey

(***************************************************************************)
(* CacheHoldsCommitted: whatever a cache entry was computed from has been  *)
(* committed.  No reader of Redis ever sees a write of an open or a        *)
(* rolled-back transaction (journal.py: "Cache operations apply only after *)
(* a successful COMMIT").  For a row whose updates invalidate the key it   *)
(* was even the row's committed value; an embedded row may be caught at a  *)
(* value its transaction overwrote before it committed.                    *)
(***************************************************************************)
CacheHoldsCommitted ==
    \A k \in CacheKey : cache[k] # NoEntry =>
        \A r \in Row :
            IF k \in Invalidates[r] THEN cache[k][r] \in committed[r]
                                    ELSE cache[k][r] \in durable \union {0}

(***************************************************************************)
(* AllOrNothing: what a block wrote before it failed is never in the       *)
(* database, nested blocks included (uow.py: "only the outer block handles *)
(* commit/rollback").                                                      *)
(***************************************************************************)
AllOrNothing == \A r \in Row : committed[r] \intersect aborted = {}

\* A session has committed and has yet to apply its operation on k.
FlushDue(k) == \E s \in Session : phase[s] = "flush" /\ pending[s][k] # NoOp

(***************************************************************************)
(* StaleExplained: an entry that lags a row its repository invalidates it  *)
(* for has one of three causes and no other: the writer has committed and  *)
(* has yet to flush, the entry was filled from a select older than the     *)
(* write, or the invalidation was lost with its process or connection.     *)
(***************************************************************************)
StaleExplained ==
    \A k \in CacheKey :
        cache[k] # NoEntry /\ Outdated(k, cache[k]) =>
            k \in tainted \/ FlushDue(k)

\* The keys whose entries a session may still invalidate, or that none will.
Doubt == tainted \union {k \in CacheKey : FlushDue(k)}

Abstract == INSTANCE ReadThrough WITH
    store <- db, seen <- committed, ever <- durable \union {0}, entry <- cache, doubt <- Doubt

(***************************************************************************)
(* Whatever the journals, the nested blocks and the calls to Redis are in  *)
(* the middle of, the cache is a read-through cache: versions are          *)
(* published once and together, entries are filled from those only, and no *)
(* key gets out of doubt but by being filled or deleted (CacheJournal,     *)
(* _cache_or_load).                                                        *)
(***************************************************************************)
ImplementsReadThrough == Abstract!Spec

(***************************************************************************)
(* CacheConverges: once the writes stop, every key, those that no update   *)
(* invalidates included, is eventually either absent or up to date.        *)
(***************************************************************************)
UpToDate(k) == \A r \in Reads[k] : cache[k][r] = db[r]

CacheConverges == <>[](\A k \in CacheKey : cache[k] # NoEntry => UpToDate(k))

-----------------------------------------------------------------------------
(***************************************************************************)
(* The inductive strengthening of the safety properties.  VersionInv: a    *)
(* version belongs to one open, committed or aborted transaction.          *)
(* JournalInv: what the journal and a fill hold may be cached once the     *)
(* session's transaction is committed, and a row that is written has an    *)
(* operation journalled for every key its update must invalidate.          *)
(***************************************************************************)
VersionInv ==
    /\ \A r \in Row : /\ 0 \in committed[r] /\ db[r] \in committed[r]
                      /\ committed[r] \subseteq durable \union {0}
    /\ \A s \in Session :
          /\ \A r \in Row : writes[s][r] \in issued[s] \union {0}
          /\ phase[s] # "txn" => issued[s] = {}
          /\ issued[s] \intersect (durable \union aborted) = {}
          /\ \A t \in Session \ {s} : issued[s] \intersect issued[t] = {}
          /\ \A v \in issued[s] : 0 < v /\ v <= version
    /\ durable \intersect aborted = {}
    /\ \A v \in durable \union aborted : 0 < v /\ v <= version

Committable(s, k, snap) ==
    \A r \in Row :
        IF k \in Invalidates[r] THEN snap[r] \in committed[r] \union {writes[s][r]}
                                ELSE snap[r] \in durable \union issued[s] \union {0}

JournalInvOf(s) ==
    /\ \A k \in CacheKey :
          pending[s][k] \in Snapshot => Committable(s, k, pending[s][k])
    /\ stage[s] = "store" => phase[s] = "idle" /\ Committable(s, key[s], loaded[s])
    /\ \A r \in Row : \A k \in Invalidates[r] :
          writes[s][r] # 0 => pending[s][k] # NoOp

JournalInv == \A s \in Session : JournalInvOf(s)
=============================================================================
