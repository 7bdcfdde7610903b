----------------------- MODULE CacheCoherence_proofs -----------------------
(***************************************************************************)
(* Proofs about CacheCoherence, for any number of sessions, rows and keys  *)
(* and any bounds.                                                         *)
(***************************************************************************)
EXTENDS CacheCoherence, TLAPS

(***************************************************************************)
(* Type correctness.                                                       *)
(***************************************************************************)
LEMMA VisibleType ==
    ASSUME TypeOK, NEW s \in Session, NEW r \in Row
    PROVE  Visible(s, r) \in Nat
  BY DEF TypeOK, Visible

LEMMA SnapshotType ==
    ASSUME TypeOK, NEW s \in Session, NEW k \in CacheKey
    PROVE  SnapshotOf(s, k) \in Snapshot
  BY VisibleType DEF SnapshotOf, Snapshot

LEMMA LeaveType ==
    ASSUME TypeOK, NEW s \in Session, Leave(s)
    PROVE  /\ phase' \in [Session -> {"idle", "txn", "flush"}]
           /\ depth' \in [Session -> Nat]
           /\ writes' \in [Session -> [Row -> Nat]]
           /\ pending' \in [Session -> [CacheKey -> Snapshot \union {NoOp, Delete}]]
           /\ stage' \in [Session -> {"ready", "load", "store"}]
           /\ key' \in [Session -> CacheKey \union {NoKey}]
           /\ \A t \in Session : stage'[t] # "ready" => key'[t] \in CacheKey
           /\ loaded' \in [Session -> Snapshot]
           /\ issued' \in [Session -> SUBSET Nat]
           /\ version' \in Nat
  BY DEF TypeOK, Leave, Return, NoWrites, NoPending, Snapshot

\* TypeOK holds in every reachable state of the specification.
THEOREM TypeCorrect == Spec => []TypeOK
<1>1. Init => TypeOK
  BY DEF Init, TypeOK, NoWrites, NoPending, Snapshot
<1>2. TypeOK /\ [Next]_vars => TypeOK'
  <2> SUFFICES ASSUME TypeOK, [Next]_vars PROVE TypeOK'
    OBVIOUS
  <2>1. ASSUME NEW s \in Session, Begin(s) \/ EnterNested(s) \/ ExitNested(s)
        PROVE  TypeOK'
    <3>1. CASE Begin(s)
      BY <3>1 DEF TypeOK, Begin
    <3>2. CASE EnterNested(s)
      BY <3>2 DEF TypeOK, EnterNested
    <3>3. CASE ExitNested(s)
      <4>1. depth' \in [Session -> Nat]
        <5>1. depth[s] - 1 \in Nat
          BY <3>3 DEF TypeOK, ExitNested
        <5>2. QED
          BY <3>3, <5>1 DEF TypeOK, ExitNested
      <4>2. QED
        BY <3>3, <4>1 DEF TypeOK, ExitNested
    <3>4. QED
      BY <2>1, <3>1, <3>2, <3>3
  <2>2. ASSUME NEW s \in Session, NEW r \in Row, Update(s, r)
        PROVE  TypeOK'
    BY <2>2 DEF TypeOK, Update
  <2>3. ASSUME NEW s \in Session, NEW k \in CacheKey, GetMiss(s, k)
        PROVE  TypeOK'
    BY <2>3 DEF TypeOK, GetMiss
  <2>4. ASSUME NEW s \in Session, LoadInTransaction(s)
        PROVE  TypeOK'
    <3>1. key[s] \in CacheKey
      BY <2>4 DEF TypeOK, LoadInTransaction
    <3>2. SnapshotOf(s, key[s]) \in Snapshot
      BY <3>1, SnapshotType
    <3>3. QED
      BY <2>4, <3>1, <3>2 DEF TypeOK, LoadInTransaction, Return
  <2>5. ASSUME NEW s \in Session, LoadOrCreate(s)
        PROVE  TypeOK'
    <3>1. key[s] \in CacheKey /\ Primary[key[s]] \in Row
      BY <2>5 DEF TypeOK, LoadOrCreate
    <3>2. /\ version' \in Nat
          /\ writes' \in [Session -> [Row -> Nat]]
          /\ issued' \in [Session -> SUBSET Nat]
      <4>1. CASE UNCHANGED <<version, writes, issued>>
        BY <4>1 DEF TypeOK
      <4>2. CASE /\ version' = version + 1
                 /\ writes' = [writes EXCEPT ![s][Primary[key[s]]] = version + 1]
                 /\ issued' = [issued EXCEPT ![s] = @ \union {version + 1}]
        BY <4>2, <3>1 DEF TypeOK
      <4>3. QED
        BY <2>5, <4>1, <4>2 DEF LoadOrCreate
    <3>3. pending' \in [Session -> [CacheKey -> Snapshot \union {NoOp, Delete}]]
      BY <2>5, <3>1 DEF TypeOK, LoadOrCreate
    <3>4. QED
      BY <2>5, <3>2, <3>3 DEF TypeOK, LoadOrCreate, Return
  <2>6. ASSUME NEW s \in Session, LoadOutside(s)
        PROVE  TypeOK'
    <3>1. key[s] \in CacheKey
      BY <2>6 DEF TypeOK, LoadOutside
    <3>2. SnapshotOf(s, key[s]) \in Snapshot
      BY <3>1, SnapshotType
    <3>3. CASE LoadsNone(s, key[s])
      BY <2>6, <3>3 DEF TypeOK, LoadOutside, Return
    <3>4. CASE ~LoadsNone(s, key[s])
      <4>1. /\ stage' = [stage EXCEPT ![s] = "store"]
            /\ loaded' = [loaded EXCEPT ![s] = SnapshotOf(s, key[s])]
            /\ UNCHANGED <<key, db, committed, cache, phase, depth, writes, pending,
                           version, issued, durable, aborted, tainted>>
        BY <2>6, <3>4 DEF LoadOutside
      <4>2. loaded' \in [Session -> Snapshot] /\ stage' \in [Session -> {"ready", "load", "store"}]
        BY <3>2, <4>1 DEF TypeOK
      <4>3. \A t \in Session : stage'[t] # "ready" => key'[t] \in CacheKey
        BY <3>1, <4>1 DEF TypeOK
      <4>4. QED
        BY <4>1, <4>2, <4>3 DEF TypeOK
    <3>5. QED
      BY <3>3, <3>4
  <2>7. ASSUME NEW s \in Session, Store(s)
        PROVE  TypeOK'
    BY <2>7 DEF TypeOK, Store, Return, Retaint, NoWrites, Snapshot
  <2>8. ASSUME NEW s \in Session, Commit(s)
        PROVE  TypeOK'
    <3>1. /\ db' \in [Row -> Nat]
          /\ committed' \in [Row -> SUBSET Nat]
          /\ durable' \in SUBSET Nat
      BY <2>8, VisibleType DEF TypeOK, Commit, Publish
    <3>2. QED
      BY <2>8, <3>1 DEF TypeOK, Commit, NoWrites
  <2>9. ASSUME NEW s \in Session, CommitUnacknowledged(s)
        PROVE  TypeOK'
    <3>1. /\ db' \in [Row -> Nat]
          /\ committed' \in [Row -> SUBSET Nat]
          /\ durable' \in SUBSET Nat
      BY <2>9, VisibleType DEF TypeOK, CommitUnacknowledged, Publish
    <3>2. QED
      BY <2>9, <3>1, LeaveType DEF TypeOK, CommitUnacknowledged, Lost
  <2>10. ASSUME NEW s \in Session, Rollback(s) \/ EndTransaction(s) \/ Cancel(s)
         PROVE  TypeOK'
    BY <2>10, LeaveType DEF TypeOK, Rollback, EndTransaction, Cancel, Lost
  <2>11. ASSUME NEW s \in Session, NEW k \in CacheKey, FlushOp(s, k)
         PROVE  TypeOK'
    <3>1. pending' \in [Session -> [CacheKey -> Snapshot \union {NoOp, Delete}]]
      BY <2>11 DEF TypeOK, FlushOp
    <3>0. pending[s][k] \in Snapshot \union {NoOp, Delete}
      BY DEF TypeOK
    <3>2. cache' \in [CacheKey -> Snapshot \union {NoEntry}]
      BY <2>11, <3>0 DEF TypeOK, FlushOp
    <3>3. tainted' \in SUBSET CacheKey
      BY <2>11 DEF TypeOK, FlushOp, Retaint
    <3>4. QED
      BY <2>11, <3>1, <3>2, <3>3 DEF TypeOK, FlushOp
  <2>12. ASSUME NEW k \in CacheKey, Expire(k)
         PROVE  TypeOK'
    BY <2>12 DEF TypeOK, Expire, sessionVars
  <2>13. CASE UNCHANGED vars
    BY <2>13 DEF TypeOK, vars, sessionVars
  <2>14. QED
    BY <2>1, <2>2, <2>3, <2>4, <2>5, <2>6, <2>7, <2>8, <2>9, <2>10, <2>11,
       <2>12, <2>13 DEF Next, SessionStep
<1>3. QED
  BY <1>1, <1>2, PTL DEF Spec

-----------------------------------------------------------------------------
(***************************************************************************)
(* Every version belongs to one transaction.  One lemma per kind of step.  *)
(***************************************************************************)
LEMMA VersionInvFrame ==
    ASSUME TypeOK, VersionInv,
           UNCHANGED <<db, committed, writes, version, issued, durable, aborted>>,
           \A s \in Session : phase'[s] # "txn" => phase[s] # "txn"
    PROVE  VersionInv'
  BY DEF VersionInv, TypeOK

LEMMA VersionInvWrite ==
    ASSUME TypeOK, VersionInv, NEW s \in Session, NEW r \in Row,
           phase[s] = "txn",
           version' = version + 1,
           writes' = [writes EXCEPT ![s][r] = version + 1],
           issued' = [issued EXCEPT ![s] = @ \union {version + 1}],
           UNCHANGED <<db, committed, phase, durable, aborted>>
    PROVE  VersionInv'
<1>1. \A t \in Session : \A v \in issued[t] : v \in Nat /\ v <= version
  BY DEF TypeOK, VersionInv
<1>2. \A v \in durable \union aborted : v \in Nat /\ v <= version
  BY DEF TypeOK, VersionInv
<1>3. \A t \in Session : issued'[t] = IF t = s THEN issued[s] \union {version + 1} ELSE issued[t]
  BY DEF TypeOK
<1>4. version \in Nat
  BY DEF TypeOK
<1>5. \A t \in Session : version + 1 \notin issued[t]
  BY <1>1, <1>4
<1>6. version + 1 \notin durable \union aborted
  BY <1>2, <1>4
<1>7. \A t \in Session, q \in Row :
         writes'[t][q] = IF t = s /\ q = r THEN version + 1 ELSE writes[t][q]
  BY DEF TypeOK
<1>8. \A t \in Session : \A q \in Row : writes'[t][q] \in issued'[t] \union {0}
  BY <1>3, <1>7 DEF VersionInv
<1>9. \A t \in Session : phase'[t] # "txn" => issued'[t] = {}
  BY <1>3 DEF VersionInv
<1>10. \A t \in Session : issued'[t] \intersect (durable' \union aborted') = {}
  BY <1>3, <1>6 DEF VersionInv
<1>11. \A t \in Session : \A u \in Session \ {t} : issued'[t] \intersect issued'[u] = {}
  BY <1>3, <1>5 DEF VersionInv
<1>12. \A t \in Session : \A v \in issued'[t] : 0 < v /\ v <= version'
  <2>1. \A t \in Session : \A v \in issued[t] : 0 < v
    BY DEF VersionInv
  <2>2. QED
    BY <1>1, <1>3, <1>4, <2>1
<1>13. \A v \in durable' \union aborted' : 0 < v /\ v <= version'
  BY <1>2, <1>4 DEF VersionInv
<1>14. QED
  BY <1>8, <1>9, <1>10, <1>11, <1>12, <1>13 DEF VersionInv

LEMMA VersionInvPublish ==
    ASSUME TypeOK, VersionInv, NEW s \in Session,
           Publish(s),
           writes' = [writes EXCEPT ![s] = NoWrites],
           issued' = [issued EXCEPT ![s] = {}],
           \A t \in Session \ {s} : phase'[t] = phase[t],
           UNCHANGED <<version, aborted>>
    PROVE  VersionInv'
<1>1. \A t \in Session : issued'[t] = IF t = s THEN {} ELSE issued[t]
  BY DEF TypeOK
<1>2. \A t \in Session : \A q \in Row : writes'[t][q] = IF t = s THEN 0 ELSE writes[t][q]
  BY DEF TypeOK, NoWrites
<1>3. \A q \in Row : Visible(s, q) \in {db[q]} \union issued[s]
  BY DEF VersionInv, Visible
<1>4. \A q \in Row : /\ 0 \in committed'[q] /\ db'[q] \in committed'[q]
                     /\ committed'[q] \subseteq durable' \union {0}
  BY <1>3 DEF VersionInv, Publish
<1>5. \A t \in Session :
        /\ \A q \in Row : writes'[t][q] \in issued'[t] \union {0}
        /\ phase'[t] # "txn" => issued'[t] = {}
  BY <1>1, <1>2 DEF VersionInv
<1>6. \A t \in Session : issued'[t] \intersect (durable' \union aborted') = {}
  BY <1>1 DEF VersionInv, Publish
<1>7. \A t \in Session : \A u \in Session \ {t} : issued'[t] \intersect issued'[u] = {}
  BY <1>1 DEF VersionInv
<1>8. durable' \intersect aborted' = {}
  BY DEF VersionInv, Publish
<1>9. /\ \A t \in Session : \A v \in issued'[t] : 0 < v /\ v <= version'
      /\ \A v \in durable' \union aborted' : 0 < v /\ v <= version'
  BY <1>1 DEF VersionInv, Publish
<1>10. QED
  BY <1>4, <1>5, <1>6, <1>7, <1>8, <1>9 DEF VersionInv

LEMMA VersionInvAbort ==
    ASSUME TypeOK, VersionInv, NEW s \in Session,
           Leave(s),
           UNCHANGED <<db, committed, durable>>,
           aborted' \in {aborted, aborted \union issued[s]}
    PROVE  VersionInv'
<1>1. \A t \in Session : issued'[t] = IF t = s THEN {} ELSE issued[t]
  BY DEF TypeOK, Leave
<1>2. \A t \in Session : \A q \in Row : writes'[t][q] = IF t = s THEN 0 ELSE writes[t][q]
  BY DEF TypeOK, Leave, NoWrites
<1>3. \A t \in Session : t # s => phase'[t] = phase[t]
  BY DEF TypeOK, Leave
<1>4. \A t \in Session :
        /\ \A q \in Row : writes'[t][q] \in issued'[t] \union {0}
        /\ phase'[t] # "txn" => issued'[t] = {}
  BY <1>1, <1>2, <1>3 DEF VersionInv
<1>5. \A t \in Session : issued'[t] \intersect (durable' \union aborted') = {}
  BY <1>1 DEF VersionInv
<1>6. \A t \in Session : \A u \in Session \ {t} : issued'[t] \intersect issued'[u] = {}
  BY <1>1 DEF VersionInv
<1>7. durable' \intersect aborted' = {}
  BY DEF VersionInv
<1>8. /\ \A t \in Session : \A v \in issued'[t] : 0 < v /\ v <= version'
      /\ \A v \in durable' \union aborted' : 0 < v /\ v <= version'
  BY <1>1 DEF VersionInv, Leave
<1>9. QED
  BY <1>4, <1>5, <1>6, <1>7, <1>8 DEF VersionInv

LEMMA VersionInvStep == TypeOK /\ VersionInv /\ [Next]_vars => VersionInv'
<1> SUFFICES ASSUME TypeOK, VersionInv, [Next]_vars PROVE VersionInv'
  OBVIOUS
<1>1. ASSUME NEW s \in Session, Begin(s) PROVE VersionInv'
  BY <1>1, VersionInvFrame DEF Begin, TypeOK
<1>2. ASSUME NEW s \in Session, EnterNested(s) \/ ExitNested(s) PROVE VersionInv'
  BY <1>2, VersionInvFrame DEF EnterNested, ExitNested
<1>3. ASSUME NEW s \in Session, NEW r \in Row, Update(s, r) PROVE VersionInv'
  BY <1>3, VersionInvWrite DEF Update
<1>4. ASSUME NEW s \in Session, NEW k \in CacheKey, GetMiss(s, k) PROVE VersionInv'
  BY <1>4, VersionInvFrame DEF GetMiss
<1>5. ASSUME NEW s \in Session, LoadInTransaction(s) \/ LoadOutside(s) \/ Store(s)
      PROVE  VersionInv'
  BY <1>5, VersionInvFrame DEF LoadInTransaction, LoadOutside, Store
<1>6. ASSUME NEW s \in Session, LoadOrCreate(s) PROVE VersionInv'
  <2>1. CASE UNCHANGED <<version, writes, issued>>
    BY <1>6, <2>1, VersionInvFrame DEF LoadOrCreate
  <2>2. CASE /\ version' = version + 1
             /\ writes' = [writes EXCEPT ![s][Primary[key[s]]] = version + 1]
             /\ issued' = [issued EXCEPT ![s] = @ \union {version + 1}]
    BY <1>6, <2>2, VersionInvWrite DEF LoadOrCreate
  <2>3. QED
    BY <1>6, <2>1, <2>2 DEF LoadOrCreate
<1>7. ASSUME NEW s \in Session, Commit(s) PROVE VersionInv'
  BY <1>7, VersionInvPublish DEF Commit, TypeOK
<1>8. ASSUME NEW s \in Session, CommitUnacknowledged(s) PROVE VersionInv'
  BY <1>8, VersionInvPublish DEF CommitUnacknowledged, Leave, TypeOK
<1>9. ASSUME NEW s \in Session, Rollback(s) \/ EndTransaction(s) \/ Cancel(s)
      PROVE  VersionInv'
  BY <1>9, VersionInvAbort DEF Rollback, EndTransaction, Cancel
<1>10. ASSUME NEW s \in Session, NEW k \in CacheKey, FlushOp(s, k) PROVE VersionInv'
  BY <1>10, VersionInvFrame DEF FlushOp
<1>11. ASSUME NEW k \in CacheKey, Expire(k) PROVE VersionInv'
  BY <1>11, VersionInvFrame DEF Expire, sessionVars
<1>12. CASE UNCHANGED vars
  BY <1>12, VersionInvFrame DEF vars, sessionVars
<1>13. QED
  BY <1>1, <1>2, <1>3, <1>4, <1>5, <1>6, <1>7, <1>8, <1>9, <1>10, <1>11, <1>12
     DEF Next, SessionStep

LEMMA VersionInvariant == Spec => []VersionInv
<1>1. Init => VersionInv
  BY DEF Init, VersionInv, NoWrites
<1>2. QED
  BY <1>1, VersionInvStep, TypeCorrect, PTL DEF Spec

\* A block that was rolled back leaves nothing in the database.
THEOREM RollbackLeavesNothing == Spec => []AllOrNothing
<1>1. VersionInv => AllOrNothing
  BY DEF VersionInv, AllOrNothing
<1>2. QED
  BY <1>1, VersionInvariant, PTL

-----------------------------------------------------------------------------
(***************************************************************************)
(* What the journal holds may be cached after the commit.                  *)
(***************************************************************************)
Growing(s) ==
    /\ \A r \in Row : committed[r] \subseteq committed'[r]
    /\ durable \union issued[s] \subseteq durable' \union issued'[s]

LEMMA CommittableKept ==
    ASSUME NEW s \in Session, NEW k \in CacheKey, NEW snap,
           Committable(s, k, snap), Growing(s),
           \A r \in Row : k \in Invalidates[r] =>
               writes[s][r] \in committed'[r] \union {writes'[s][r]}
    PROVE  Committable(s, k, snap)'
  BY DEF Committable, Growing

LEMMA SnapshotCommittable ==
    ASSUME VersionInv, NEW s \in Session, NEW k \in CacheKey
    PROVE  Committable(s, k, SnapshotOf(s, k))
<1> SUFFICES ASSUME NEW r \in Row
             PROVE  /\ SnapshotOf(s, k)[r] \in committed[r] \union {writes[s][r]}
                    /\ SnapshotOf(s, k)[r] \in durable \union issued[s] \union {0}
  BY DEF Committable
<1>1. SnapshotOf(s, k)[r] \in {0, db[r], writes[s][r]}
  BY DEF SnapshotOf, Visible
<1>2. QED
  BY <1>1 DEF VersionInv

\* A step that leaves the journal and the writes of s alone.
LEMMA JournalKept ==
    ASSUME TypeOK, NEW s \in Session, JournalInvOf(s), Growing(s),
           pending'[s] = pending[s], writes'[s] = writes[s],
           stage'[s] = "store" => /\ stage[s] = "store" /\ phase'[s] = phase[s]
                                  /\ key'[s] = key[s] /\ loaded'[s] = loaded[s]
    PROVE  JournalInvOf(s)'
<1>1. \A k \in CacheKey : \A snap \in Snapshot :
         Committable(s, k, snap) => Committable(s, k, snap)'
  BY CommittableKept
<1>2. \A k \in CacheKey : pending'[s][k] \in Snapshot =>
         Committable(s, k, pending[s][k])'
  BY <1>1 DEF JournalInvOf
<1>3. stage'[s] = "store" => phase'[s] = "idle" /\ Committable(s, key[s], loaded[s])'
  BY <1>1 DEF JournalInvOf, TypeOK
<1>4. QED
  BY <1>2, <1>3 DEF JournalInvOf, Committable

\* The end of a transaction empties the journal with the writes.
LEMMA JournalEmptied ==
    ASSUME TypeOK, NEW s \in Session, Leave(s)
    PROVE  JournalInvOf(s)'
<1>1. \A k \in CacheKey : pending'[s][k] = NoOp
  BY DEF TypeOK, Leave, NoPending
<1>2. \A r \in Row : writes'[s][r] = 0
  BY DEF TypeOK, Leave, NoWrites
<1>3. stage'[s] = "ready"
  BY DEF TypeOK, Leave, Return
<1>4. QED
  BY <1>1, <1>2, <1>3, NullAssumption DEF JournalInvOf

LEMMA JournalUpdate ==
    ASSUME TypeOK, JournalInv, NEW s \in Session, NEW r \in Row, Update(s, r)
    PROVE  JournalInvOf(s)'
<1>1. \A k \in CacheKey : pending'[s][k] = IF k \in Invalidates[r] THEN Delete ELSE pending[s][k]
  BY DEF TypeOK, Update
<1>2. \A q \in Row : writes'[s][q] = IF q = r THEN version + 1 ELSE writes[s][q]
  BY DEF TypeOK, Update
<1>3. Growing(s)
  BY DEF TypeOK, Update, Growing
<1>4. ASSUME NEW k \in CacheKey, pending'[s][k] \in Snapshot
      PROVE  Committable(s, k, pending[s][k])' /\ pending'[s][k] = pending[s][k]
  <2>1. k \notin Invalidates[r] /\ pending'[s][k] = pending[s][k]
    BY <1>1, <1>4, NullAssumption
  <2>2. Committable(s, k, pending[s][k])
    BY <1>4, <2>1 DEF JournalInv, JournalInvOf
  <2>3. \A q \in Row : k \in Invalidates[q] => writes'[s][q] = writes[s][q]
    BY <1>2, <2>1
  <2>4. \A snap : Committable(s, k, snap) => Committable(s, k, snap)'
    BY <1>3, <2>3, CommittableKept
  <2>5. QED
    BY <2>1, <2>2, <2>4 DEF Committable
<1>5. stage'[s] # "store"
  BY DEF TypeOK, Update
<1>6. \A q \in Row : \A k \in Invalidates[q] : writes'[s][q] # 0 => pending'[s][k] # NoOp
  BY <1>1, <1>2, NullAssumption, InvalidatesAssumption DEF JournalInv, JournalInvOf
<1>7. QED
  BY <1>4, <1>5, <1>6 DEF JournalInvOf, Committable

LEMMA JournalLoad ==
    ASSUME TypeOK, VersionInv, JournalInv, NEW s \in Session, LoadInTransaction(s)
    PROVE  JournalInvOf(s)'
<1>1. key[s] \in CacheKey /\ SnapshotOf(s, key[s]) \in Snapshot
  BY SnapshotType DEF TypeOK, LoadInTransaction
<1>2. \A k \in CacheKey : \/ pending'[s][k] = pending[s][k]
                          \/ k = key[s] /\ pending'[s][k] = SnapshotOf(s, k)
  BY <1>1 DEF TypeOK, LoadInTransaction
<1>3. ASSUME NEW k \in CacheKey, pending'[s][k] \in Snapshot
      PROVE  Committable(s, k, pending'[s][k])
  BY <1>2, <1>3, SnapshotCommittable DEF JournalInv, JournalInvOf
<1>4. UNCHANGED <<committed, durable, issued, writes>> /\ stage'[s] # "store"
  BY DEF TypeOK, LoadInTransaction, Return
<1>5. \A r \in Row : \A k \in Invalidates[r] : writes'[s][r] # 0 => pending'[s][k] # NoOp
  BY <1>1, <1>2, <1>4, NullAssumption, InvalidatesAssumption DEF JournalInv, JournalInvOf
<1>6. QED
  BY <1>3, <1>4, <1>5 DEF JournalInvOf, Committable

LEMMA JournalCreate ==
    ASSUME TypeOK, JournalInv, NEW s \in Session, LoadOrCreate(s)
    PROVE  JournalInvOf(s)'
<1> DEFINE p == Primary[key[s]]
<1>1. key[s] \in CacheKey /\ p \in Row
  BY DEF TypeOK, LoadOrCreate
<1>2. \A k \in CacheKey : pending'[s][k] = IF k = key[s] THEN Delete ELSE pending[s][k]
  BY <1>1 DEF TypeOK, LoadOrCreate
<1>3. \A q \in Row : q # p => writes'[s][q] = writes[s][q]
  BY <1>1 DEF TypeOK, LoadOrCreate
<1>4. \A k \in CacheKey : k # key[s] => k \notin Invalidates[p]
  BY <1>1, PrimaryAssumption
<1>5. Growing(s)
  BY DEF TypeOK, LoadOrCreate, Growing
<1>6. ASSUME NEW k \in CacheKey, pending'[s][k] \in Snapshot
      PROVE  Committable(s, k, pending[s][k])' /\ pending'[s][k] = pending[s][k]
  <2>1. k # key[s] /\ pending'[s][k] = pending[s][k]
    BY <1>2, <1>6, NullAssumption
  <2>2. Committable(s, k, pending[s][k])
    BY <1>6, <2>1 DEF JournalInv, JournalInvOf
  <2>3. \A q \in Row : k \in Invalidates[q] => writes'[s][q] = writes[s][q]
    BY <1>3, <1>4, <2>1
  <2>4. \A snap : Committable(s, k, snap) => Committable(s, k, snap)'
    BY <1>5, <2>3, CommittableKept
  <2>5. QED
    BY <2>1, <2>2, <2>4 DEF Committable
<1>7. stage'[s] # "store"
  BY DEF TypeOK, LoadOrCreate, Return
<1>8. ASSUME NEW q \in Row, NEW k \in Invalidates[q], writes'[s][q] # 0
      PROVE  pending'[s][k] # NoOp
  <2>1. k \in CacheKey
    BY InvalidatesAssumption
  <2>2. CASE k = key[s]
    BY <1>2, <2>1, <2>2, NullAssumption
  <2>3. CASE k # key[s]
    BY <1>2, <1>3, <1>4, <1>8, <2>1, <2>3 DEF JournalInv, JournalInvOf
  <2>4. QED
    BY <2>2, <2>3
<1>9. QED
  BY <1>6, <1>7, <1>8 DEF JournalInvOf, Committable

LEMMA JournalCommit ==
    ASSUME TypeOK, VersionInv, JournalInv, NEW s \in Session, Commit(s)
    PROVE  JournalInvOf(s)'
<1>1. \A r \in Row : writes'[s][r] = 0
  BY DEF TypeOK, Commit, NoWrites
<1>2. Growing(s)
  BY DEF TypeOK, Commit, Publish, Growing
<1>3. \A r \in Row : writes[s][r] \in committed'[r] \union {0}
  BY DEF Commit, Publish, Visible
<1>4. \A k \in CacheKey : \A snap \in Snapshot :
         Committable(s, k, snap) => Committable(s, k, snap)'
  BY <1>1, <1>2, <1>3, CommittableKept
<1>5. pending'[s] = pending[s] /\ stage'[s] # "store"
  BY DEF TypeOK, Commit
<1>6. \A k \in CacheKey : pending'[s][k] \in Snapshot => Committable(s, k, pending[s][k])'
  BY <1>4, <1>5 DEF JournalInv, JournalInvOf
<1>7. QED
  BY <1>1, <1>5, <1>6 DEF JournalInvOf, Committable

LEMMA JournalFlush ==
    ASSUME TypeOK, VersionInv, JournalInv, NEW s \in Session, NEW k \in CacheKey,
           FlushOp(s, k)
    PROVE  JournalInvOf(s)'
<1>1. \A r \in Row : writes'[s][r] = 0
  BY DEF VersionInv, FlushOp
<1>2. \A j \in CacheKey : pending'[s][j] = IF j = k THEN NoOp ELSE pending[s][j]
  BY DEF TypeOK, FlushOp
<1>3. UNCHANGED <<committed, durable, issued, writes, stage, phase, key, loaded>>
  BY DEF FlushOp
<1>4. QED
  BY <1>1, <1>2, <1>3, NullAssumption DEF JournalInv, JournalInvOf, Committable

LEMMA JournalLoadOutside ==
    ASSUME TypeOK, VersionInv, JournalInv, NEW s \in Session, LoadOutside(s)
    PROVE  JournalInvOf(s)'
<1>1. key[s] \in CacheKey
  BY DEF TypeOK, LoadOutside
<1>2. UNCHANGED <<committed, durable, issued, writes, pending, phase>> /\ phase[s] = "idle"
  BY DEF LoadOutside
<1>3. CASE LoadsNone(s, key[s])
  BY <1>2, <1>3 DEF LoadOutside, Return, TypeOK, JournalInv, JournalInvOf, Committable
<1>4. CASE ~LoadsNone(s, key[s])
  <2>1. key' = key /\ loaded'[s] = SnapshotOf(s, key[s])
    BY <1>4 DEF TypeOK, LoadOutside
  <2>2. Committable(s, key[s], SnapshotOf(s, key[s]))
    BY <1>1, SnapshotCommittable
  <2>3. QED
    BY <1>2, <2>1, <2>2 DEF JournalInv, JournalInvOf, Committable
<1>5. QED
  BY <1>3, <1>4

Untouched(t) ==
    /\ phase'[t] = phase[t] /\ writes'[t] = writes[t] /\ issued'[t] = issued[t]
    /\ pending'[t] = pending[t] /\ stage'[t] = stage[t]
    /\ key'[t] = key[t] /\ loaded'[t] = loaded[t]

\* A session touches its own journal and fills only.
LEMMA OthersUntouched ==
    ASSUME TypeOK, NEW s \in Session, SessionStep(s), NEW t \in Session, t # s
    PROVE  Untouched(t)
<1> USE DEF Untouched
<1>1. CASE Begin(s) \/ EnterNested(s) \/ ExitNested(s)
  BY <1>1 DEF TypeOK, Begin, EnterNested, ExitNested
<1>2. ASSUME NEW r \in Row, Update(s, r) PROVE Untouched(t)
  BY <1>2 DEF TypeOK, Update
<1>3. ASSUME NEW k \in CacheKey, GetMiss(s, k) PROVE Untouched(t)
  BY <1>3 DEF TypeOK, GetMiss
<1>4. CASE LoadInTransaction(s) \/ LoadOutside(s) \/ Store(s)
  BY <1>4 DEF TypeOK, LoadInTransaction, LoadOutside, Store, Return
<1>5. CASE LoadOrCreate(s)
  BY <1>5 DEF TypeOK, LoadOrCreate, Return
<1>6. CASE Commit(s)
  BY <1>6 DEF TypeOK, Commit
<1>7. CASE CommitUnacknowledged(s) \/ Rollback(s) \/ EndTransaction(s) \/ Cancel(s)
  BY <1>7 DEF TypeOK, CommitUnacknowledged, Rollback, EndTransaction, Cancel, Leave, Return
<1>8. ASSUME NEW k \in CacheKey, FlushOp(s, k) PROVE Untouched(t)
  BY <1>8 DEF TypeOK, FlushOp
<1>9. QED
  BY <1>1, <1>2, <1>3, <1>4, <1>5, <1>6, <1>7, <1>8 DEF SessionStep

HistoryKept ==
    /\ \A r \in Row : committed[r] \subseteq committed'[r]
    /\ durable \subseteq durable'

\* What is committed stays so.
LEMMA HistoryGrows ==
    ASSUME TypeOK, [Next]_vars
    PROVE  HistoryKept
<1> USE DEF HistoryKept
<1>1. ASSUME NEW s \in Session, SessionStep(s) PROVE HistoryKept
  BY <1>1 DEF TypeOK, SessionStep, Begin, EnterNested, ExitNested, Update, GetMiss,
     LoadInTransaction, LoadOrCreate, LoadOutside, Store, Commit, CommitUnacknowledged,
     Publish, Rollback, FlushOp, EndTransaction, Cancel
<1>2. ASSUME NEW k \in CacheKey, Expire(k) PROVE HistoryKept
  BY <1>2 DEF Expire
<1>3. QED
  BY <1>1, <1>2 DEF Next, vars

LEMMA JournalOthers ==
    ASSUME TypeOK, JournalInv, NEW s \in Session, SessionStep(s),
           NEW t \in Session, t # s
    PROVE  JournalInvOf(t)'
<1>1. Growing(t)
  BY HistoryGrows, OthersUntouched DEF HistoryKept, Growing, Next, Untouched
<1>2. QED
  BY <1>1, OthersUntouched, JournalKept DEF JournalInv, Untouched

LEMMA JournalOwn ==
    ASSUME TypeOK, VersionInv, JournalInv, NEW s \in Session, SessionStep(s)
    PROVE  JournalInvOf(s)'
<1>1. CASE Begin(s) \/ EnterNested(s) \/ ExitNested(s)
  BY <1>1, JournalKept
     DEF TypeOK, JournalInv, Growing, Begin, EnterNested, ExitNested
<1>2. ASSUME NEW k \in CacheKey, GetMiss(s, k) PROVE JournalInvOf(s)'
  BY <1>2, JournalKept DEF TypeOK, JournalInv, Growing, GetMiss
<1>3. CASE Store(s)
  BY <1>3, JournalKept DEF TypeOK, JournalInv, Growing, Store, Return
<1>4. CASE CommitUnacknowledged(s) \/ Rollback(s) \/ EndTransaction(s) \/ Cancel(s)
  BY <1>4, JournalEmptied DEF CommitUnacknowledged, Rollback, EndTransaction, Cancel
<1>5. QED
  BY <1>1, <1>2, <1>3, <1>4, JournalUpdate, JournalLoad, JournalCreate,
     JournalLoadOutside, JournalCommit, JournalFlush DEF SessionStep

LEMMA JournalInvStep ==
    TypeOK /\ VersionInv /\ JournalInv /\ [Next]_vars => JournalInv'
<1> SUFFICES ASSUME TypeOK, VersionInv, JournalInv, [Next]_vars,
                    NEW t \in Session
             PROVE  JournalInvOf(t)'
  BY DEF JournalInv
<1>1. ASSUME NEW s \in Session, SessionStep(s) PROVE JournalInvOf(t)'
  BY <1>1, JournalOwn, JournalOthers
<1>2. ASSUME NEW k \in CacheKey, Expire(k) PROVE JournalInvOf(t)'
  BY <1>2, JournalKept DEF JournalInv, Growing, Expire, sessionVars
<1>3. CASE UNCHANGED vars
  BY <1>3, JournalKept DEF JournalInv, Growing, vars, sessionVars
<1>4. QED
  BY <1>1, <1>2, <1>3 DEF Next

LEMMA JournalInvariant == Spec => []JournalInv
<1>1. Init => JournalInv
  <2> SUFFICES ASSUME Init, NEW s \in Session PROVE JournalInvOf(s)
    BY DEF JournalInv
  <2>1. /\ \A k \in CacheKey : pending[s][k] = NoOp
        /\ \A r \in Row : writes[s][r] = 0
        /\ stage[s] = "ready"
    BY DEF Init, NoPending, NoWrites
  <2>2. QED
    BY <2>1, NullAssumption DEF JournalInvOf
<1>2. QED
  BY <1>1, JournalInvStep, TypeCorrect, VersionInvariant, PTL DEF Spec

(***************************************************************************)
(* The cache.                                                              *)
(***************************************************************************)
EntryCommitted(k, entry) ==
    \A r \in Row : IF k \in Invalidates[r] THEN entry[r] \in committed[r]
                                           ELSE entry[r] \in durable \union {0}

\* Outside an open transaction what may be cached has been committed.
LEMMA CommittableIsCommitted ==
    ASSUME VersionInv, NEW s \in Session, phase[s] # "txn", NEW k \in CacheKey,
           NEW snap, Committable(s, k, snap)
    PROVE  EntryCommitted(k, snap)
  BY DEF VersionInv, Committable, EntryCommitted

LEMMA CacheStep ==
    TypeOK /\ VersionInv /\ JournalInv /\ CacheHoldsCommitted /\ [Next]_vars
        => CacheHoldsCommitted'
<1> SUFFICES ASSUME TypeOK, VersionInv, JournalInv, CacheHoldsCommitted, [Next]_vars,
                    NEW j \in CacheKey, cache'[j] # NoEntry
             PROVE  EntryCommitted(j, cache[j])'
  BY DEF CacheHoldsCommitted, EntryCommitted
<1>0. \A entry : EntryCommitted(j, entry) => EntryCommitted(j, entry)'
  BY HistoryGrows DEF HistoryKept, EntryCommitted
<1>1. CASE cache'[j] = cache[j]
  <2>1. EntryCommitted(j, cache[j])
    BY <1>1 DEF CacheHoldsCommitted, EntryCommitted
  <2>2. EntryCommitted(j, cache[j]) => \A r \in Row :
           IF j \in Invalidates[r] THEN cache[j][r] \in committed'[r]
                                   ELSE cache[j][r] \in durable' \union {0}
    BY <1>0 DEF EntryCommitted
  <2>3. QED
    BY <1>1, <2>1, <2>2 DEF EntryCommitted
<1>2. ASSUME NEW s \in Session, Store(s), cache'[j] # cache[j]
      PROVE  EntryCommitted(j, cache[j])'
  <2>1. j = key[s] /\ cache'[j] = loaded[s] /\ phase[s] = "idle" /\ stage[s] = "store"
    BY <1>2 DEF TypeOK, Store
  <2>2. EntryCommitted(j, loaded[s])
    BY <2>1, CommittableIsCommitted DEF JournalInv, JournalInvOf
  <2>3. QED
    BY <1>0, <2>1, <2>2 DEF EntryCommitted
<1>3. ASSUME NEW s \in Session, NEW k \in CacheKey, FlushOp(s, k), cache'[j] # cache[j]
      PROVE  EntryCommitted(j, cache[j])'
  <2>1. j = k /\ cache'[j] = pending[s][j] /\ pending[s][j] \notin {NoOp, Delete}
    BY <1>3 DEF TypeOK, FlushOp
  <2>2. pending[s][j] \in Snapshot /\ phase[s] = "flush"
    BY <1>3, <2>1 DEF TypeOK, FlushOp
  <2>3. EntryCommitted(j, pending[s][j])
    BY <2>2, CommittableIsCommitted DEF JournalInv, JournalInvOf
  <2>4. QED
    BY <1>0, <2>1, <2>3 DEF EntryCommitted
<1>4. ASSUME NEW k \in CacheKey, Expire(k) PROVE cache'[j] = cache[j]
  BY <1>4 DEF TypeOK, Expire
<1>5. ASSUME NEW s \in Session, SessionStep(s), ~Store(s),
             ~ \E k \in CacheKey : FlushOp(s, k)
      PROVE  cache' = cache
  BY <1>5 DEF SessionStep, Begin, EnterNested, ExitNested, Update, GetMiss,
     LoadInTransaction, LoadOrCreate, LoadOutside, Commit, CommitUnacknowledged,
     Rollback, EndTransaction, Cancel
<1>6. QED
  BY <1>1, <1>2, <1>3, <1>4, <1>5 DEF Next, vars

\* No reader of Redis sees data that was not committed.
THEOREM CacheOnlyCommitted == Spec => []CacheHoldsCommitted
<1>1. Init => CacheHoldsCommitted
  BY DEF Init, CacheHoldsCommitted
<1>2. QED
  BY <1>1, CacheStep, TypeCorrect, VersionInvariant, JournalInvariant, PTL DEF Spec

-----------------------------------------------------------------------------
(***************************************************************************)
(* Why an entry may be stale.                                              *)
(***************************************************************************)
Explained(j) ==
    cache[j] # NoEntry /\ Outdated(j, cache[j]) => j \in tainted \/ FlushDue(j)

\* A session that is not flushing takes no due operation away.
LEMMA FlushStaysDue ==
    ASSUME TypeOK, NEW s \in Session, SessionStep(s), phase[s] # "flush",
           NEW j \in CacheKey, FlushDue(j)
    PROVE  FlushDue(j)'
<1>1. PICK t \in Session : phase[t] = "flush" /\ pending[t][j] # NoOp
  BY DEF FlushDue
<1>2. t # s
  BY <1>1
<1>3. QED
  BY <1>1, <1>2, OthersUntouched DEF FlushDue, Untouched

LEMMA ExplainedFrame ==
    ASSUME NEW j \in CacheKey, Explained(j), cache'[j] = cache[j], db' = db,
           j \in tainted => j \in tainted', FlushDue(j) => j \in tainted' \/ FlushDue(j)'
    PROVE  Explained(j)'
  BY DEF Explained, Outdated

LEMMA ExplainedPublish ==
    ASSUME TypeOK, JournalInv, NEW s \in Session, SessionStep(s), phase[s] # "flush",
           NEW j \in CacheKey, Explained(j), Publish(s), cache' = cache,
           tainted \subseteq tainted',
           pending[s][j] # NoOp => j \in tainted' \/ FlushDue(j)'
    PROVE  Explained(j)'
<1> SUFFICES ASSUME cache[j] # NoEntry, NEW r \in Row, r \in Reads[j],
                    j \in Invalidates[r], cache[j][r] # db'[r]
             PROVE  j \in tainted' \/ FlushDue(j)'
  BY ReadsAssumption DEF Explained, Outdated
<1>1. CASE db'[r] = db[r]
  <2>1. j \in tainted \/ FlushDue(j)
    BY <1>1 DEF Explained, Outdated
  <2>2. QED
    BY <2>1, FlushStaysDue
<1>2. CASE db'[r] # db[r]
  <2>1. writes[s][r] # 0
    BY <1>2 DEF Publish, Visible
  <2>2. pending[s][j] # NoOp
    BY <2>1 DEF JournalInv, JournalInvOf
  <2>3. QED
    BY <2>2
<1>3. QED
  BY <1>1, <1>2

LEMMA ExplainedFlush ==
    ASSUME TypeOK, NEW s \in Session, NEW k \in CacheKey, FlushOp(s, k),
           NEW j \in CacheKey, Explained(j)
    PROVE  Explained(j)'
<1>1. CASE j = k
  <2>1. \/ cache'[j] = NoEntry
        \/ j \in tainted'
        \/ cache'[j] = pending[s][j] /\ tainted' = Retaint(j, Outdated(j, pending[s][j]))
    BY <1>1 DEF FlushOp, TypeOK
  <2>2. UNCHANGED db
    BY DEF FlushOp
  <2>3. CASE cache'[j] = pending[s][j] /\ tainted' = Retaint(j, Outdated(j, pending[s][j]))
    BY <2>2, <2>3 DEF Explained, Outdated, Retaint
  <2>4. QED
    BY <2>1, <2>3 DEF Explained
<1>2. CASE j # k
  <2>1. \A t \in Session : pending'[t][j] = pending[t][j] /\ phase'[t] = phase[t]
    BY <1>2 DEF TypeOK, FlushOp
  <2>2. FlushDue(j) => FlushDue(j)'
    BY <2>1 DEF FlushDue
  <2>3. cache'[j] = cache[j] /\ db' = db /\ (j \in tainted => j \in tainted')
    BY <1>2 DEF TypeOK, FlushOp, Retaint
  <2>4. QED
    BY <2>2, <2>3, ExplainedFrame
<1>3. QED
  BY <1>1, <1>2

LEMMA ExplainedStore ==
    ASSUME TypeOK, NEW s \in Session, Store(s), NEW j \in CacheKey, Explained(j)
    PROVE  Explained(j)'
<1>1. key[s] \in CacheKey /\ db' = db
  BY DEF TypeOK, Store
<1>2. CASE j = key[s]
  <2>1. cache'[j] = loaded[s] /\ tainted' = Retaint(j, Outdated(j, loaded[s]))
    BY <1>1, <1>2 DEF TypeOK, Store
  <2>2. QED
    BY <1>1, <2>1 DEF Explained, Outdated, Retaint
<1>3. CASE j # key[s]
  <2>1. FlushDue(j) => FlushDue(j)'
    BY DEF Store, FlushDue
  <2>2. cache'[j] = cache[j] /\ (j \in tainted => j \in tainted')
    BY <1>3 DEF TypeOK, Store, Retaint
  <2>3. QED
    BY <1>1, <2>1, <2>2, ExplainedFrame
<1>4. QED
  BY <1>2, <1>3

\* When s ends a flush, by running out of operations or by being cancelled.
LEMMA ExplainedLeave ==
    ASSUME TypeOK, NEW s \in Session, SessionStep(s), EndTransaction(s) \/ Cancel(s),
           NEW j \in CacheKey, Explained(j)
    PROVE  Explained(j)'
<1>1. cache' = cache /\ db' = db /\ tainted \subseteq tainted'
  BY DEF EndTransaction, Cancel
<1>2. ASSUME FlushDue(j) PROVE j \in tainted' \/ FlushDue(j)'
  <2>1. PICK t \in Session : phase[t] = "flush" /\ pending[t][j] # NoOp
    BY <1>2 DEF FlushDue
  <2>2. CASE t = s
    <3>1. ~EndTransaction(s)
      BY <2>1, <2>2 DEF EndTransaction, NoPending
    <3>2. QED
      BY <2>1, <2>2, <3>1 DEF Cancel, Lost
  <2>3. CASE t # s
    BY <2>1, <2>3, OthersUntouched DEF FlushDue, Untouched
  <2>4. QED
    BY <2>2, <2>3
<1>3. QED
  BY <1>1, <1>2, ExplainedFrame

LEMMA ExplainedStep ==
    TypeOK /\ JournalInv /\ StaleExplained /\ [Next]_vars => StaleExplained'
<1> SUFFICES ASSUME TypeOK, JournalInv, [Next]_vars, NEW j \in CacheKey, Explained(j)
             PROVE  Explained(j)'
  BY DEF StaleExplained, Explained, FlushDue
<1>1. ASSUME NEW s \in Session, SessionStep(s), Commit(s) PROVE Explained(j)'
  <2>1. phase'[s] = "flush" /\ pending' = pending
    BY <1>1 DEF TypeOK, Commit
  <2>2. pending[s][j] # NoOp => FlushDue(j)'
    BY <2>1 DEF FlushDue
  <2>3. QED
    BY <1>1, <2>2, ExplainedPublish DEF Commit
<1>2. ASSUME NEW s \in Session, SessionStep(s), CommitUnacknowledged(s)
      PROVE  Explained(j)'
  BY <1>2, ExplainedPublish DEF CommitUnacknowledged, Lost
<1>3. ASSUME NEW s \in Session, SessionStep(s),
             \/ Begin(s) \/ EnterNested(s) \/ ExitNested(s)
             \/ \E r \in Row : Update(s, r)
             \/ \E k \in CacheKey : GetMiss(s, k)
             \/ LoadInTransaction(s) \/ LoadOrCreate(s) \/ LoadOutside(s) \/ Rollback(s)
      PROVE  Explained(j)'
  <2>1. UNCHANGED <<cache, db, tainted>> /\ phase[s] # "flush"
    BY <1>3 DEF Begin, EnterNested, ExitNested, Update, GetMiss, LoadInTransaction,
       LoadOrCreate, LoadOutside, Rollback
  <2>2. QED
    BY <1>3, <2>1, FlushStaysDue, ExplainedFrame
<1>4. ASSUME NEW k \in CacheKey, Expire(k) PROVE Explained(j)'
  <2>1. FlushDue(j) => FlushDue(j)'
    BY <1>4 DEF Expire, sessionVars, FlushDue
  <2>2. CASE j = k
    BY <1>4, <2>2 DEF TypeOK, Expire, Explained
  <2>3. CASE j # k
    BY <1>4, <2>1, <2>3, ExplainedFrame DEF TypeOK, Expire
  <2>4. QED
    BY <2>2, <2>3
<1>5. CASE UNCHANGED vars
  BY <1>5, ExplainedFrame DEF vars, sessionVars, FlushDue
<1>6. QED
  BY <1>1, <1>2, <1>3, <1>4, <1>5, ExplainedStore, ExplainedFlush, ExplainedLeave
     DEF Next, SessionStep

\* A stale entry has one of the three causes StaleExplained lists.
THEOREM StaleHasACause == Spec => []StaleExplained
<1>1. Init => StaleExplained
  BY DEF Init, StaleExplained
<1>2. QED
  BY <1>1, ExplainedStep, TypeCorrect, JournalInvariant, PTL DEF Spec
-----------------------------------------------------------------------------
(***************************************************************************)
(* Refinement: a step of a session is one of the read-through cache, or    *)
(* changes nothing of it.  The journals are the keys in doubt.             *)
(***************************************************************************)
LEMMA AbstractInit == Init => Abstract!Init
<1> SUFFICES ASSUME Init PROVE Abstract!Init
  OBVIOUS
<1>1. Doubt = {}
  BY DEF Init, Doubt, FlushDue
<1> QED
  BY <1>1 DEF Init, Abstract!Init

Unseen == UNCHANGED <<db, committed, durable, cache, Doubt>>

\* A session that neither flushes nor begins to leaves what is due to be flushed.
LEMMA DueKept ==
    ASSUME TypeOK, NEW s \in Session, SessionStep(s), phase[s] # "flush",
           phase'[s] # "flush", tainted' = tainted
    PROVE  Doubt' = Doubt
<1>1. ASSUME NEW j \in CacheKey PROVE FlushDue(j)' <=> FlushDue(j)
  BY OthersUntouched DEF FlushDue, Untouched
<1> QED
  BY <1>1 DEF Doubt

\* Publishing puts the keys with an operation in the journal in doubt, and those are
\* all the keys that follow a row that was written.
LEMMA RefineCommit ==
    ASSUME TypeOK, VersionInv, JournalInv, NEW s \in Session, Publish(s), cache' = cache,
           Doubt' = Doubt \union Lost(s)
    PROVE  Abstract!Commit
<1>1. /\ \A r \in Row : db'[r] = IF writes[s][r] # 0 THEN writes[s][r] ELSE db[r]
      /\ committed' = [r \in Row |-> committed[r] \union {db'[r]}]
      /\ durable' = durable \union issued[s]
  BY DEF Publish, Visible
<1>2. \A r \in Row : writes[s][r] # 0 =>
          writes[s][r] \in issued[s] /\ writes[s][r] \notin durable
  BY DEF VersionInv
<1>3. \A r \in Row : db'[r] = db[r] \/ db'[r] \in (durable' \union {0}) \ (durable \union {0})
  BY <1>1, <1>2
<1>4. \A k \in CacheKey, r \in Row : k \in Invalidates[r] /\ db'[r] # db[r] => k \in Lost(s)
  BY <1>1 DEF JournalInv, JournalInvOf, Lost
<1> QED
  BY <1>1, <1>3, <1>4 DEF Abstract!Commit, Abstract!Follows

\* An entry that is written holds committed versions; unless all its rows are as it
\* says, it is in doubt.
LEMMA RefineFill ==
    ASSUME TypeOK, NEW k \in CacheKey, NEW snap \in Snapshot, EntryCommitted(k, snap),
           cache' = [cache EXCEPT ![k] = snap],
           tainted' = Retaint(k, Outdated(k, snap)),
           \A j \in CacheKey : j # k => (FlushDue(j)' <=> FlushDue(j)),
           UNCHANGED <<db, committed, durable>>
    PROVE  Abstract!Fill(k)
<1>1. cache'[k] = snap /\ cache'[k] # NoEntry /\ cache' = [cache EXCEPT ![k] = cache'[k]]
  BY NullAssumption DEF TypeOK
<1>2. \A r \in Row : cache'[k][r] \in IF k \in Invalidates[r] THEN committed[r]
                                                            ELSE durable \union {0}
  BY <1>1 DEF EntryCommitted
<1>3. \A j \in CacheKey : j # k => (j \in Doubt' <=> j \in Doubt)
  BY DEF Doubt, Retaint
<1>4. Doubt \subseteq CacheKey /\ Doubt' \subseteq CacheKey
  BY DEF Doubt, TypeOK, Retaint
<1>5. \/ Doubt' = Doubt \union {k}
      \/ Doubt' = Doubt \ {k} /\ ~ Outdated(k, snap)
  <2>1. CASE k \in Doubt'
    BY <1>3, <1>4, <2>1
  <2>2. CASE k \notin Doubt'
    <3>1. ~ Outdated(k, snap)
      BY <2>2 DEF Doubt, Retaint
    <3> QED
      BY <1>3, <1>4, <2>2, <3>1
  <2> QED
    BY <2>1, <2>2
<1>6. ~ Outdated(k, snap) => \A r \in Row : Abstract!Follows(k, r) => cache'[k][r] = db[r]
  BY <1>1 DEF Outdated, Abstract!Follows
<1> QED
  BY <1>1, <1>2, <1>5, <1>6 DEF Abstract!Fill

LEMMA RefineForget ==
    ASSUME TypeOK, NEW k \in CacheKey, cache' = [cache EXCEPT ![k] = NoEntry],
           tainted' = tainted \ {k}, k \in Doubt' => k \in Doubt,
           \A j \in CacheKey : j # k => (FlushDue(j)' <=> FlushDue(j)),
           UNCHANGED <<db, committed, durable>>
    PROVE  Abstract!Forget(k)
<1>1. \A j \in CacheKey : j # k => (j \in Doubt' <=> j \in Doubt)
  BY DEF Doubt
<1>2. Doubt \subseteq CacheKey /\ Doubt' \subseteq CacheKey
  BY DEF Doubt, TypeOK
<1>3. Doubt' \in {Doubt, Doubt \ {k}}
  BY <1>1, <1>2
<1> QED
  BY <1>3 DEF Abstract!Forget

LEMMA RefineFlush ==
    ASSUME TypeOK, VersionInv, JournalInv, NEW s \in Session, NEW k \in CacheKey, FlushOp(s, k)
    PROVE  Abstract!Next \/ Unseen
<1>1. /\ phase[s] = "flush" /\ pending[s][k] # NoOp
      /\ UNCHANGED <<db, committed, durable, phase>>
      /\ \A t \in Session, j \in CacheKey : t # s \/ j # k => pending'[t][j] = pending[t][j]
      /\ pending'[s][k] = NoOp
  BY DEF FlushOp, TypeOK
<1>2. \A j \in CacheKey : j # k => (FlushDue(j)' <=> FlushDue(j))
  BY <1>1 DEF FlushDue
<1>3. k \in Doubt
  BY <1>1 DEF Doubt, FlushDue
<1>4. CASE pending[s][k] = Delete /\ cache' = [cache EXCEPT ![k] = NoEntry]
           /\ tainted' = tainted \ {k}
  BY <1>1, <1>2, <1>3, <1>4, RefineForget DEF Abstract!Next
<1>5. CASE pending[s][k] # Delete /\ cache' = [cache EXCEPT ![k] = pending[s][k]]
           /\ tainted' = Retaint(k, Outdated(k, pending[s][k]))
  <2>1. pending[s][k] \in Snapshot
    BY <1>1, <1>5 DEF TypeOK
  <2>2. EntryCommitted(k, pending[s][k])
    BY <1>1, <2>1, CommittableIsCommitted DEF JournalInv, JournalInvOf
  <2> QED
    BY <1>1, <1>2, <1>5, <2>1, <2>2, RefineFill DEF Abstract!Next
<1>6. CASE tainted' = tainted \union {k} /\ cache' = cache
  <2>1. Doubt' = Doubt
    BY <1>2, <1>3, <1>6 DEF Doubt
  <2> QED
    BY <1>1, <1>6, <2>1 DEF Unseen
<1> QED
  BY <1>4, <1>5, <1>6 DEF FlushOp

LEMMA RefineStore ==
    ASSUME TypeOK, VersionInv, JournalInv, NEW s \in Session, Store(s)
    PROVE  Abstract!Next
<1>1. /\ phase[s] = "idle" /\ stage[s] = "store" /\ key[s] \in CacheKey
      /\ loaded[s] \in Snapshot
      /\ UNCHANGED <<db, committed, durable, phase, pending>>
      /\ cache' = [cache EXCEPT ![key[s]] = loaded[s]]
      /\ tainted' = Retaint(key[s], Outdated(key[s], loaded[s]))
  BY DEF Store, TypeOK
<1>2. EntryCommitted(key[s], loaded[s])
  BY <1>1, CommittableIsCommitted DEF JournalInv, JournalInvOf
<1>3. \A j \in CacheKey : FlushDue(j)' <=> FlushDue(j)
  BY <1>1 DEF FlushDue
<1> QED
  BY <1>1, <1>2, <1>3, RefineFill DEF Abstract!Next

\* A flush that ends has no operation left, or leaves them to doubt.
LEMMA RefineLeave ==
    ASSUME TypeOK, NEW s \in Session, SessionStep(s), EndTransaction(s) \/ Cancel(s)
    PROVE  Unseen
<1>1. UNCHANGED <<db, committed, durable, cache>> /\ phase'[s] # "flush"
  BY DEF EndTransaction, Cancel, Leave, TypeOK
<1>2. \A j \in CacheKey : FlushDue(j)' <=>
          \E t \in Session : t # s /\ phase[t] = "flush" /\ pending[t][j] # NoOp
  BY <1>1, OthersUntouched DEF FlushDue, Untouched
<1>3. CASE phase[s] = "flush"
  <2>1. tainted' = tainted \union Lost(s)
    BY <1>3 DEF EndTransaction, Cancel, Lost, NoPending
  <2>2. \A j \in CacheKey : FlushDue(j) <=> FlushDue(j)' \/ j \in Lost(s)
    BY <1>2, <1>3 DEF FlushDue, Lost
  <2>3. Doubt' = Doubt
    BY <2>1, <2>2 DEF Doubt, Lost
  <2> QED
    BY <1>1, <2>3 DEF Unseen
<1>4. CASE phase[s] # "flush"
  <2>1. tainted' = tainted
    BY <1>4 DEF EndTransaction, Cancel
  <2> QED
    BY <1>1, <1>4, <2>1, DueKept DEF Unseen
<1> QED
  BY <1>3, <1>4

LEMMA RefineSession ==
    ASSUME TypeOK, VersionInv, JournalInv, NEW s \in Session, SessionStep(s)
    PROVE  Abstract!Next \/ Unseen
<1>1. CASE Commit(s)
  <2>1. /\ Publish(s) /\ cache' = cache /\ tainted' = tainted /\ pending' = pending
        /\ phase[s] = "txn" /\ \A t \in Session : phase'[t] = IF t = s THEN "flush" ELSE phase[t]
    BY <1>1 DEF Commit, TypeOK
  <2>2. \A j \in CacheKey : FlushDue(j)' <=> FlushDue(j) \/ j \in Lost(s)
    BY <2>1 DEF FlushDue, Lost
  <2>3. Doubt' = Doubt \union Lost(s)
    BY <2>1, <2>2 DEF Doubt, Lost
  <2> QED
    BY <2>1, <2>3, RefineCommit DEF Abstract!Next
<1>2. CASE CommitUnacknowledged(s)
  <2>1. /\ Publish(s) /\ cache' = cache /\ tainted' = tainted \union Lost(s)
        /\ phase[s] = "txn" /\ phase'[s] # "flush"
    BY <1>2 DEF CommitUnacknowledged, Leave, TypeOK
  <2>2. \A j \in CacheKey : FlushDue(j)' <=> FlushDue(j)
    BY <2>1, OthersUntouched DEF FlushDue, Untouched
  <2>3. Doubt' = Doubt \union Lost(s)
    BY <2>1, <2>2 DEF Doubt, Lost
  <2> QED
    BY <2>1, <2>3, RefineCommit DEF Abstract!Next
<1>3. CASE \/ Begin(s) \/ EnterNested(s) \/ ExitNested(s)
           \/ \E r \in Row : Update(s, r)
           \/ \E k \in CacheKey : GetMiss(s, k)
           \/ LoadInTransaction(s) \/ LoadOrCreate(s) \/ LoadOutside(s) \/ Rollback(s)
  <2>1. /\ UNCHANGED <<db, committed, durable, cache, tainted>>
        /\ phase[s] # "flush" /\ phase'[s] # "flush"
    BY <1>3 DEF Begin, EnterNested, ExitNested, Update, GetMiss, LoadInTransaction,
       LoadOrCreate, LoadOutside, Rollback, Leave, TypeOK
  <2> QED
    BY <2>1, DueKept DEF Unseen
<1> QED
  BY <1>1, <1>2, <1>3, RefineFlush, RefineStore, RefineLeave DEF SessionStep

LEMMA AbstractStep ==
    TypeOK /\ VersionInv /\ JournalInv /\ [Next]_vars => [Abstract!Next]_(Abstract!vars)
<1> SUFFICES ASSUME TypeOK, VersionInv, JournalInv, [Next]_vars
             PROVE  Abstract!Next \/ Unseen
  BY DEF Abstract!vars, Unseen
<1>1. ASSUME NEW k \in CacheKey, Expire(k) PROVE Abstract!Next
  <2>1. /\ cache' = [cache EXCEPT ![k] = NoEntry] /\ tainted' = tainted \ {k}
        /\ UNCHANGED <<db, committed, durable, phase, pending>>
    BY <1>1 DEF Expire, sessionVars
  <2>2. \A j \in CacheKey : FlushDue(j)' <=> FlushDue(j)
    BY <2>1 DEF FlushDue
  <2>3. k \in Doubt' => k \in Doubt
    BY <2>1, <2>2 DEF Doubt
  <2> QED
    BY <2>1, <2>2, <2>3, RefineForget DEF Abstract!Next
<1>2. CASE UNCHANGED vars
  BY <1>2 DEF vars, sessionVars, Unseen, Doubt, FlushDue
<1> QED
  BY <1>1, <1>2, RefineSession DEF Next

\* Seen through Postgres and Redis the sessions, their journals and their nested blocks
\* are a read-through cache: versions appear once and together, entries are filled from
\* those only, and a key that is in doubt remains so until it is filled or deleted.
THEOREM CacheIsReadThrough == Spec => ImplementsReadThrough
<1>1. Init => Abstract!Init
  BY AbstractInit
<1>2. TypeOK /\ VersionInv /\ JournalInv /\ [Next]_vars => [Abstract!Next]_(Abstract!vars)
  BY AbstractStep
<1> QED
  BY <1>1, <1>2, TypeCorrect, VersionInvariant, JournalInvariant, PTL
     DEF Spec, ImplementsReadThrough, Abstract!Spec
=============================================================================
