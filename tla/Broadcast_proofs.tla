-------------------------- MODULE Broadcast_proofs --------------------------
(***************************************************************************)
(* For every number of users, broadcasts, redeliveries and failures and    *)
(* every size of a page and of a batch: broadcasts exclude each other,     *)
(* their lock is released, nobody is missed, every copy has a cause and    *)
(* the report adds up.  The inductive invariant has a part for the life of *)
(* a broadcast, three for its lock, one for the copies sent, one for the   *)
(* number of active users and one for each execution: its pages, its       *)
(* batches, whom it has to reach and what it reports.                      *)
(***************************************************************************)
EXTENDS Broadcast, FiniteSetTheorems, WellFoundedInduction, TLAPS

(***************************************************************************)
(* A broadcast is enqueued by its handler's kiq and executed from the      *)
(* message: before that there is no execution of it, and there are no more *)
(* executions than deliveries.                                             *)
(***************************************************************************)
LifeInv ==
    /\ \A b \in Broadcast : handler[b] # "over" \/ b \in queued =>
          b \notin unacked /\ \A k \in Copy : exec[<<b, k>>].at = "none"
    /\ \A b \in queued : handler[b] = "over"
    /\ \A e \in Execution : exec[e].at # "none" => e[2] <= redelivered[e[1]] + 1

(***************************************************************************)
(* The lock of usecases/broadcast.py is held for somebody: a handler       *)
(* between its SET NX and its kiq, a message, or an execution whose        *)
(* `finally` is still to come.                                             *)
(***************************************************************************)
LockInv ==
    lock => \/ leaked
            \/ \E b \in Broadcast : handler[b] = "locked" \/ b \in queued
            \/ \E b \in unacked : \A k \in Copy : exec[<<b, k>>].at # "ended"

(***************************************************************************)
(* Who is going to delete the lock: the handler or the message of b (k =   *)
(* 0), or its k-th execution.                                              *)
(***************************************************************************)
Claims(b, k) ==
    IF k = 0 THEN handler[b] = "locked" \/ b \in queued ELSE HoldsLock(<<b, k>>)

(***************************************************************************)
(* Unless a broadcast went on without the lock, one claim at most is       *)
(* there, and the lock with it.                                            *)
(***************************************************************************)
ClaimInv == ~ astray =>
    \A b, c \in Broadcast, k, j \in Copy \union {0} :
        Claims(b, k) /\ Claims(c, j) => b = c /\ k = j /\ lock

(***************************************************************************)
(* An execution works through the pages of execute() in order of user id:  *)
(* what it has read, in this page or in batches, is up to its cursor.      *)
(***************************************************************************)
PageOK(e) ==
    /\ exec[e].at = "none" => exec[e] = Idle
    /\ exec[e].at \in {"none", "count"} => /\ exec[e].todo = {} /\ exec[e].cursor = 0
                                           /\ batch[e] = {}
    /\ exec[e].at = "page" => /\ exec[e].todo \subseteq 1 .. exec[e].cursor
                              /\ \A x \in batch[e] : x.users \subseteq 1 .. exec[e].cursor
    /\ exec[e].at = "wait" => exec[e].todo = {}
    /\ exec[e].at # "ended" => exec[e].ok = 0

(***************************************************************************)
(* The batches of an execution, with what is left of its page, hold every  *)
(* user once at most; a batch that is done has delivered no more than it   *)
(* has sent.                                                               *)
(***************************************************************************)
BatchOK(e) ==
    /\ IsFiniteSet(batch[e])
    /\ \A x \in batch[e] :
          /\ x.users \intersect exec[e].todo = {}
          /\ Cardinality(x.users) <= ChunkSize
          /\ x.at = "done" =>
               x.delivered <= Cardinality({u \in x.users : copies[e[1]][u] > 0})
    /\ \A x, y \in batch[e] : x # y => x.users \intersect y.users = {}

(***************************************************************************)
(* Whoever was active since the execution started is still to be read, in  *)
(* the page, or in a batch.                                                *)
(***************************************************************************)
SteadyOK(e) ==
    exec[e].at \in {"page", "wait"} =>
        /\ exec[e].steady \subseteq active
        /\ \A u \in exec[e].steady :
              \/ exec[e].at = "page" /\ (u > exec[e].cursor \/ u \in exec[e].todo)
              \/ \E x \in batch[e] : u \in x.users

(***************************************************************************)
(* The execution e sends nothing to u any more, but for a batch that is    *)
(* executed again.                                                         *)
(***************************************************************************)
Spent(e, u) ==
    /\ exec[e].at # "none" /\ u \notin exec[e].todo
    /\ exec[e].at \in {"count", "page"} => u <= exec[e].cursor
    /\ \A x \in batch[e] : u \in x.users => x.at = "done"

(***************************************************************************)
(* A copy sent to u was sent by an execution that has no other for u, or   *)
(* by the repetition of a batch.                                           *)
(***************************************************************************)
CopiesInv ==
    \A b \in Broadcast, u \in User :
        copies[b][u] <= Cardinality({k \in Copy : Spent(<<b, k>>, u)}) + repeated[b]

(***************************************************************************)
(* The cached total counts every active user but those who joined since.   *)
(* (The set A stands for the users it has counted: an upper bound that     *)
(* survives those who leave.)                                              *)
(***************************************************************************)
CountInv ==
    /\ joins + leaves + faults <= MaxEvents
    /\ count[2] <= joins
    /\ \E A \in SUBSET User : active \subseteq A /\ Cardinality(A) <= count[1] + joins - count[2]

(***************************************************************************)
(* The same for the total of an execution, which bounds those it has read; *)
(* and what the report says of an execution that has ended.                *)
(***************************************************************************)
ReportOK(e) ==
    /\ exec[e].base <= joins
    /\ exec[e].at \in {"page", "wait"} => \E A \in SUBSET User :
          /\ active \subseteq A /\ exec[e].todo \subseteq A /\ \A x \in batch[e] : x.users \subseteq A
          /\ Cardinality(A) <= exec[e].total + joins - exec[e].base
    /\ exec[e].at = "ended" =>
          /\ exec[e].ok <= exec[e].total + (joins - exec[e].base)
          /\ exec[e].ok <= Cardinality({u \in User : copies[e[1]][u] > 0})

PerExecution(e) == PageOK(e) /\ BatchOK(e) /\ SteadyOK(e) /\ ReportOK(e)

IInv ==
    /\ TypeOK /\ LifeInv /\ LockInv /\ ClaimInv /\ CopiesInv /\ CountInv
    /\ \A e \in Execution : PerExecution(e)
-----------------------------------------------------------------------------
(***************************************************************************)
(* A set of numbers that is not empty has a least one: the form in which   *)
(* the proofs below use induction over numbers.                            *)
(***************************************************************************)
LEMMA LeastNat ==
  ASSUME NEW S, S \subseteq Nat, S # {}
  PROVE  \E n \in S : \A m \in S : n <= m
<1>1. \E R : IsWellFoundedOn(R, Nat) /\ R = {ss \in Nat \X Nat : ss[1] < ss[2]}
  BY ONLY NatLessThanWellFounded, Zenon DEF OpToRel
<1>2. PICK R : IsWellFoundedOn(R, Nat) /\ R = {ss \in Nat \X Nat : ss[1] < ss[2]}
  BY <1>1
<1>3. PICK x \in S : \A y \in S : ~ (<<y, x>> \in R)
  BY <1>2, WFMin
<1>4. ASSUME NEW y \in S PROVE x <= y
  <2>1. x \in Nat /\ y \in Nat /\ (y < x => <<y, x>> \in R)
    BY <1>2
  <2> QED
    BY <1>3, <2>1
<1> QED
  BY <1>4

LEMMA Constants ==
  /\ NumUsers \in Nat /\ PageSize \in Nat \ {0} /\ ChunkSize \in Nat \ {0}
  /\ MaxRedelivery \in Nat /\ MaxEvents \in Nat /\ Broadcast \subseteq Nat
  /\ Copy \subseteq Nat /\ 1 \in Copy
  BY UserAssumption, SizeAssumption, BoundAssumption, BroadcastAssumption DEF Copy

LEMMA UserSets ==
  ASSUME NEW S \in SUBSET User
  PROVE  /\ IsFiniteSet(S) /\ Cardinality(S) \in 0 .. NumUsers
         /\ \A T \in SUBSET S : IsFiniteSet(T) /\ Cardinality(T) \in Nat /\ Cardinality(T) <= Cardinality(S)
<1>1. IsFiniteSet(User) /\ Cardinality(User) = NumUsers
  BY FS_Interval, Constants DEF User
<1>2. IsFiniteSet(S) /\ Cardinality(S) \in Nat /\ Cardinality(S) <= NumUsers
  BY <1>1, FS_Subset, FS_CardinalityType
<1> QED
  BY <1>2, FS_Subset, FS_CardinalityType, Constants

LEMMA CopySets ==
  ASSUME NEW S \in SUBSET Copy
  PROVE  /\ IsFiniteSet(S) /\ Cardinality(S) \in Nat
         /\ \A T \in SUBSET S : IsFiniteSet(T) /\ Cardinality(T) \in Nat /\ Cardinality(T) <= Cardinality(S)
<1>1. IsFiniteSet(Copy)
  BY FS_Interval, Constants DEF Copy
<1>2. IsFiniteSet(S) /\ Cardinality(S) \in Nat
  BY <1>1, FS_Subset, FS_CardinalityType
<1> QED
  BY <1>2, FS_Subset, FS_CardinalityType

LEMMA Greatest ==
  ASSUME NEW S \in SUBSET User, S # {}
  PROVE  Max(S) \in S /\ \A u \in S : u <= Max(S)
<1> DEFINE Above == {n \in Nat : \A u \in S : u <= n}
<1>1. NumUsers \in Above
  BY Constants DEF User
<1>2. PICK m \in Above : \A n \in Above : m <= n
  <2> HIDE DEF Above
  <2>1. Above \subseteq Nat
    BY DEF Above
  <2> QED
    BY <1>1, <2>1, LeastNat
<1>3. m \in S
  <2> SUFFICES ASSUME m \notin S PROVE FALSE
    OBVIOUS
  <2>1. \A u \in S : u \in Nat /\ u <= m /\ u # m /\ u >= 1
    BY <1>2, Constants DEF User
  <2>2. m - 1 \in Above
    BY <1>2, <2>1
  <2> QED
    BY <1>2, <2>2
<1>4. \E x \in S : \A y \in S : x >= y
  BY <1>2, <1>3, Constants DEF User
<1>5. \A y \in S : Max(S) >= y
  BY <1>4, Zenon DEF Max
<1>6. Max(S) \in S
  BY <1>4, Zenon DEF Max
<1> QED
  BY <1>5, <1>6, Constants DEF User

LEMMA LeastOnes ==
  ASSUME NEW n \in Nat \ {0}, NEW ids \in SUBSET User
  PROVE  /\ Least(n, ids) \subseteq ids
         /\ ids # {} => Least(n, ids) # {}
         /\ \A u \in Least(n, ids), w \in ids : w <= u => w \in Least(n, ids)
         /\ Cardinality(Least(n, ids)) <= n
<1> DEFINE Below(u) == {v \in ids : v < u}
<1>1. User \subseteq Nat /\ \A v \in ids : v \in Nat
  BY DEF User
<1>2. \A u \in ids : Cardinality(Below(u)) \in Nat
  BY UserSets
<1>3. ids # {} => Least(n, ids) # {}
  <2> SUFFICES ASSUME ids # {} PROVE Least(n, ids) # {}
    OBVIOUS
  <2>1. PICK m \in ids : \A u \in ids : m <= u
    BY <1>1, LeastNat
  <2>2. \A v \in ids : ~ (v < m)
    BY <1>1, <2>1
  <2>3. Below(m) = {}
    BY <2>2
  <2> QED
    BY <2>2, <2>3, FS_EmptySet DEF Least
<1>4. ASSUME NEW u \in Least(n, ids), NEW w \in ids, w <= u
      PROVE  w \in Least(n, ids)
  <2>0. u \in ids
    BY DEF Least
  <2>1. \A v \in ids : v < w => v < u
    BY <1>1, <1>4, <2>0
  <2>1a. Below(w) \in SUBSET Below(u)
    BY <2>1
  <2>2. Cardinality(Below(w)) \in Nat /\ Cardinality(Below(w)) <= Cardinality(Below(u))
    BY <2>1a, UserSets
  <2>3. u \in ids /\ Cardinality(Below(u)) < n
    BY <1>4 DEF Least
  <2>4. Cardinality(Below(w)) < n
    BY <1>2, <2>2, <2>3
  <2> QED
    BY <2>4 DEF Least
<1>5. Cardinality(Least(n, ids)) <= n
  <2>1. CASE Least(n, ids) = {}
    BY <2>1, FS_EmptySet
  <2>2. CASE Least(n, ids) # {}
    <3> DEFINE m == Max(Least(n, ids))
    <3>1. m \in Least(n, ids) /\ \A u \in Least(n, ids) : u <= m
      BY <2>2, Greatest DEF Least
    <3>2. m \in ids /\ Cardinality(Below(m)) < n
      BY <3>1 DEF Least
    <3> HIDE DEF m
    <3>3. \A v \in Least(n, ids) \ {m} : v \in ids /\ v < m
      <4>1. \A v \in Least(n, ids) : v \in ids
        BY DEF Least
      <4>2. TAKE v \in Least(n, ids) \ {m}
      <4>3. v \in ids /\ v <= m /\ v # m /\ v \in Nat /\ m \in Nat
        BY <1>1, <3>1, <3>2, <4>1
      <4> QED
        BY <4>3
    <3>3a. Least(n, ids) \ {m} \in SUBSET Below(m)
      BY <3>3
    <3>4. Cardinality(Least(n, ids) \ {m}) <= Cardinality(Below(m)) /\ Cardinality(Below(m)) \in Nat
      BY <3>3a, UserSets
    <3>5. IsFiniteSet(Least(n, ids)) /\ Cardinality(Least(n, ids)) \in Nat
      BY UserSets DEF Least
    <3>6. Cardinality(Least(n, ids) \ {m}) = Cardinality(Least(n, ids)) - 1
      BY <3>1, <3>5, FS_RemoveElement
    <3> QED
      BY <3>2, <3>4, <3>5, <3>6
  <2> QED
    BY <2>1, <2>2
<1> QED
  BY <1>3, <1>4, <1>5, Zenon DEF Least

Reached(s, H) == {u \in H : \E x \in s : u \in x.users}

SumOf(B, g) ==
    g = [s \in SUBSET B |->
            IF s = {} THEN 0
            ELSE LET x == CHOOSE x \in s : TRUE IN Delivered(x) + g[s \ {x}]]

LEMMA SumIsDefined ==
  ASSUME NEW B, IsFiniteSet(B), \A x \in B : Delivered(x) \in 0 .. NumUsers
  PROVE  \E g : SumOf(B, g) /\ MapThenSumSet(Delivered, B) = g[B]
<1> DEFINE Pairs(s) == {p \in s \X (1 .. NumUsers) : p[2] <= Delivered(p[1])}
           W == [s \in SUBSET B |-> Cardinality(Pairs(s))]
<1>1. SumOf(B, W)
  <2>1. ASSUME NEW s \in SUBSET B, s # {}, NEW x \in s
        PROVE  Cardinality(Pairs(s)) = Delivered(x) + Cardinality(Pairs(s \ {x}))
    <3> DEFINE P == {x} \X (1 .. Delivered(x))
    <3>1. IsFiniteSet(P) /\ Cardinality(P) = Delivered(x)
      <4>1. IsFiniteSet({x}) /\ Cardinality({x}) = 1
        BY FS_Singleton
      <4>2. Delivered(x) \in Nat /\ IsFiniteSet(1 .. Delivered(x)) /\ Cardinality(1 .. Delivered(x)) = Delivered(x)
        BY FS_Interval, Constants
      <4>3. IsFiniteSet(P) /\ Cardinality(P) = Cardinality({x}) * Cardinality(1 .. Delivered(x))
        BY <4>1, <4>2, FS_Product
      <4> QED
        BY <4>1, <4>2, <4>3
    <3>2. IsFiniteSet(Pairs(s \ {x}))
      <4>1. IsFiniteSet(s \ {x})
        BY FS_Subset
      <4>2a. IsFiniteSet(1 .. NumUsers)
        BY FS_Interval, Constants
      <4>2. IsFiniteSet((s \ {x}) \X (1 .. NumUsers))
        BY <4>1, <4>2a, FS_Product
      <4>3. Pairs(s \ {x}) \in SUBSET ((s \ {x}) \X (1 .. NumUsers))
        OBVIOUS
      <4> QED
        BY <4>2, <4>3, FS_Subset
    <3>3. Delivered(x) \in 0 .. NumUsers
      OBVIOUS
    <3>4. Pairs(s) = P \union Pairs(s \ {x}) /\ P \intersect Pairs(s \ {x}) = {}
      BY <3>3, Constants
    <3> HIDE DEF P, Pairs
    <3>5. Cardinality(P \union Pairs(s \ {x})) = Cardinality(P) + Cardinality(Pairs(s \ {x}))
                 - Cardinality(P \intersect Pairs(s \ {x}))
      BY <3>1, <3>2, FS_Union
    <3>6. Cardinality(Pairs(s \ {x})) \in Nat /\ Cardinality({}) = 0
      BY <3>2, FS_CardinalityType, FS_EmptySet
    <3>7. Cardinality(Pairs(s)) = Cardinality(P \union Pairs(s \ {x}))
             /\ Cardinality(P \intersect Pairs(s \ {x})) = 0
      BY <3>4, <3>6, Zenon
    <3>8. Cardinality(P) \in Nat
      BY <3>1, <3>3, Constants
    <3> QED
      BY <3>1, <3>5, <3>6, <3>7, <3>8
  <2>2. Cardinality(Pairs({})) = 0
    <3>1. Pairs({}) = {}
      OBVIOUS
    <3> QED
      BY <3>1, FS_EmptySet
  <2> HIDE DEF Pairs
  <2>3. ASSUME NEW s \in SUBSET B, s # {}
        PROVE  W[s] = LET x == CHOOSE x \in s : TRUE IN Delivered(x) + W[s \ {x}]
    BY <2>1, <2>3, Zenon
  <2>4. ASSUME NEW s \in SUBSET B
        PROVE  W[s] = IF s = {} THEN 0 ELSE LET x == CHOOSE x \in s : TRUE IN Delivered(x) + W[s \ {x}]
    BY <2>2, <2>3, <2>4, Zenon
  <2>5. W = [s \in SUBSET B |-> W[s]]
    BY Zenon
  <2> HIDE DEF W
  <2> QED
    BY <2>4, <2>5, Zenon DEF SumOf
<1>2. \E f : /\ MapThenSumSet(Delivered, B) = f[B]
             /\ f = CHOOSE g : SumOf(B, g)
  BY Zenon DEF MapThenSumSet, MapThenFoldSet, SumOf
<1>3. \E g : SumOf(B, g)
  BY <1>1, Zenon
<1> QED
  BY <1>2, <1>3, Zenon

LEMMA DeliveredSum ==
  ASSUME NEW B, IsFiniteSet(B), NEW H \in SUBSET User,
         \A x \in B : /\ x.users \in SUBSET User /\ Delivered(x) \in Nat
                      /\ Delivered(x) <= Cardinality(x.users \intersect H),
         \A x, y \in B : x # y => x.users \intersect y.users = {}
  PROVE  /\ MapThenSumSet(Delivered, B) \in Nat
         /\ MapThenSumSet(Delivered, B) <= Cardinality(Reached(B, H))
<1>1. \A x \in B : Delivered(x) \in 0 .. NumUsers
  <2> TAKE x \in B
  <2>1. Cardinality(x.users \intersect H) \in 0 .. NumUsers
    BY UserSets
  <2> QED
    BY <2>1, Constants
<1>2. PICK g : SumOf(B, g) /\ MapThenSumSet(Delivered, B) = g[B]
  BY <1>1, SumIsDefined
<1> DEFINE Bounded(s) == g[s] \in Nat /\ g[s] <= Cardinality(Reached(s, H))
           Sizes == {n \in Nat : \E s \in SUBSET B : Cardinality(s) = n /\ ~ Bounded(s)}
<1>3. \A s \in SUBSET B : Reached(s, H) \in SUBSET User
  BY DEF Reached
<1>4. ASSUME NEW s \in SUBSET B, \A r \in SUBSET B : Cardinality(r) < Cardinality(s) => Bounded(r)
      PROVE  Bounded(s)
  <2>1. CASE s = {}
    <3>1. g[s] = 0
      BY <1>2, <2>1, Zenon DEF SumOf
    <3> QED
      BY <1>3, <3>1, UserSets
  <2>2. CASE s # {}
    <3>1. PICK x \in s : g[s] = Delivered(x) + g[s \ {x}]
      <4>1. g[s] = LET x == CHOOSE x \in s : TRUE IN Delivered(x) + g[s \ {x}]
        BY <1>2, <2>2, Zenon DEF SumOf
      <4> QED
        BY <2>2, <4>1, Zenon
    <3>2. IsFiniteSet(s) /\ Cardinality(s) \in Nat
      BY FS_Subset, FS_CardinalityType
    <3>3. Cardinality(s \ {x}) < Cardinality(s)
      <4>1. Cardinality(s \ {x}) = Cardinality(s) - 1
        BY <3>2, FS_RemoveElement
      <4> QED
        BY <3>2, <4>1
    <3>4. Bounded(s \ {x})
      BY <1>4, <3>3, Zenon
    <3>5. /\ Reached(s, H) = (x.users \intersect H) \union Reached(s \ {x}, H)
          /\ (x.users \intersect H) \intersect Reached(s \ {x}, H) = {}
      <4>1. \A u : u \in Reached(s, H) <=> u \in H /\ \E y \in s : u \in y.users
        BY DEF Reached
      <4>2. \A u : u \in Reached(s \ {x}, H) <=> u \in H /\ \E y \in s \ {x} : u \in y.users
        BY DEF Reached
      <4>3. \A y \in s \ {x} : x.users \intersect y.users = {}
        OBVIOUS
      <4> QED
        BY <4>1, <4>2, <4>3
    <3>6. /\ IsFiniteSet(x.users \intersect H) /\ Cardinality(x.users \intersect H) \in Nat
          /\ IsFiniteSet(Reached(s \ {x}, H)) /\ Cardinality(Reached(s \ {x}, H)) \in Nat
      BY <1>3, UserSets
    <3>7. Cardinality(Reached(s, H))
            = Cardinality(x.users \intersect H) + Cardinality(Reached(s \ {x}, H))
      <4>1. Cardinality((x.users \intersect H) \union Reached(s \ {x}, H))
              = Cardinality(x.users \intersect H) + Cardinality(Reached(s \ {x}, H))
                  - Cardinality((x.users \intersect H) \intersect Reached(s \ {x}, H))
        BY <3>6, FS_Union
      <4>2. Cardinality((x.users \intersect H) \intersect Reached(s \ {x}, H)) = 0
        BY <3>5, FS_EmptySet, Zenon
      <4> QED
        BY <3>5, <3>6, <4>1, <4>2
    <3> QED
      BY <3>1, <3>4, <3>6, <3>7
  <2> QED
    BY <2>1, <2>2
<1>5. Sizes = {}
  <2> SUFFICES ASSUME Sizes # {} PROVE FALSE
    OBVIOUS
  <2>1. PICK n \in Sizes : \A m \in Sizes : n <= m
    <3>1. Sizes \subseteq Nat
      OBVIOUS
    <3> HIDE DEF Sizes
    <3> QED
      BY <3>1, LeastNat
  <2>2. PICK s \in SUBSET B : Cardinality(s) = n /\ ~ Bounded(s)
    BY <2>1
  <2>3. ASSUME NEW r \in SUBSET B, Cardinality(r) < Cardinality(s), ~ Bounded(r)
        PROVE  FALSE
    <3>1. Cardinality(r) \in Nat
      BY FS_Subset, FS_CardinalityType
    <3>2. Cardinality(r) \in Sizes
      BY <2>3, <3>1
    <3> QED
      BY <2>1, <2>2, <2>3, <3>1, <3>2
  <2> HIDE DEF Bounded
  <2> QED
    BY <1>4, <2>2, <2>3
<1>6. Cardinality(B) \in Nat
  BY FS_CardinalityType
<1>7. Bounded(B)
  <2> HIDE DEF Bounded
  <2> QED
    BY <1>5, <1>6
<1> QED
  BY <1>2, <1>7

-----------------------------------------------------------------------------
LEMMA Frame ==
  ASSUME NEW e \in Execution, PerExecution(e),
         exec'[e] = exec[e], batch'[e] = batch[e],
         active' = active, joins' = joins, copies' = copies
  PROVE  PerExecution(e)'
  BY DEF PerExecution, PageOK, BatchOK, SteadyOK, ReportOK

LEMMA CopiesFrame ==
  ASSUME TypeOK, CopiesInv, copies' = copies, repeated' = repeated,
         \A e \in Execution, u \in User : Spent(e, u) => Spent(e, u)'
  PROVE  CopiesInv'
<1> SUFFICES ASSUME NEW b \in Broadcast, NEW u \in User
             PROVE  copies[b][u] <= Cardinality({k \in Copy : Spent(<<b, k>>, u)'}) + repeated[b]
  BY DEF CopiesInv
<1> DEFINE S == {k \in Copy : Spent(<<b, k>>, u)}
           T == {k \in Copy : Spent(<<b, k>>, u)'}
<1>1. S \in SUBSET T /\ T \in SUBSET Copy
  BY DEF Execution
<1>2. copies[b][u] <= Cardinality(S) + repeated[b]
  BY DEF CopiesInv
<1>3. copies[b][u] \in Nat /\ repeated[b] \in Nat
  BY DEF TypeOK
<1> HIDE DEF S, T
<1>4. Cardinality(T) \in Nat /\ Cardinality(S) \in Nat /\ Cardinality(S) <= Cardinality(T)
  BY <1>1, CopySets
<1> QED
  BY <1>2, <1>3, <1>4 DEF T

LEMMA FaultFacts ==
  ASSUME TypeOK, CountInv, Fault \/ faults' = faults
  PROVE  faults' \in 0 .. MaxEvents /\ joins + leaves + faults' <= MaxEvents
  BY Constants DEF TypeOK, CountInv, Fault

LEMMA SameWork ==
  ASSUME IInv, UNCHANGED <<active, count, exec, batch, copies, repeated, joins, leaves>>,
         faults' \in Nat, joins + leaves + faults' <= MaxEvents
  PROVE  CopiesInv' /\ CountInv' /\ \A e \in Execution : PerExecution(e)'
<1>1. \A e \in Execution : PerExecution(e)'
  BY Frame DEF IInv
<1>2. \A e \in Execution, u \in User : Spent(e, u) => Spent(e, u)'
  BY DEF Spent
<1>3. CopiesInv'
  BY <1>2, CopiesFrame DEF IInv
<1>4. CountInv'
  BY DEF IInv, CountInv
<1> QED
  BY <1>1, <1>3, <1>4

LEMMA LockStep ==
  ASSUME IInv, NEW b \in Broadcast, Lock(b)
  PROVE  IInv'
<1> USE DEF IInv, Lock, work, history
<1>1. TypeOK'
  BY DEF TypeOK
<1>2. CopiesInv' /\ CountInv' /\ \A e \in Execution : PerExecution(e)'
  <2>1. faults' \in 0 .. MaxEvents /\ joins + leaves + faults' <= MaxEvents
    BY FaultFacts
  <2> QED
    BY <2>1, SameWork
<1>3. LifeInv'
  BY DEF LifeInv, TypeOK
<1>4. LockInv'
  BY DEF LockInv, TypeOK
<1>5. ClaimInv'
  BY DEF ClaimInv, TypeOK, Claims, HoldsLock
<1> QED
  BY <1>1, <1>2, <1>3, <1>4, <1>5

LEMMA KiqStep ==
  ASSUME IInv, NEW b \in Broadcast, Kiq(b)
  PROVE  IInv'
<1> USE DEF IInv, Kiq, work, Fault, Unlock, Abandon
<1>0. faults' \in 0 .. MaxEvents /\ joins + leaves + faults' <= MaxEvents
  <2>1. Fault \/ faults' = faults
    OBVIOUS
  <2> QED
    BY <2>1, FaultFacts
<1>1. TypeOK'
  BY <1>0 DEF TypeOK
<1>2. CopiesInv' /\ CountInv' /\ \A e \in Execution : PerExecution(e)'
  BY <1>0, SameWork
<1>3. LifeInv'
  BY DEF LifeInv, TypeOK
<1>4. LockInv'
  BY DEF LockInv, TypeOK
<1>5. ClaimInv'
  <2> SUFFICES ASSUME ~ astray' PROVE ClaimInv'
    BY DEF ClaimInv
  <2>1. ~ astray /\ Claims(b, 0)
    BY DEF Claims, TypeOK
  <2>2. \A c \in Broadcast, k \in Copy \union {0} : Claims(c, k)' => Claims(c, k)
    BY DEF Claims, HoldsLock, TypeOK
  <2>3. CASE lock' = lock
    BY <2>1, <2>2, <2>3 DEF ClaimInv
  <2>4. CASE ~ Claims(b, 0)'
    <3>1. \A c \in Broadcast, k \in Copy \union {0} : Claims(c, k) => c = b /\ k = 0
      BY <2>1 DEF ClaimInv
    <3>2. \A c \in Broadcast, k \in Copy \union {0} : ~ Claims(c, k)'
      BY <2>2, <2>4, <3>1
    <3> QED
      BY <3>2 DEF ClaimInv
  <2> QED
    BY <2>3, <2>4 DEF Claims, LifeInv, TypeOK
<1> QED
  BY <1>1, <1>2, <1>3, <1>4, <1>5

LEMMA LockExpiresStep ==
  ASSUME IInv, LockExpires
  PROVE  IInv'
<1> USE DEF IInv, LockExpires, work, Fault, Unlock
<1>0. faults' \in 0 .. MaxEvents /\ joins + leaves + faults' <= MaxEvents
  <2>1. Fault \/ faults' = faults
    OBVIOUS
  <2> QED
    BY <2>1, FaultFacts
<1>1. TypeOK'
  BY <1>0 DEF TypeOK
<1>2. CopiesInv' /\ CountInv' /\ \A e \in Execution : PerExecution(e)'
  BY <1>0, SameWork
<1>3. LifeInv'
  BY DEF LifeInv, TypeOK
<1>4. LockInv'
  BY DEF LockInv, TypeOK
<1>5. ClaimInv'
  BY DEF ClaimInv, TypeOK, Claims, HoldsLock, Underway
<1> QED
  BY <1>1, <1>2, <1>3, <1>4, <1>5

LEMMA LockEffects ==
  ASSUME TypeOK, LifeInv, LockInv, ClaimInv, NEW e \in Execution, exec[e].at # "none",
         UNCHANGED <<handler, queued, redelivered, astray, unacked>>,
         \A f \in Execution : f # e => exec'[f].at = exec[f].at,
         \/ UNCHANGED <<lock, leaked>> /\ exec[e].at \in {"count", "page"}
               /\ exec'[e].at \in {"page", "wait"}
         \/ /\ lock' = FALSE \/ (lock' = lock /\ leaked' = lock)
            /\ exec[e].at \in {"count", "page", "wait"} /\ exec'[e].at = "ended"
  PROVE  LifeInv' /\ LockInv' /\ ClaimInv'
<1>0. PICK b0 \in Broadcast, k0 \in Copy : e = <<b0, k0>>
  BY DEF Execution
<1>1. LifeInv'
  BY DEF LifeInv, TypeOK, Execution
<1>2. LockInv'
  BY <1>0 DEF LockInv, Execution, TypeOK
<1>3. \A c \in Broadcast, k \in Copy \union {0} : Claims(c, k)' => Claims(c, k)
  BY <1>0, Constants DEF Claims, HoldsLock, Execution, Copy
<1>4. ClaimInv'
  <2> SUFFICES ASSUME ~ astray PROVE ClaimInv'
    BY DEF ClaimInv
  <2>1. Claims(b0, k0)
    BY <1>0, Constants DEF Claims, HoldsLock, Copy
  <2>2. CASE lock' = lock
    BY <1>3, <2>2 DEF ClaimInv
  <2>3. CASE exec'[e].at = "ended"
    <3>1. \A c \in Broadcast, k \in Copy \union {0} : Claims(c, k) => c = b0 /\ k = k0
      BY <1>0, <2>1 DEF ClaimInv
    <3>2. ~ Claims(b0, k0)'
      BY <1>0, <2>3, Constants DEF Claims, HoldsLock, Copy
    <3>3. \A c \in Broadcast, k \in Copy \union {0} : ~ Claims(c, k)'
      BY <1>3, <3>1, <3>2
    <3> QED
      BY <3>3 DEF ClaimInv
  <2> QED
    BY <2>2, <2>3
<1> QED
  BY <1>1, <1>2, <1>4

LEMMA OneExecution ==
  ASSUME IInv, NEW e \in Execution, UNCHANGED <<active, joins, copies, repeated>>,
         \A f \in Execution : f # e => exec'[f] = exec[f] /\ batch'[f] = batch[f],
         PerExecution(e)', \A u \in User : Spent(e, u) => Spent(e, u)'
  PROVE  CopiesInv' /\ \A f \in Execution : PerExecution(f)'
<1>1. ASSUME NEW f \in Execution PROVE PerExecution(f)'
  <2>1. CASE f = e
    BY <2>1
  <2>2. CASE f # e
    BY <2>2, Frame DEF IInv
  <2> QED
    BY <2>1, <2>2
<1>2. ASSUME NEW f \in Execution, NEW u \in User, Spent(f, u) PROVE Spent(f, u)'
  <2>1. CASE f = e
    BY <1>2, <2>1
  <2>2. CASE f # e
    BY <1>2, <2>2 DEF Spent
  <2> QED
    BY <2>1, <2>2
<1>3. CopiesInv'
  BY <1>2, CopiesFrame DEF IInv
<1> QED
  BY <1>1, <1>3

LEMMA CountStep ==
  ASSUME IInv, NEW e \in Execution, Count(e)
  PROVE  IInv'
<1> USE DEF IInv
<1>1. PICK c \in {count, <<Cardinality(active), joins>>} :
        /\ exec[e].at = "count"
        /\ count' = c
        /\ exec' = [exec EXCEPT ![e].at = "page", ![e].total = c[1], ![e].base = c[2],
                                ![e].steady = active]
        /\ UNCHANGED <<active, lock, handler, queued, unacked, batch, context, history>>
  BY DEF Count
<1> USE DEF history
<1>2. c \in (0 .. NumUsers) \X (0 .. MaxEvents)
  BY <1>1, UserSets DEF TypeOK
<1>3. TypeOK'
  <2>1. exec[e] \in Progress /\ active \in SUBSET User
    BY DEF TypeOK
  <2>2. [exec[e] EXCEPT !.at = "page", !.total = c[1], !.base = c[2], !.steady = active] \in Progress
    BY <1>2, <2>1 DEF Progress
  <2>3. exec' = [exec EXCEPT ![e] =
                    [exec[e] EXCEPT !.at = "page", !.total = c[1], !.base = c[2], !.steady = active]]
    BY <1>1
  <2>4. exec' \in [Execution -> Progress]
    BY <2>2, <2>3 DEF TypeOK
  <2> QED
    BY <1>1, <1>2, <2>4 DEF TypeOK
<1>4. /\ exec'[e].at = "page" /\ exec'[e].total = c[1] /\ exec'[e].base = c[2]
      /\ exec'[e].steady = active /\ exec'[e].cursor = exec[e].cursor
      /\ exec'[e].todo = exec[e].todo /\ exec'[e].ok = exec[e].ok
      /\ \A f \in Execution : f # e => exec'[f] = exec[f]
  BY <1>1 DEF TypeOK, Progress
<1>5. CountInv' /\ c[2] <= joins /\ \E A \in SUBSET User :
                      active \subseteq A /\ Cardinality(A) <= c[1] + joins - c[2]
  <2>1. CASE c = count
    BY <1>1, <2>1 DEF CountInv
  <2>2. CASE c = <<Cardinality(active), joins>>
    <3>1. Cardinality(active) \in Nat /\ joins \in Nat
      BY UserSets, Constants DEF TypeOK
    <3> QED
      <4>1. c[1] = Cardinality(active) /\ c[2] = joins
        BY <2>2
      <4>2. active \in SUBSET User
        BY DEF TypeOK
      <4>3. Cardinality(active) <= c[1] + joins - c[2]
        BY <3>1, <4>1
      <4>4. UNCHANGED <<active, joins, leaves, faults>> /\ count' = c
        BY <1>1
      <4> HIDE DEF IInv
      <4>5. joins + leaves + faults <= MaxEvents
        BY DEF IInv, CountInv
      <4> QED
        BY <3>1, <4>1, <4>2, <4>3, <4>4, <4>5 DEF CountInv
  <2> QED
    BY <1>1, <2>1, <2>2
<1>6. PerExecution(e)'
  <2>1. PageOK(e) /\ BatchOK(e) /\ batch[e] = {} /\ exec[e].cursor = 0 /\ exec[e].todo = {}
    BY <1>1 DEF PerExecution, PageOK
  <2>2. PageOK(e)'
    BY <1>1, <1>4, <2>1 DEF PageOK
  <2>3. BatchOK(e)'
    BY <1>1, <2>1 DEF BatchOK
  <2>4. SteadyOK(e)'
    BY <1>1, <1>4, <2>1 DEF SteadyOK, TypeOK, User
  <2>5. ReportOK(e)'
    BY <1>1, <1>4, <1>5, <2>1 DEF ReportOK
  <2> QED
    BY <2>2, <2>3, <2>4, <2>5 DEF PerExecution
<1>7. \A u \in User : Spent(e, u) => Spent(e, u)'
  BY <1>1, <1>4 DEF Spent
<1>8. CopiesInv' /\ \A f \in Execution : PerExecution(f)'
  BY <1>1, <1>4, <1>6, <1>7, OneExecution
<1>9. LifeInv' /\ LockInv' /\ ClaimInv'
  BY <1>1, <1>4, LockEffects
<1> QED
  BY <1>3, <1>5, <1>8, <1>9

LEMMA ReadPageStep ==
  ASSUME IInv, NEW e \in Execution, ReadPage(e)
  PROVE  IInv'
<1> DEFINE rest == {u \in active : u > exec[e].cursor}
           ids == Least(PageSize, rest)
<1> USE DEF IInv
<1>1. /\ exec[e].at = "page" /\ exec[e].todo = {}
      /\ exec' = IF ids = {} THEN [exec EXCEPT ![e].at = "wait"]
                 ELSE [exec EXCEPT ![e].cursor = Max(ids), ![e].todo = ids]
      /\ UNCHANGED <<active, count, lock, handler, queued, unacked, batch, context, history>>
  BY DEF ReadPage, CursorAfter
<1> USE DEF history
<1>2. rest \in SUBSET User /\ ids \in SUBSET active
  BY LeastOnes, Constants DEF TypeOK
<1>3. /\ ids # {} => Max(ids) \in ids /\ \A u \in ids : u <= Max(ids)
      /\ ids = {} => rest = {}
      /\ \A u \in ids, w \in rest : w <= u => w \in ids
      /\ \A u \in ids : u \in User /\ u > exec[e].cursor
  <2>1. ids # {} => Max(ids) \in ids /\ \A u \in ids : u <= Max(ids)
    BY <1>2, Greatest DEF TypeOK
  <2>2. /\ ids \subseteq rest
        /\ ids = {} => rest = {}
        /\ \A u \in ids, w \in rest : w <= u => w \in ids
    <3> HIDE DEF rest
    <3> QED
      BY <1>2, LeastOnes, Constants
  <2> HIDE DEF ids
  <2> QED
    BY <2>1, <2>2, <1>2
<1> HIDE DEF ids
<1>4. \A f \in Execution : f # e => exec'[f] = exec[f]
  BY <1>1 DEF TypeOK
<1>5. \/ /\ ids = {} /\ exec' = [exec EXCEPT ![e].at = "wait"]
         /\ exec'[e].at = "wait" /\ exec'[e].cursor = exec[e].cursor /\ exec'[e].todo = {}
      \/ /\ ids # {} /\ exec' = [exec EXCEPT ![e].cursor = Max(ids), ![e].todo = ids]
         /\ exec'[e].at = "page" /\ exec'[e].cursor = Max(ids) /\ exec'[e].todo = ids
  BY <1>1 DEF TypeOK, Progress
<1>6. /\ exec'[e].total = exec[e].total /\ exec'[e].base = exec[e].base
      /\ exec'[e].steady = exec[e].steady /\ exec'[e].ok = exec[e].ok
  BY <1>1 DEF TypeOK, Progress
<1>7. TypeOK'
  <2>1. exec' \in [Execution -> Progress]
    <3>1. exec[e] \in Progress /\ active \in SUBSET User
      BY DEF TypeOK
    <3>2. CASE ids = {}
      <4>1. [exec[e] EXCEPT !.at = "wait"] \in Progress
        BY <3>1 DEF Progress
      <4>2. exec' = [exec EXCEPT ![e] = [exec[e] EXCEPT !.at = "wait"]]
        BY <1>5, <3>2
      <4> QED
        BY <4>1, <4>2 DEF TypeOK
    <3>3. CASE ids # {}
      <4>1. [exec[e] EXCEPT !.cursor = Max(ids), !.todo = ids] \in Progress
        <5>1. Max(ids) \in 0 .. NumUsers /\ ids \in SUBSET User
          <6>1. Max(ids) \in User /\ ids \in SUBSET User
            BY <1>2, <1>3, <3>1, <3>3
          <6> QED
            BY <6>1, Constants DEF User
        <5> QED
          BY <3>1, <5>1 DEF Progress
      <4>2. exec' = [exec EXCEPT ![e] = [exec[e] EXCEPT !.cursor = Max(ids), !.todo = ids]]
        BY <1>5, <3>3
      <4> QED
        BY <4>1, <4>2 DEF TypeOK
    <3> QED
      BY <3>2, <3>3
  <2> QED
    BY <1>1, <2>1 DEF TypeOK
<1>8. PerExecution(e)'
  <2>1. PageOK(e) /\ BatchOK(e) /\ SteadyOK(e) /\ ReportOK(e)
    BY DEF PerExecution
  <2>0. exec[e].cursor \in Nat /\ \A u \in User : u \in Nat /\ u > 0
    BY Constants DEF TypeOK, Progress, User
  <2>2. PageOK(e)'
    <3>1. CASE ids = {}
      BY <1>1, <1>5, <1>6, <2>1, <3>1 DEF PageOK
    <3>2. CASE ids # {}
      <4>1. ids \subseteq 1 .. Max(ids)
        BY <1>3, <2>0, <3>2
      <4>2. 1 .. exec[e].cursor \subseteq 1 .. Max(ids)
        BY <1>3, <2>0, <3>2
      <4> QED
        BY <1>1, <1>5, <1>6, <2>1, <3>2, <4>1, <4>2 DEF PageOK
    <3> QED
      BY <3>1, <3>2
  <2>3. BatchOK(e)'
    BY <1>1, <1>3, <1>5, <2>0, <2>1 DEF BatchOK, PageOK
  <2>4. SteadyOK(e)'
    BY <1>1, <1>2, <1>3, <1>5, <1>6, <2>0, <2>1 DEF SteadyOK, TypeOK
  <2>5. ReportOK(e)'
    BY <1>1, <1>2, <1>5, <1>6, <2>1 DEF ReportOK
  <2> QED
    BY <2>2, <2>3, <2>4, <2>5 DEF PerExecution
<1>9. \A u \in User : Spent(e, u) => Spent(e, u)'
  <2>1. exec[e].cursor \in Nat /\ \A u \in User : u \in Nat
    BY Constants DEF TypeOK, Progress, User
  <2> QED
    BY <1>1, <1>3, <1>5, <2>1 DEF Spent
<1>10. CopiesInv' /\ \A f \in Execution : PerExecution(f)'
  BY <1>1, <1>4, <1>8, <1>9, OneExecution
<1>11. LifeInv' /\ LockInv' /\ ClaimInv'
  <2>1. \A f \in Execution : f # e => exec'[f].at = exec[f].at
    BY <1>4
  <2> QED
    BY <1>1, <1>5, <2>1, LockEffects
<1>12. CountInv'
  BY <1>1 DEF CountInv
<1> QED
  BY <1>7, <1>10, <1>11, <1>12

LEMMA SendBatchStep ==
  ASSUME IInv, NEW e \in Execution, SendBatch(e)
  PROVE  IInv'
<1> DEFINE todo == exec[e].todo
           chunk == Least(ChunkSize, todo)
           new == [users |-> chunk, at |-> "queued", delivered |-> 0]
<1> USE DEF IInv
<1>1. /\ exec[e].at = "page"
      /\ exec' = [exec EXCEPT ![e].todo = todo \ chunk]
      /\ batch' = [batch EXCEPT ![e] = batch[e] \union {new}]
      /\ UNCHANGED <<active, count, lock, handler, queued, unacked, context, history>>
  BY DEF SendBatch, TypeOK
<1> USE DEF history
<1>2. /\ todo \in SUBSET User /\ chunk \in SUBSET todo
      /\ Cardinality(chunk) <= ChunkSize
  <2>1. todo \in SUBSET User
    BY DEF TypeOK, Progress
  <2> HIDE DEF todo
  <2> QED
    BY <2>1, LeastOnes, Constants
<1> HIDE DEF chunk
<1>3. \A f \in Execution : f # e => exec'[f] = exec[f] /\ batch'[f] = batch[f]
  BY <1>1 DEF TypeOK
<1>4. /\ exec'[e].at = "page" /\ exec'[e].todo = todo \ chunk
      /\ exec'[e].total = exec[e].total /\ exec'[e].base = exec[e].base
      /\ exec'[e].steady = exec[e].steady /\ exec'[e].ok = exec[e].ok
      /\ exec'[e].cursor = exec[e].cursor
      /\ batch'[e] = batch[e] \union {new}
  BY <1>1 DEF TypeOK, Progress
<1>5. TypeOK'
  <2>1. exec[e] \in Progress /\ batch[e] \in SUBSET Batch
    BY DEF TypeOK
  <2>2. [exec[e] EXCEPT !.todo = todo \ chunk] \in Progress
    BY <1>2, <2>1 DEF Progress
  <2>3. exec' = [exec EXCEPT ![e] = [exec[e] EXCEPT !.todo = todo \ chunk]]
    BY <1>1
  <2>4. new \in Batch
    BY <1>2, Constants DEF Batch
  <2> HIDE DEF new, todo
  <2>5. exec' \in [Execution -> Progress] /\ batch' \in [Execution -> SUBSET Batch]
    BY <1>1, <2>1, <2>2, <2>3, <2>4 DEF TypeOK
  <2> QED
    BY <1>1, <2>5 DEF TypeOK
<1>6. PerExecution(e)'
  <2>1. PageOK(e) /\ BatchOK(e) /\ SteadyOK(e) /\ ReportOK(e)
    BY DEF PerExecution
  <2>2. PageOK(e)'
    BY <1>1, <1>2, <1>4, <2>1 DEF PageOK
  <2>3. BatchOK(e)'
    <3>1. IsFiniteSet(batch'[e])
      <4>1. IsFiniteSet(batch[e])
        BY <2>1 DEF BatchOK
      <4> HIDE DEF new
      <4> QED
        BY <1>4, <4>1, FS_AddElement
    <3>2. new.users = chunk /\ new.at = "queued"
      OBVIOUS
    <3>3. \A x \in batch[e] : x.users \intersect todo = {}
      BY <2>1 DEF BatchOK
    <3> HIDE DEF new, todo
    <3> QED
      BY <1>1, <1>2, <1>4, <2>1, <3>1, <3>2, <3>3 DEF BatchOK
  <2>4. SteadyOK(e)'
    <3>1. new \in batch'[e] /\ new.users = chunk /\ batch[e] \subseteq batch'[e]
      BY <1>4
    <3> HIDE DEF new
    <3> QED
      BY <1>1, <1>2, <1>4, <2>1, <3>1 DEF SteadyOK
  <2>5. ReportOK(e)'
    BY <1>1, <1>2, <1>4, <2>1 DEF ReportOK
  <2> QED
    BY <2>2, <2>3, <2>4, <2>5 DEF PerExecution
<1>7. \A u \in User : Spent(e, u) => Spent(e, u)'
  BY <1>1, <1>2, <1>4 DEF Spent
<1>8. CopiesInv' /\ \A f \in Execution : PerExecution(f)'
  BY <1>1, <1>3, <1>6, <1>7, OneExecution
<1>9. LifeInv' /\ LockInv' /\ ClaimInv'
  BY <1>1, <1>3, <1>4, LockEffects
<1>10. CountInv'
  BY <1>1 DEF CountInv
<1> QED
  BY <1>5, <1>8, <1>9, <1>10

\* An execution ends, and says n users were sent the broadcast.
LEMMA EndedFacts ==
  ASSUME IInv, NEW e \in Execution, exec[e].at \in {"count", "page", "wait"},
         NEW n \in 0 .. NumUsers,
         n <= exec[e].total + (joins - exec[e].base),
         n <= Cardinality({u \in User : copies[e[1]][u] > 0}),
         exec' = [exec EXCEPT ![e].at = "ended", ![e].ok = n],
         UNCHANGED <<active, count, handler, queued, unacked, batch, context, copies,
                     redelivered, repeated, astray, joins, leaves>>,
         Unlock \/ Abandon, Fault \/ faults' = faults
  PROVE  IInv'
<1> USE DEF IInv
<1>1. /\ exec'[e].at = "ended" /\ exec'[e].ok = n
      /\ exec'[e].total = exec[e].total /\ exec'[e].base = exec[e].base
      /\ exec'[e].todo = exec[e].todo
      /\ \A f \in Execution : f # e => exec'[f] = exec[f]
  BY DEF TypeOK, Progress
<1>2. faults' \in 0 .. MaxEvents /\ joins + leaves + faults' <= MaxEvents
  BY FaultFacts
<1>3. TypeOK'
  <2>1. exec[e] \in Progress
    BY DEF TypeOK
  <2>2. [exec[e] EXCEPT !.at = "ended", !.ok = n] \in Progress
    BY <2>1 DEF Progress
  <2>3. exec' = [exec EXCEPT ![e] = [exec[e] EXCEPT !.at = "ended", !.ok = n]]
    OBVIOUS
  <2>4. exec' \in [Execution -> Progress]
    BY <2>2, <2>3 DEF TypeOK
  <2> QED
    BY <1>2, <2>4 DEF TypeOK, Unlock, Abandon
<1>4. PerExecution(e)'
  <2>1. PageOK(e) /\ BatchOK(e) /\ SteadyOK(e) /\ ReportOK(e)
    BY DEF PerExecution
  <2>2. PageOK(e)' /\ SteadyOK(e)'
    BY <1>1 DEF PageOK, SteadyOK
  <2>3. BatchOK(e)'
    BY <1>1, <2>1 DEF BatchOK
  <2>4. ReportOK(e)'
    BY <1>1, <2>1 DEF ReportOK
  <2> QED
    BY <2>2, <2>3, <2>4 DEF PerExecution
<1>5. \A u \in User : Spent(e, u) => Spent(e, u)'
  BY <1>1 DEF Spent
<1>6. CopiesInv' /\ \A f \in Execution : PerExecution(f)'
  BY <1>1, <1>4, <1>5, OneExecution
<1>7. LifeInv' /\ LockInv' /\ ClaimInv'
  <2>1. lock' = FALSE \/ (lock' = lock /\ leaked' = lock)
    BY DEF Unlock, Abandon
  <2>2. exec[e].at # "none"
    OBVIOUS
  <2> QED
    BY <1>1, <2>1, <2>2, LockEffects
<1>8. CountInv'
  BY <1>2 DEF CountInv
<1> QED
  BY <1>3, <1>6, <1>7, <1>8

\* An execution ends by an exception: nothing is reported.
LEMMA EndedBare ==
  ASSUME IInv, NEW e \in Execution, exec[e].at \in {"count", "page", "wait"},
         exec' = [exec EXCEPT ![e].at = "ended"],
         UNCHANGED <<active, count, handler, queued, unacked, batch, context, copies,
                     redelivered, repeated, astray, joins, leaves>>,
         Unlock \/ Abandon, Fault
  PROVE  IInv'
<1>1. PageOK(e) /\ ReportOK(e) /\ exec[e] \in Progress /\ joins \in Nat
  BY Constants DEF IInv, PerExecution, TypeOK
<1>2. exec[e].ok = 0
  BY <1>1 DEF PageOK
<1>3. exec' = [exec EXCEPT ![e].at = "ended", ![e].ok = 0]
  <2>1. exec' = [exec EXCEPT ![e] = [exec[e] EXCEPT !.at = "ended"]]
    OBVIOUS
  <2>2. [exec[e] EXCEPT !.at = "ended"] = [exec[e] EXCEPT !.at = "ended", !.ok = 0]
    BY <1>1, <1>2 DEF Progress
  <2> QED
    BY <2>1, <2>2
<1>4. 0 <= exec[e].total + (joins - exec[e].base)
  BY <1>1, Constants DEF ReportOK, Progress
<1>5. 0 <= Cardinality({u \in User : copies[e[1]][u] > 0})
  BY UserSets
<1>6. 0 \in 0 .. NumUsers
  BY Constants
<1> QED
  BY <1>3, <1>4, <1>5, <1>6, EndedFacts

LEMMA FailStep ==
  ASSUME IInv, NEW e \in Execution, Fail(e)
  PROVE  IInv'
  BY EndedBare DEF Fail

LEMMA DeliveredIs ==
  ASSUME NEW x
  PROVE  /\ x.at = "done" => Delivered(x) = x.delivered
         /\ x.at # "done" => Delivered(x) = 0
  BY DEF Delivered

\* The results are added up and the lock is deleted.
LEMMA ReportedStep ==
  ASSUME IInv, NEW e \in Execution, exec[e].at = "wait",
         exec' = [exec EXCEPT ![e].at = "ended",
                              ![e].ok = MapThenSumSet(Delivered, batch[e])],
         Unlock,
         UNCHANGED <<active, count, handler, queued, unacked, batch, context, copies,
                     redelivered, repeated, astray, joins, leaves, faults>>
  PROVE  IInv'
<1> DEFINE n == MapThenSumSet(Delivered, batch[e])
           H == {u \in User : copies[e[1]][u] > 0}
<1>1. PageOK(e) /\ BatchOK(e) /\ ReportOK(e) /\ exec[e] \in Progress /\ batch[e] \in SUBSET Batch
  BY DEF IInv, PerExecution, TypeOK
<1>2. ASSUME NEW x \in batch[e]
      PROVE  /\ x.users \in SUBSET User /\ Delivered(x) \in Nat
             /\ Delivered(x) <= Cardinality(x.users \intersect H)
  <2>1. x.users \in SUBSET User /\ x.delivered \in Nat
    BY <1>1, Constants DEF Batch
  <2>2. x.users \intersect H = {u \in x.users : copies[e[1]][u] > 0}
    BY <2>1
  <2>3. Cardinality(x.users \intersect H) \in Nat
    BY UserSets
  <2> HIDE DEF H
  <2> QED
    <3>1. x.at = "done" => x.delivered <= Cardinality(x.users \intersect H)
      BY <1>1, <2>2 DEF BatchOK
    <3> QED
      BY <2>1, <2>3, <3>1, DeliveredIs
<1>3. /\ n \in Nat /\ n <= Cardinality(Reached(batch[e], H))
      /\ Cardinality(Reached(batch[e], H)) <= Cardinality(H)
      /\ Cardinality(Reached(batch[e], H)) \in Nat /\ Cardinality(H) \in 0 .. NumUsers
  <2>1. H \in SUBSET User /\ Reached(batch[e], H) \in SUBSET H
    BY DEF Reached
  <2>2. \A x, y \in batch[e] : x # y => x.users \intersect y.users = {}
    BY <1>1 DEF BatchOK
  <2>3. IsFiniteSet(batch[e])
    BY <1>1 DEF BatchOK
  <2> HIDE DEF H
  <2> QED
    BY <1>2, <2>1, <2>2, <2>3, DeliveredSum, UserSets
<1>4. PICK A \in SUBSET User : /\ \A x \in batch[e] : x.users \subseteq A
                               /\ Cardinality(A) <= exec[e].total + joins - exec[e].base
  BY <1>1 DEF ReportOK
<1>5. Cardinality(Reached(batch[e], H)) <= Cardinality(A) /\ Cardinality(A) \in Nat
  <2>1. Reached(batch[e], H) \in SUBSET A
    BY <1>4 DEF Reached
  <2> QED
    BY <2>1, UserSets
<1> HIDE DEF n, H
<1>6. n \in 0 .. NumUsers /\ n <= Cardinality(H)
  BY <1>3, Constants
<1>7. n <= exec[e].total + (joins - exec[e].base)
  <2>1. exec[e].total \in Nat /\ exec[e].base \in Nat /\ joins \in Nat
    BY <1>1, Constants DEF Progress, IInv, TypeOK
  <2> QED
    BY <1>3, <1>4, <1>5, <2>1
<1>8. exec' = [exec EXCEPT ![e].at = "ended", ![e].ok = n]
  BY DEF n
<1> QED
  BY <1>6, <1>7, <1>8, EndedFacts DEF H

LEMMA SummariseStep ==
  ASSUME IInv, NEW e \in Execution, Summarise(e)
  PROVE  IInv'
<1>1. \/ /\ exec' = [exec EXCEPT ![e].at = "ended",
                                ![e].ok = MapThenSumSet(Delivered, batch[e])]
         /\ Unlock /\ UNCHANGED faults
      \/ exec' = [exec EXCEPT ![e].at = "ended"] /\ Fault /\ (Unlock \/ Abandon)
  BY DEF Summarise
<1>2. /\ exec[e].at = "wait"
      /\ UNCHANGED <<active, count, handler, queued, unacked, batch, context, copies,
                     redelivered, repeated, astray, joins, leaves>>
  BY DEF Summarise
<1> QED
  BY <1>1, <1>2, EndedBare, ReportedStep

LEMMA EndStep ==
  ASSUME IInv, NEW e \in Execution, End(e)
  PROVE  IInv'
<1> USE DEF IInv
<1>1. /\ exec[e].at = "ended"
      /\ exec' = [exec EXCEPT ![e] = [Idle EXCEPT !.at = "over"]]
      /\ batch' = [batch EXCEPT ![e] = batch[e] \ Results(e)]
      /\ context' = [context EXCEPT ![e[1]] = 0]
      /\ unacked' = unacked \/ unacked' = unacked \ {e[1]}
      /\ UNCHANGED <<active, count, lock, handler, queued, history>>
  BY DEF End, TypeOK
<1> USE DEF history
<1>2. \A f \in Execution : f # e => exec'[f] = exec[f] /\ batch'[f] = batch[f]
  BY <1>1 DEF TypeOK
<1>3. /\ exec'[e] = [Idle EXCEPT !.at = "over"] /\ batch'[e] = batch[e] \ Results(e)
      /\ exec'[e].at = "over" /\ exec'[e].todo = {} /\ exec'[e].ok = 0 /\ exec'[e].base = 0
  BY <1>1 DEF TypeOK, Idle
<1>4. TypeOK'
  <2>1. [Idle EXCEPT !.at = "over"] \in Progress
    BY Constants DEF Progress, Idle
  <2>2. exec' \in [Execution -> Progress]
    BY <1>1, <2>1 DEF TypeOK
  <2>3. batch' \in [Execution -> SUBSET Batch] /\ context' \in [Broadcast -> Copy \union {0}]
    BY <1>1 DEF TypeOK
  <2> QED
    BY <1>1, <2>2, <2>3 DEF TypeOK
<1>5. PerExecution(e)'
  <2>1. BatchOK(e)
    BY DEF PerExecution
  <2>2. IsFiniteSet(batch'[e])
    <3>1. IsFiniteSet(batch[e])
      BY <2>1 DEF BatchOK
    <3>2. IsFiniteSet(batch[e] \ Results(e))
      BY <3>1, FS_Difference
    <3> QED
      BY <1>3, <3>2, Zenon
  <2>3. BatchOK(e)'
    BY <1>1, <1>3, <2>1, <2>2 DEF BatchOK
  <2>4. PageOK(e)' /\ SteadyOK(e)'
    BY <1>3 DEF PageOK, SteadyOK
  <2>5. ReportOK(e)'
    BY <1>1, <1>3, Constants DEF ReportOK, TypeOK
  <2> QED
    BY <2>3, <2>4, <2>5 DEF PerExecution
<1>6. \A u \in User : Spent(e, u) => Spent(e, u)'
  BY <1>1, <1>3 DEF Spent
<1>7. CopiesInv' /\ \A f \in Execution : PerExecution(f)'
  BY <1>1, <1>2, <1>5, <1>6, OneExecution
<1>8. LifeInv'
  BY <1>1, <1>2, <1>3 DEF LifeInv, TypeOK, Execution
<1>9. LockInv'
  <2>1. \A b \in unacked : (\A k \in Copy : exec[<<b, k>>].at # "ended") =>
           b \in unacked' /\ (\A k \in Copy : exec'[<<b, k>>].at # "ended")
    BY <1>1, <1>2, <1>3 DEF TypeOK, Execution
  <2> QED
    BY <1>1, <2>1 DEF LockInv
<1>10. ClaimInv'
  <2>1. \A c \in Broadcast, k \in Copy \union {0} : Claims(c, k)' => Claims(c, k)
    BY <1>1, <1>2, <1>3, Constants DEF Claims, HoldsLock, Execution, Copy
  <2> QED
    BY <1>1, <2>1 DEF ClaimInv
<1>11. CountInv'
  BY <1>1 DEF CountInv
<1> QED
  BY <1>4, <1>7, <1>8, <1>9, <1>10, <1>11
-----------------------------------------------------------------------------
LEMMA ReachedGrow ==
  ASSUME TypeOK, TypeOK', NEW b \in Broadcast, NEW S \in SUBSET User, NEW n \in Nat,
         n <= Cardinality({u \in S : copies[b][u] > 0}),
         \A u \in User : copies[b][u] <= copies'[b][u]
  PROVE  n <= Cardinality({u \in S : copies'[b][u] > 0})
<1> DEFINE before == {u \in S : copies[b][u] > 0}
           after == {u \in S : copies'[b][u] > 0}
<1>1. \A u \in S : copies[b][u] \in Nat /\ copies'[b][u] \in Nat
  BY DEF TypeOK
<1>2. before \in SUBSET after /\ after \in SUBSET User
  BY <1>1
<1>3. n <= Cardinality(before)
  OBVIOUS
<1> HIDE DEF before, after
<1>4. /\ Cardinality(before) <= Cardinality(after)
      /\ Cardinality(before) \in Nat /\ Cardinality(after) \in Nat
  BY <1>2, UserSets
<1>5. n <= Cardinality(after)
  BY <1>3, <1>4
<1> QED
  BY <1>5 DEF after

\* An execution keeps its part when copies grow and nothing else of it changes.
LEMMA FrameGrow ==
  ASSUME TypeOK, TypeOK', NEW e \in Execution, PerExecution(e),
         exec'[e] = exec[e], batch'[e] = batch[e], active' = active, joins' = joins,
         \A b \in Broadcast, u \in User : copies[b][u] <= copies'[b][u]
  PROVE  PerExecution(e)'
<1>1. e[1] \in Broadcast
  BY DEF Execution
<1>3. PageOK(e)' /\ SteadyOK(e)'
  BY DEF PerExecution, PageOK, SteadyOK
<1>4. BatchOK(e)'
  <2>1. \A x \in batch[e] : x.users \in SUBSET User /\ x.delivered \in Nat
    BY Constants DEF TypeOK, Batch
  <2>2. BatchOK(e)
    BY DEF PerExecution
  <2>3. ASSUME NEW x \in batch[e], x.at = "done"
        PROVE  x.delivered <= Cardinality({u \in x.users : copies'[e[1]][u] > 0})
    <3>1. x.delivered <= Cardinality({u \in x.users : copies[e[1]][u] > 0})
      BY <2>2, <2>3 DEF BatchOK
    <3> QED
      BY <1>1, <2>1, <3>1, ReachedGrow
  <2> QED
    BY <2>2, <2>3 DEF BatchOK
<1>5. ReportOK(e)'
  <2>1. ReportOK(e)
    BY DEF PerExecution
  <2>2. exec[e].ok \in Nat
    BY Constants DEF TypeOK, Progress
  <2>3. ASSUME exec[e].at = "ended"
        PROVE  exec[e].ok <= Cardinality({u \in User : copies'[e[1]][u] > 0})
    <3>1. exec[e].ok <= Cardinality({u \in User : copies[e[1]][u] > 0})
      BY <2>1, <2>3 DEF ReportOK
    <3> QED
      BY <1>1, <2>2, <3>1, ReachedGrow
  <2> QED
    BY <2>1, <2>3 DEF ReportOK
<1> QED
  BY <1>3, <1>4, <1>5 DEF PerExecution

LEMMA SetBatchFacts ==
  ASSUME IInv, TypeOK', NEW e \in Execution, NEW x \in batch[e], NEW y \in Batch,
         y.users = x.users,
         y.at = "done" => y.delivered <= Cardinality({u \in y.users : copies'[e[1]][u] > 0}),
         UNCHANGED <<exec, active, joins>>,
         \A b \in Broadcast, u \in User : copies[b][u] <= copies'[b][u],
         \A f \in Execution : f # e => batch'[f] = batch[f],
         \/ batch'[e] = (batch[e] \ {x}) \union {y}
         \/ exec[e].at = "over" /\ batch'[e] = batch[e] \ {x}
  PROVE  \A f \in Execution : PerExecution(f)'
<1>1. ASSUME NEW f \in Execution, f # e PROVE PerExecution(f)'
  BY <1>1, FrameGrow DEF IInv
<1>2. PageOK(e) /\ BatchOK(e) /\ SteadyOK(e) /\ ReportOK(e) /\ e[1] \in Broadcast
  BY DEF IInv, PerExecution, Execution
<1>3. PageOK(e)'
  BY <1>2 DEF PageOK
<1>4. SteadyOK(e)'
  BY <1>2 DEF SteadyOK
<1>5. BatchOK(e)'
  <2>1. IsFiniteSet(batch'[e])
    <3>1. IsFiniteSet(batch[e])
      BY <1>2 DEF BatchOK
    <3>2. IsFiniteSet(batch[e] \ {x})
      BY <3>1, FS_RemoveElement
    <3>3. IsFiniteSet((batch[e] \ {x}) \union {y})
      BY <3>2, FS_AddElement
    <3> QED
      BY <3>2, <3>3
  <2>2. ASSUME NEW z \in batch[e], z.at = "done"
        PROVE  z.delivered <= Cardinality({u \in z.users : copies'[e[1]][u] > 0})
    <3>1. z.users \in SUBSET User /\ z.delivered \in Nat
      BY Constants DEF IInv, TypeOK, Batch
    <3>2. z.delivered <= Cardinality({u \in z.users : copies[e[1]][u] > 0})
      BY <1>2, <2>2 DEF BatchOK
    <3> QED
      BY <1>2, <3>1, <3>2, ReachedGrow DEF IInv
  <2>3. \A z \in batch'[e] : z \in batch[e] \/ z = y
    OBVIOUS
  <2>4. \A z, w \in batch'[e] : z # w => z.users \intersect w.users = {}
    BY <1>2 DEF BatchOK
  <2>5. \A z \in batch'[e] : z.users \intersect exec[e].todo = {} /\ Cardinality(z.users) <= ChunkSize
    BY <1>2, <2>3 DEF BatchOK
  <2>6. \A z \in batch'[e] : z.at = "done" =>
           z.delivered <= Cardinality({u \in z.users : copies'[e[1]][u] > 0})
    BY <2>2, <2>3
  <2> QED
    BY <2>1, <2>4, <2>5, <2>6 DEF BatchOK
<1>6. ReportOK(e)'
  <2>1. exec[e].at \in {"page", "wait"} => \E A \in SUBSET User :
          /\ active \subseteq A /\ exec[e].todo \subseteq A /\ \A z \in batch'[e] : z.users \subseteq A
          /\ Cardinality(A) <= exec[e].total + joins - exec[e].base
    BY <1>2 DEF ReportOK
  <2>2. exec[e].at = "ended" => exec[e].ok <= Cardinality({u \in User : copies'[e[1]][u] > 0})
    <3>1. exec[e].ok \in Nat /\ User \in SUBSET User
      BY Constants DEF IInv, TypeOK, Progress
    <3>2. ASSUME exec[e].at = "ended" PROVE exec[e].ok <= Cardinality({u \in User : copies[e[1]][u] > 0})
      BY <1>2, <3>2 DEF ReportOK
    <3> QED
      BY <1>2, <3>1, <3>2, ReachedGrow DEF IInv
  <2> QED
    BY <1>2, <2>1, <2>2 DEF ReportOK
<1> QED
  BY <1>1, <1>3, <1>4, <1>5, <1>6 DEF PerExecution

\* The lock and what hangs on it are as before.
LEMMA SameLock ==
  ASSUME TypeOK, LifeInv, LockInv, ClaimInv,
         UNCHANGED <<lock, handler, queued, unacked, exec, redelivered, astray, leaked>>
  PROVE  LifeInv' /\ LockInv' /\ ClaimInv'
<1>1. LifeInv'
  BY DEF LifeInv
<1>2. LockInv'
  BY DEF LockInv
<1>3. ClaimInv'
  BY DEF ClaimInv, Claims, HoldsLock
<1> QED
  BY <1>1, <1>2, <1>3

LEMMA StartBatchStep ==
  ASSUME IInv, NEW e \in Execution, NEW x \in batch[e], StartBatch(e, x)
  PROVE  IInv'
<1> DEFINE y == [x EXCEPT !.at = "running"]
<1> USE DEF IInv
<1>1. /\ x.at = "queued" /\ batch' = [batch EXCEPT ![e] = (batch[e] \ {x}) \union {y}]
      /\ UNCHANGED <<active, count, lock, handler, queued, unacked, exec, context, history>>
  BY DEF StartBatch, SetBatch, TypeOK
<1> USE DEF history
<1>2. x \in Batch /\ y \in Batch /\ y.users = x.users /\ y.at = "running"
  <2>1. x \in Batch
    BY DEF TypeOK
  <2> QED
    BY <2>1 DEF Batch
<1> HIDE DEF y
<1>3. /\ \A f \in Execution : f # e => batch'[f] = batch[f]
      /\ batch'[e] = (batch[e] \ {x}) \union {y}
  BY <1>1 DEF TypeOK
<1>4. TypeOK'
  BY <1>1, <1>2 DEF TypeOK
<1>5. \A f \in Execution : PerExecution(f)'
  <2>1. \A b \in Broadcast, u \in User : copies[b][u] <= copies'[b][u]
    BY <1>1 DEF TypeOK
  <2> QED
    BY <1>1, <1>2, <1>3, <1>4, <2>1, SetBatchFacts
<1>6. \A f \in Execution, u \in User : Spent(f, u) => Spent(f, u)'
  BY <1>1, <1>2, <1>3 DEF Spent
<1>7. CopiesInv'
  BY <1>1, <1>6, CopiesFrame
<1>8. LifeInv' /\ LockInv' /\ ClaimInv'
  BY <1>1, SameLock
<1>9. CountInv'
  BY <1>1 DEF CountInv
<1> QED
  BY <1>4, <1>5, <1>7, <1>8, <1>9

LEMMA ExecuteBatchStep ==
  ASSUME IInv, NEW e \in Execution, NEW x \in batch[e], ExecuteBatch(e, x)
  PROVE  IInv'
<1> USE DEF IInv
<1>1. PICK sent \in SUBSET x.users, n \in Nat :
        /\ x.at = "running"
        /\ n = 0 \/ n = Cardinality(sent)
        /\ SendTo(e[1], sent) /\ Return(e, x, n)
        /\ Fault \/ faults' = faults
        /\ UNCHANGED <<active, count, lock, handler, queued, unacked, exec, context,
                       redelivered, repeated, astray, leaked, joins, leaves>>
  <2>1. x \in Batch
    BY DEF TypeOK
  <2>2. \A sent \in SUBSET x.users : Cardinality(sent) \in Nat
    BY <2>1, UserSets DEF Batch
  <2> QED
    BY <2>2 DEF ExecuteBatch
<1> DEFINE y == [x EXCEPT !.at = "done", !.delivered = n]
<1>2. x \in Batch /\ e[1] \in Broadcast /\ BatchOK(e) /\ PageOK(e) /\ sent \in SUBSET User
  BY DEF TypeOK, Execution, PerExecution, Batch
<1>3. n \in 0 .. ChunkSize
  <2>1. x.users \in SUBSET User
    BY <1>2 DEF Batch
  <2>2. Cardinality(sent) \in Nat /\ Cardinality(sent) <= Cardinality(x.users) /\ Cardinality(x.users) \in Nat
    BY <2>1, UserSets
  <2>3. Cardinality(x.users) <= ChunkSize
    BY <1>2 DEF BatchOK
  <2> QED
    BY <1>1, <2>2, <2>3, Constants
<1>4. y \in Batch /\ y.users = x.users /\ y.at = "done" /\ y.delivered = n
  BY <1>2, <1>3 DEF Batch
<1>5. \A b \in Broadcast, u \in User :
        /\ copies[b][u] \in Nat
        /\ copies'[b][u] = IF b = e[1] /\ u \in sent THEN copies[b][u] + 1 ELSE copies[b][u]
  BY <1>1, <1>2 DEF SendTo, TypeOK
<1>6. /\ \A f \in Execution : f # e => batch'[f] = batch[f]
      /\ \/ exec[e].at # "over" /\ batch' = [batch EXCEPT ![e] = (batch[e] \ {x}) \union {y}]
            /\ batch'[e] = (batch[e] \ {x}) \union {y}
         \/ exec[e].at = "over" /\ batch' = [batch EXCEPT ![e] = batch[e] \ {x}]
            /\ batch'[e] = batch[e] \ {x}
  BY <1>1 DEF Return, SetBatch, TypeOK
<1> HIDE DEF y
<1>7. faults' \in 0 .. MaxEvents /\ joins + leaves + faults' <= MaxEvents
  BY <1>1, FaultFacts
<1>8. TypeOK'
  <2>1. batch' \in [Execution -> SUBSET Batch]
    BY <1>4, <1>6 DEF TypeOK
  <2>2. copies' \in [Broadcast -> [User -> Nat]]
    BY <1>1, <1>2 DEF SendTo, TypeOK
  <2> QED
    BY <1>1, <1>7, <2>1, <2>2 DEF TypeOK
<1>9. n <= Cardinality({u \in y.users : copies'[e[1]][u] > 0})
  <2> DEFINE after == {u \in y.users : copies'[e[1]][u] > 0}
  <2>1. \A u \in sent : copies'[e[1]][u] > 0
    BY <1>2, <1>5
  <2>2. sent \in SUBSET after /\ after \in SUBSET User
    BY <1>2, <1>4, <2>1 DEF Batch
  <2> HIDE DEF after
  <2>3. Cardinality(sent) <= Cardinality(after) /\ Cardinality(after) \in Nat /\ Cardinality(sent) \in Nat
    BY <2>2, UserSets
  <2>4. n <= Cardinality(after)
    BY <1>1, <2>3
  <2> QED
    BY <2>4 DEF after
<1>10. \A f \in Execution : PerExecution(f)'
  <2>1. \A b \in Broadcast, u \in User : copies[b][u] <= copies'[b][u]
    BY <1>5
  <2>2. y.at = "done" => y.delivered <= Cardinality({u \in y.users : copies'[e[1]][u] > 0})
    BY <1>4, <1>9
  <2> QED
    BY <1>1, <1>4, <1>6, <1>8, <2>1, <2>2, SetBatchFacts
<1>11. \A f \in Execution, u \in User : Spent(f, u) => Spent(f, u)'
  BY <1>1, <1>4, <1>6 DEF Spent
<1>12. \A u \in sent : ~ Spent(e, u) /\ Spent(e, u)'
  <2> SUFFICES ASSUME NEW u \in sent PROVE ~ Spent(e, u) /\ Spent(e, u)'
    OBVIOUS
  <2>1. ~ Spent(e, u)
    BY <1>1 DEF Spent
  <2>2. exec[e].at \notin {"none", "count"} /\ u \notin exec[e].todo
    BY <1>2 DEF PageOK, BatchOK
  <2>3. exec[e].at = "page" => u <= exec[e].cursor
    BY <1>2, Constants DEF PageOK, TypeOK, Progress
  <2>4. \A z \in batch'[e] : u \in z.users => z.at = "done"
    BY <1>2, <1>4, <1>6 DEF BatchOK
  <2> QED
    BY <1>1, <2>1, <2>2, <2>3, <2>4 DEF Spent
<1>13. CopiesInv'
  <2> SUFFICES ASSUME NEW b \in Broadcast, NEW u \in User
               PROVE  copies'[b][u] <= Cardinality({k \in Copy : Spent(<<b, k>>, u)'}) + repeated[b]
    BY <1>1 DEF CopiesInv
  <2> DEFINE S == {k \in Copy : Spent(<<b, k>>, u)}
             T == {k \in Copy : Spent(<<b, k>>, u)'}
  <2>1. S \in SUBSET T /\ T \in SUBSET Copy
    BY <1>11 DEF Execution
  <2>2. copies[b][u] <= Cardinality(S) + repeated[b]
    BY DEF CopiesInv
  <2>3. copies[b][u] \in Nat /\ repeated[b] \in Nat
    BY DEF TypeOK
  <2>4. ASSUME b = e[1], u \in sent PROVE e[2] \in T \ S /\ e = <<e[1], e[2]>>
    BY <1>12, <2>4 DEF Execution
  <2> HIDE DEF S, T
  <2>5. IsFiniteSet(S) /\ Cardinality(T) \in Nat /\ Cardinality(S) \in Nat /\ Cardinality(S) <= Cardinality(T)
    BY <2>1, CopySets
  <2>6. CASE b = e[1] /\ u \in sent
    <3>1. S \union {e[2]} \in SUBSET T /\ e[2] \notin S
      BY <2>1, <2>4, <2>6
    <3>2. Cardinality(S \union {e[2]}) = Cardinality(S) + 1
      BY <2>5, <3>1, FS_AddElement
    <3>3. Cardinality(S \union {e[2]}) <= Cardinality(T)
      BY <2>1, <3>1, CopySets
    <3>4. copies'[b][u] = copies[b][u] + 1
      BY <1>5, <2>6
    <3> QED
      BY <2>2, <2>3, <2>5, <3>2, <3>3, <3>4 DEF T
  <2>7. CASE ~ (b = e[1] /\ u \in sent)
    <3>1. copies'[b][u] = copies[b][u]
      BY <1>5, <2>7
    <3> QED
      BY <2>2, <2>3, <2>5, <3>1 DEF T
  <2> QED
    BY <2>6, <2>7
<1>14. LifeInv' /\ LockInv' /\ ClaimInv'
  BY <1>1, SameLock
<1>15. CountInv'
  BY <1>1, <1>7 DEF CountInv
<1> QED
  BY <1>8, <1>10, <1>13, <1>14, <1>15

LEMMA RepeatBatchStep ==
  ASSUME IInv, NEW e \in Execution, NEW x \in batch[e], RepeatBatch(e, x)
  PROVE  IInv'
<1> USE DEF IInv
<1>1. x \in Batch /\ e[1] \in Broadcast /\ BatchOK(e)
  BY DEF TypeOK, Execution, PerExecution
<1>2. \A sent \in SUBSET x.users : Cardinality(sent) \in Nat
  BY <1>1, UserSets DEF Batch
<1>3. PICK sent \in SUBSET x.users, n \in Nat :
        /\ SendTo(e[1], sent)
        /\ n = 0 \/ n = Cardinality(sent)
        /\ UNCHANGED batch \/ (x.at = "done" /\ Return(e, x, n))
  BY <1>2 DEF RepeatBatch
<1>4. /\ Fault
      /\ repeated' = [repeated EXCEPT ![e[1]] = @ + 1]
      /\ UNCHANGED <<active, count, lock, handler, queued, unacked, exec, context,
                     redelivered, astray, leaked, joins, leaves>>
  BY DEF RepeatBatch
<1> DEFINE y == [x EXCEPT !.at = "done", !.delivered = n]
<1>5. sent \in SUBSET User /\ n \in 0 .. ChunkSize
  <2>1. x.users \in SUBSET User
    BY <1>1 DEF Batch
  <2>2. /\ Cardinality(sent) \in Nat /\ Cardinality(x.users) \in Nat
        /\ Cardinality(sent) <= Cardinality(x.users)
    BY <2>1, UserSets
  <2>3. Cardinality(x.users) <= ChunkSize
    BY <1>1 DEF BatchOK
  <2> QED
    BY <1>3, <2>1, <2>2, <2>3, Constants
<1>6. y \in Batch /\ y.users = x.users /\ y.at = "done" /\ y.delivered = n
  BY <1>1, <1>5 DEF Batch
<1>7. \A b \in Broadcast, u \in User :
        /\ copies[b][u] \in Nat
        /\ copies'[b][u] = IF b = e[1] /\ u \in sent THEN copies[b][u] + 1 ELSE copies[b][u]
  <2>1. copies' = [copies EXCEPT ![e[1]] =
          [u \in User |-> IF u \in sent THEN copies[e[1]][u] + 1 ELSE copies[e[1]][u]]]
    BY <1>3 DEF SendTo
  <2> QED
    BY <1>1, <1>5, <2>1 DEF TypeOK
<1>8. /\ \A f \in Execution : f # e => batch'[f] = batch[f]
      /\ \/ UNCHANGED batch
         \/ x.at = "done" /\ batch'[e] = (batch[e] \ {x}) \union {y}
         \/ exec[e].at = "over" /\ batch'[e] = batch[e] \ {x}
      /\ \/ UNCHANGED batch
         \/ batch' = [batch EXCEPT ![e] = (batch[e] \ {x}) \union {y}]
         \/ batch' = [batch EXCEPT ![e] = batch[e] \ {x}]
  BY <1>3 DEF Return, SetBatch, TypeOK
<1> HIDE DEF y
<1>9. faults' \in 0 .. MaxEvents /\ joins + leaves + faults' <= MaxEvents
  BY <1>4, FaultFacts
<1>10. TypeOK'
  <2>1. batch' \in [Execution -> SUBSET Batch]
    BY <1>6, <1>8 DEF TypeOK
  <2>2. copies' \in [Broadcast -> [User -> Nat]]
    <3>1. copies' = [copies EXCEPT ![e[1]] =
            [u \in User |-> IF u \in sent THEN copies[e[1]][u] + 1 ELSE copies[e[1]][u]]]
      BY <1>3 DEF SendTo
    <3>2. [u \in User |-> IF u \in sent THEN copies[e[1]][u] + 1 ELSE copies[e[1]][u]]
             \in [User -> Nat]
      BY <1>1 DEF TypeOK
    <3> QED
      BY <1>1, <3>1, <3>2 DEF TypeOK
  <2>3. repeated' \in [Broadcast -> Nat]
    BY <1>1, <1>4 DEF TypeOK
  <2> QED
    BY <1>4, <1>9, <2>1, <2>2, <2>3 DEF TypeOK
<1>11. n <= Cardinality({u \in y.users : copies'[e[1]][u] > 0})
  <2> DEFINE after == {u \in y.users : copies'[e[1]][u] > 0}
  <2>1. \A u \in sent : copies'[e[1]][u] > 0
    BY <1>1, <1>5, <1>7
  <2>2. sent \in SUBSET after /\ after \in SUBSET User
    BY <1>1, <1>5, <1>6, <2>1 DEF Batch
  <2> HIDE DEF after
  <2>3. Cardinality(sent) <= Cardinality(after) /\ Cardinality(after) \in Nat /\ Cardinality(sent) \in Nat
    BY <2>2, UserSets
  <2>4. n <= Cardinality(after)
    BY <1>3, <2>3
  <2> QED
    BY <2>4 DEF after
<1>12. \A f \in Execution : PerExecution(f)'
  <2>1. \A b \in Broadcast, u \in User : copies[b][u] <= copies'[b][u]
    BY <1>7
  <2>2. y.at = "done" => y.delivered <= Cardinality({u \in y.users : copies'[e[1]][u] > 0})
    BY <1>6, <1>11
  <2>3. CASE UNCHANGED batch
    BY <1>4, <1>10, <2>1, <2>3, FrameGrow
  <2>4. CASE \/ batch'[e] = (batch[e] \ {x}) \union {y}
             \/ exec[e].at = "over" /\ batch'[e] = batch[e] \ {x}
    BY <1>4, <1>6, <1>8, <1>10, <2>1, <2>2, <2>4, SetBatchFacts
  <2> QED
    BY <1>8, <2>3, <2>4
<1>13. \A f \in Execution, u \in User : Spent(f, u) => Spent(f, u)'
  BY <1>4, <1>6, <1>8 DEF Spent
<1>14. CopiesInv'
  <2> SUFFICES ASSUME NEW b \in Broadcast, NEW u \in User
               PROVE  copies'[b][u] <= Cardinality({k \in Copy : Spent(<<b, k>>, u)'}) + repeated'[b]
    BY DEF CopiesInv
  <2> DEFINE S == {k \in Copy : Spent(<<b, k>>, u)}
             T == {k \in Copy : Spent(<<b, k>>, u)'}
  <2>1. S \in SUBSET T /\ T \in SUBSET Copy
    BY <1>13 DEF Execution
  <2>2. copies[b][u] <= Cardinality(S) + repeated[b]
    BY DEF CopiesInv
  <2>3. copies[b][u] \in Nat /\ repeated[b] \in Nat
    BY DEF TypeOK
  <2>4. repeated'[b] = IF b = e[1] THEN repeated[b] + 1 ELSE repeated[b]
    BY <1>1, <1>4 DEF TypeOK
  <2>5. copies'[b][u] <= IF b = e[1] THEN copies[b][u] + 1 ELSE copies[b][u]
    BY <1>7, <2>3
  <2> HIDE DEF S, T
  <2>6. Cardinality(T) \in Nat /\ Cardinality(S) \in Nat /\ Cardinality(S) <= Cardinality(T)
    BY <2>1, CopySets
  <2>7. copies'[b][u] \in Nat
    BY <1>10 DEF TypeOK
  <2> QED
    BY <2>2, <2>3, <2>4, <2>5, <2>6, <2>7 DEF T
<1>15. LifeInv' /\ LockInv' /\ ClaimInv'
  BY <1>4, SameLock
<1>16. CountInv'
  BY <1>4, <1>9 DEF CountInv
<1> QED
  BY <1>10, <1>12, <1>14, <1>15, <1>16

-----------------------------------------------------------------------------
LEMMA BeginFacts ==
  ASSUME IInv, NEW b \in Broadcast, NEW k \in Copy, Begin(b, k), exec[<<b, k>>].at = "none",
         UNCHANGED <<active, count, batch, copies, repeated, joins, leaves>>
  PROVE  /\ exec' \in [Execution -> Progress] /\ context' \in [Broadcast -> Copy \union {0}]
         /\ faults' \in 0 .. MaxEvents /\ leaked' \in {leaked, lock}
         /\ CopiesInv' /\ CountInv' /\ \A e \in Execution : PerExecution(e)'
         /\ \A e \in Execution : e # <<b, k>> => exec'[e] = exec[e]
         /\ \/ exec'[<<b, k>>].at \in {"count", "over"} /\ leaked' = leaked
            \/ exec'[<<b, k>>].at = "ended" /\ leaked' = lock
<1> DEFINE e == <<b, k>>
<1>0. e \in Execution
  BY DEF Execution
<1>1. PICK at \in {"count", "ended", "over"} :
        /\ exec' = [exec EXCEPT ![e].at = at]
        /\ at \in {"count", "over"} => leaked' = leaked
        /\ at = "ended" => leaked' = lock
  BY DEF Begin
<1>2. Fault \/ faults' = faults
  BY DEF Begin
<1>3. faults' \in 0 .. MaxEvents /\ joins + leaves + faults' <= MaxEvents
  BY <1>2, FaultFacts DEF IInv
<1>4. context' \in [Broadcast -> Copy \union {0}]
  BY DEF Begin, IInv, TypeOK
<1>5. exec[e] = Idle /\ batch[e] = {}
  BY <1>0 DEF IInv, PerExecution, PageOK
<1> HIDE DEF e
<1>6. /\ exec'[e].at = at /\ exec'[e].todo = {} /\ exec'[e].cursor = 0 /\ exec'[e].ok = 0
      /\ exec'[e].total = 0 /\ exec'[e].base = 0
      /\ \A f \in Execution : f # e => exec'[f] = exec[f]
  BY <1>0, <1>1, <1>5 DEF IInv, TypeOK, Idle
<1>7. exec' \in [Execution -> Progress]
  <2>1. exec' = [exec EXCEPT ![e] = [Idle EXCEPT !.at = at]]
    BY <1>1, <1>5
  <2>2. [Idle EXCEPT !.at = at] \in Progress
    BY Constants DEF Idle, Progress
  <2> QED
    BY <2>1, <2>2 DEF IInv, TypeOK
<1>8. PerExecution(e)'
  <2>1. PageOK(e)' /\ SteadyOK(e)'
    BY <1>5, <1>6 DEF PageOK, SteadyOK
  <2>2. BatchOK(e)'
    BY <1>5, FS_EmptySet DEF BatchOK
  <2>3. ReportOK(e)'
    <3>1. Cardinality({u \in User : copies[e[1]][u] > 0}) >= 0
      BY UserSets
    <3>2. joins >= 0 /\ joins \in Int
      BY Constants DEF IInv, TypeOK
    <3> QED
      BY <1>1, <1>6, <3>1, <3>2 DEF ReportOK
  <2> QED
    BY <2>1, <2>2, <2>3 DEF PerExecution
<1>9. \A u \in User : Spent(e, u) => Spent(e, u)'
  BY <1>5 DEF Spent, Idle
<1>10. CopiesInv' /\ \A f \in Execution : PerExecution(f)'
  BY <1>0, <1>6, <1>8, <1>9, OneExecution
<1>11. CountInv'
  BY <1>3 DEF IInv, CountInv
<1> QED
  BY <1>1, <1>3, <1>4, <1>6, <1>7, <1>10, <1>11 DEF e

LEMMA DeliverStep ==
  ASSUME IInv, NEW b \in Broadcast, Deliver(b)
  PROVE  IInv'
<1> USE DEF IInv
<1>1. /\ b \in queued /\ queued' = queued \ {b} /\ unacked' = unacked \union {b}
      /\ Begin(b, 1) /\ 1 \in Copy
      /\ UNCHANGED <<active, count, lock, handler, batch, copies, redelivered, repeated,
                     astray, joins, leaves>>
  BY Constants DEF Deliver
<1>2. exec[<<b, 1>>].at = "none" /\ handler[b] = "over" /\ \A k \in Copy : exec[<<b, k>>].at = "none"
  BY <1>1 DEF LifeInv, TypeOK
<1>3. /\ exec' \in [Execution -> Progress] /\ context' \in [Broadcast -> Copy \union {0}]
      /\ faults' \in 0 .. MaxEvents /\ leaked' \in {leaked, lock}
      /\ CopiesInv' /\ CountInv' /\ \A e \in Execution : PerExecution(e)'
      /\ \A e \in Execution : e # <<b, 1>> => exec'[e] = exec[e]
      /\ \/ exec'[<<b, 1>>].at \in {"count", "over"} /\ leaked' = leaked
         \/ exec'[<<b, 1>>].at = "ended" /\ leaked' = lock
  BY <1>1, <1>2, BeginFacts
<1>4. TypeOK'
  BY <1>1, <1>3 DEF TypeOK
<1>5. LifeInv'
  <2>1. \A c \in Broadcast : redelivered[c] \in Nat
    BY Constants DEF TypeOK
  <2>2. \A e \in Execution : exec'[e].at # "none" => e[2] <= redelivered[e[1]] + 1
    BY <1>3, <2>1 DEF LifeInv
  <2>3. \A c \in Broadcast : handler'[c] # "over" \/ c \in queued' =>
          c \notin unacked' /\ \A j \in Copy : exec'[<<c, j>>].at = "none"
    BY <1>1, <1>2, <1>3 DEF LifeInv, Execution
  <2>4. \A c \in queued' : handler'[c] = "over"
    BY <1>1 DEF LifeInv
  <2> QED
    BY <1>1, <2>2, <2>3, <2>4 DEF LifeInv
<1>6. LockInv'
  <2>1. CASE leaked' = lock
    BY <1>1, <2>1 DEF LockInv
  <2>2. CASE exec'[<<b, 1>>].at \in {"count", "over"} /\ leaked' = leaked
    <3>1. b \in unacked' /\ \A k \in Copy : exec'[<<b, k>>].at # "ended"
      BY <1>1, <1>2, <1>3, <2>2 DEF Execution
    <3> QED
      BY <3>1 DEF LockInv
  <2> QED
    BY <1>3, <2>1, <2>2
<1>7. ClaimInv'
  <2> SUFFICES ASSUME ~ astray PROVE ClaimInv'
    BY <1>1 DEF ClaimInv
  <2>1. Claims(b, 0) /\ lock
    BY <1>1 DEF Claims, ClaimInv
  <2>2. \A c \in Broadcast, k \in Copy \union {0} : Claims(c, k) => c = b /\ k = 0
    BY <2>1 DEF ClaimInv
  <2>3. \A c \in Broadcast, k \in Copy \union {0} : Claims(c, k)' => Claims(c, k) \/ (c = b /\ k = 1)
    BY <1>1, <1>3, Constants DEF Claims, HoldsLock, Execution, Copy
  <2>4. ~ Claims(b, 0)'
    BY <1>1, <1>2 DEF Claims
  <2> QED
    BY <1>1, <2>1, <2>2, <2>3, <2>4 DEF ClaimInv
<1> QED
  BY <1>3, <1>4, <1>5, <1>6, <1>7

LEMMA RedeliverStep ==
  ASSUME IInv, NEW b \in Broadcast, Redeliver(b)
  PROVE  IInv'
<1> DEFINE k == redelivered[b] + 2
<1> USE DEF IInv
<1>1. /\ b \in unacked /\ redelivered[b] < MaxRedelivery
      /\ redelivered' = [redelivered EXCEPT ![b] = redelivered[b] + 1]
      /\ Begin(b, k)
      /\ astray' = (astray \/ ~ lock \/ \E c \in Broadcast : Underway(c))
      /\ UNCHANGED <<active, count, lock, handler, queued, unacked, batch, copies, repeated,
                     joins, leaves>>
  BY DEF Redeliver, TypeOK
<1>2. redelivered[b] \in Nat /\ k \in Copy /\ <<b, k>> \in Execution
  BY <1>1, Constants DEF TypeOK, Copy, Execution
<1>3. exec[<<b, k>>].at = "none"
  BY <1>2 DEF LifeInv
<1> HIDE DEF k
<1>4. /\ exec' \in [Execution -> Progress] /\ context' \in [Broadcast -> Copy \union {0}]
      /\ faults' \in 0 .. MaxEvents /\ leaked' \in {leaked, lock}
      /\ CopiesInv' /\ CountInv' /\ \A e \in Execution : PerExecution(e)'
      /\ \A e \in Execution : e # <<b, k>> => exec'[e] = exec[e]
      /\ \/ exec'[<<b, k>>].at \in {"count", "over"} /\ leaked' = leaked
         \/ exec'[<<b, k>>].at = "ended" /\ leaked' = lock
  BY <1>1, <1>2, <1>3, BeginFacts
<1>5. TypeOK'
  <2>1. redelivered' \in [Broadcast -> 0 .. MaxRedelivery]
    BY <1>1, <1>2, Constants DEF TypeOK
  <2>2. astray' \in BOOLEAN /\ leaked' \in BOOLEAN
    BY <1>1, <1>4 DEF TypeOK
  <2> QED
    BY <1>1, <1>4, <2>1, <2>2 DEF TypeOK
<1>6. LifeInv'
  <2>1. handler[b] = "over" /\ b \notin queued
    BY <1>1 DEF LifeInv
  <2>2. \A c \in Broadcast : redelivered[c] \in Nat /\ redelivered'[c] \in Nat /\ redelivered[c] <= redelivered'[c]
    BY <1>1, <1>2, Constants DEF TypeOK
  <2>3. k <= redelivered'[b] + 1
    BY <1>1, <1>2 DEF TypeOK, k
  <2>4. \A e \in Execution : exec'[e].at # "none" => e[2] <= redelivered'[e[1]] + 1
    <3> SUFFICES ASSUME NEW e \in Execution, exec'[e].at # "none" PROVE e[2] <= redelivered'[e[1]] + 1
      OBVIOUS
    <3>1. e[2] \in Nat /\ e[1] \in Broadcast
      BY Constants DEF Execution
    <3>2. CASE e = <<b, k>>
      BY <2>3, <3>2
    <3>3. CASE e # <<b, k>>
      <4>1. e[2] <= redelivered[e[1]] + 1
        BY <1>4, <3>3 DEF LifeInv
      <4> QED
        BY <2>2, <3>1, <4>1
    <3> QED
      BY <3>2, <3>3
  <2>5. \A c \in Broadcast : handler'[c] # "over" \/ c \in queued' =>
          c \notin unacked' /\ \A j \in Copy : exec'[<<c, j>>].at = "none"
    BY <1>1, <1>4, <2>1 DEF LifeInv, Execution
  <2> QED
    BY <1>1, <2>4, <2>5 DEF LifeInv
<1>7. LockInv'
  <2>1. CASE leaked' = lock
    BY <1>1, <2>1 DEF LockInv
  <2>2. CASE exec'[<<b, k>>].at \in {"count", "over"} /\ leaked' = leaked
    BY <1>1, <1>4, <2>2 DEF LockInv, Execution, TypeOK
  <2> QED
    BY <1>4, <2>1, <2>2
<1>8. ClaimInv'
  <2> SUFFICES ASSUME ~ astray' PROVE ClaimInv'
    BY DEF ClaimInv
  <2>1. lock /\ \A c \in Broadcast : ~ Underway(c)
    BY <1>1
  <2>2. \A c \in Broadcast, j \in Copy \union {0} : ~ Claims(c, j)
    BY <2>1 DEF Claims, Underway
  <2>3. \A c \in Broadcast, j \in Copy \union {0} : Claims(c, j)' => Claims(c, j) \/ (c = b /\ j = k)
    BY <1>1, <1>4, Constants DEF Claims, HoldsLock, Execution, Copy
  <2> QED
    BY <1>1, <2>1, <2>2, <2>3 DEF ClaimInv
<1> QED
  BY <1>4, <1>5, <1>6, <1>7, <1>8

-----------------------------------------------------------------------------
\* A batch after the worker died.
Requeue(x) == IF x.at = "running" THEN [x EXCEPT !.at = "queued"] ELSE x

LEMMA RequeueFinite ==
  ASSUME NEW B, IsFiniteSet(B)
  PROVE  IsFiniteSet({Requeue(x) : x \in B})
<1> DEFINE S == {Requeue(x) : x \in B}
           f == [x \in B |-> Requeue(x)]
<1>1. f \in Surjection(B, S)
  BY Zenon DEF Surjection
<1> QED
  BY <1>1, FS_Surjection

LEMMA WorkerCrashStep ==
  ASSUME IInv, WorkerCrash
  PROVE  IInv'
<1> USE DEF IInv
<1> DEFINE Kept(e) == IF Runs(e) THEN batch[e] \ Results(e) ELSE batch[e]
<1>1. /\ Fault
      /\ exec' = [e \in Execution |-> IF Runs(e) THEN [Idle EXCEPT !.at = "over"] ELSE exec[e]]
      /\ batch' = [e \in Execution |-> {Requeue(x) : x \in Kept(e)}]
      /\ context' = [b \in Broadcast |-> 0]
      /\ copies' = [b \in Broadcast |-> [u \in User |->
            copies[b][u] + Cardinality({k \in Copy : u \in Cut(<<b, k>>)})]]
      /\ repeated' = [b \in Broadcast |->
            repeated[b] + Cardinality({k \in Copy : Cut(<<b, k>>) # {}})]
      /\ UNCHANGED <<active, count, lock, handler, queued, unacked, redelivered,
                     astray, leaked, joins, leaves>>
  BY DEF WorkerCrash, Requeue
<1>2. faults' \in 0 .. MaxEvents /\ joins + leaves + faults' <= MaxEvents
  BY <1>1, FaultFacts
<1>3. ASSUME NEW e \in Execution
      PROVE  /\ exec'[e] = IF Runs(e) THEN [Idle EXCEPT !.at = "over"] ELSE exec[e]
             /\ exec'[e].at \in {"none", "over"} /\ exec'[e].ok = 0 /\ exec'[e].base <= joins
             /\ exec'[e].at = "none" <=> exec[e].at = "none"
             /\ exec'[e].todo \subseteq exec[e].todo
             /\ exec'[e] \in Progress
  <2>1. exec'[e] = IF Runs(e) THEN [Idle EXCEPT !.at = "over"] ELSE exec[e]
    BY <1>1
  <2>2. CASE Runs(e)
    <3>1. /\ exec'[e].at = "over" /\ exec'[e].ok = 0 /\ exec'[e].base = 0 /\ exec'[e].todo = {}
          /\ exec'[e] \in Progress
      BY <2>1, <2>2, Constants DEF Idle, Progress
    <3>2. exec[e].at # "none" /\ joins \in Nat
      BY <2>2, Constants DEF Runs, TypeOK
    <3> QED
      BY <2>1, <3>1, <3>2
  <2>3. CASE ~ Runs(e)
    BY <2>1, <2>3 DEF Runs, TypeOK, Progress, PerExecution, PageOK, ReportOK
  <2> QED
    BY <2>2, <2>3
<1>4. ASSUME NEW e \in Execution
      PROVE  /\ batch'[e] = {Requeue(x) : x \in Kept(e)} /\ Kept(e) \in SUBSET batch[e]
             /\ \A x \in batch[e] :
                   /\ x \in Batch /\ Requeue(x) \in Batch /\ Requeue(x).users = x.users
                   /\ Requeue(x).at = "done" => Requeue(x) = x
             /\ \A y \in batch'[e] : \E x \in batch[e] : y = Requeue(x)
  <2>1. batch'[e] = {Requeue(x) : x \in Kept(e)} /\ Kept(e) \in SUBSET batch[e]
    BY <1>1
  <2>2. ASSUME NEW x \in batch[e]
        PROVE  /\ x \in Batch /\ Requeue(x) \in Batch /\ Requeue(x).users = x.users
               /\ Requeue(x).at = "done" => Requeue(x) = x
    <3>1. x \in Batch
      BY DEF TypeOK
    <3> QED
      BY <3>1 DEF Batch, Requeue
  <2> HIDE DEF Kept
  <2> QED
    BY <2>1, <2>2
<1> HIDE DEF Kept
<1>5. \A b \in Broadcast, u \in User :
        /\ Cardinality({k \in Copy : u \in Cut(<<b, k>>)}) \in Nat
        /\ Cardinality({k \in Copy : Cut(<<b, k>>) # {}}) \in Nat
        /\ Cardinality({k \in Copy : u \in Cut(<<b, k>>)})
              <= Cardinality({k \in Copy : Cut(<<b, k>>) # {}})
  <2> SUFFICES ASSUME NEW b \in Broadcast, NEW u \in User
               PROVE  /\ Cardinality({k \in Copy : u \in Cut(<<b, k>>)}) \in Nat
                      /\ Cardinality({k \in Copy : Cut(<<b, k>>) # {}}) \in Nat
                      /\ Cardinality({k \in Copy : u \in Cut(<<b, k>>)})
                            <= Cardinality({k \in Copy : Cut(<<b, k>>) # {}})
    OBVIOUS
  <2>1. {k \in Copy : u \in Cut(<<b, k>>)} \in SUBSET {k \in Copy : Cut(<<b, k>>) # {}}
    OBVIOUS
  <2> QED
    BY <2>1, CopySets
<1>6. TypeOK'
  <2>1. exec' \in [Execution -> Progress]
    BY <1>1, <1>3
  <2>2. batch' \in [Execution -> SUBSET Batch]
    BY <1>1, <1>4
  <2>3. copies' \in [Broadcast -> [User -> Nat]] /\ repeated' \in [Broadcast -> Nat]
    <3> DEFINE more(b, u) == Cardinality({k \in Copy : u \in Cut(<<b, k>>)})
               again(b) == Cardinality({k \in Copy : Cut(<<b, k>>) # {}})
    <3>1. \A b \in Broadcast, u \in User : more(b, u) \in Nat
      BY <1>5
    <3>2. \A b \in Broadcast : again(b) \in Nat
      <4> TAKE b \in Broadcast
      <4> QED
        BY CopySets
    <3>3. /\ copies' = [b \in Broadcast |-> [u \in User |-> copies[b][u] + more(b, u)]]
          /\ repeated' = [b \in Broadcast |-> repeated[b] + again(b)]
      BY <1>1
    <3> HIDE DEF more, again
    <3> QED
      BY <3>1, <3>2, <3>3 DEF TypeOK
  <2> QED
    BY <1>1, <1>2, <2>1, <2>2, <2>3 DEF TypeOK
<1>7. ASSUME NEW b \in Broadcast, NEW u \in User PROVE copies[b][u] <= copies'[b][u]
  <2> DEFINE m == Cardinality({k \in Copy : u \in Cut(<<b, k>>)})
  <2>1. copies'[b][u] = copies[b][u] + m /\ m \in Nat /\ copies[b][u] \in Nat
    BY <1>1, <1>5 DEF TypeOK
  <2> HIDE DEF m
  <2> QED
    BY <2>1
<1>8. ASSUME NEW e \in Execution PROVE PerExecution(e)'
  <2>1. PageOK(e) /\ BatchOK(e) /\ e[1] \in Broadcast
    BY DEF PerExecution, Execution
  <2>2. PageOK(e)'
    <3>1. CASE exec'[e].at = "none"
      <4>1. exec'[e] = exec[e] /\ exec[e] = Idle /\ batch[e] = {}
        BY <1>3, <2>1, <3>1 DEF PageOK, Runs
      <4>2. batch'[e] = {}
        BY <1>4, <4>1
      <4> QED
        BY <4>1, <4>2 DEF PageOK, Idle
    <3>2. CASE exec'[e].at = "over"
      BY <1>3, <3>2 DEF PageOK
    <3> QED
      BY <1>3, <3>1, <3>2
  <2>3. BatchOK(e)'
    <3>1. IsFiniteSet(batch'[e])
      <4>1. IsFiniteSet(Kept(e))
        BY <1>4, <2>1, FS_Subset DEF BatchOK
      <4> QED
        BY <1>4, <4>1, RequeueFinite
    <3>2. ASSUME NEW y \in batch'[e]
          PROVE  /\ y.users \intersect exec'[e].todo = {} /\ Cardinality(y.users) <= ChunkSize
                 /\ y.at = "done" => y.delivered <= Cardinality({u \in y.users : copies'[e[1]][u] > 0})
      <4>1. PICK x \in batch[e] : y = Requeue(x) /\ y.users = x.users /\ (y.at = "done" => y = x) /\ x \in Batch
        BY <1>4
      <4>2. /\ x.users \intersect exec[e].todo = {} /\ Cardinality(x.users) <= ChunkSize
            /\ x.at = "done" => x.delivered <= Cardinality({u \in x.users : copies[e[1]][u] > 0})
        BY <2>1 DEF BatchOK
      <4>3. ASSUME y.at = "done"
            PROVE  y.delivered <= Cardinality({u \in y.users : copies'[e[1]][u] > 0})
        <5>1. y = x /\ x.delivered \in Nat /\ x.users \in SUBSET User
          BY <4>1, <4>3, Constants DEF Batch
        <5> QED
          BY <1>6, <1>7, <2>1, <4>2, <4>3, <5>1, ReachedGrow
      <4> QED
        BY <1>3, <4>1, <4>2, <4>3
    <3>3. ASSUME NEW y \in batch'[e], NEW z \in batch'[e], y # z
          PROVE  y.users \intersect z.users = {}
      <4>1. PICK x \in batch[e] : y = Requeue(x) /\ y.users = x.users
        BY <1>4
      <4>2. PICK w \in batch[e] : z = Requeue(w) /\ z.users = w.users
        BY <1>4
      <4>3. x.users \intersect w.users = {}
        BY <2>1, <3>3, <4>1, <4>2 DEF BatchOK
      <4> QED
        BY <4>1, <4>2, <4>3
    <3> QED
      BY <3>1, <3>2, <3>3 DEF BatchOK
  <2>4. SteadyOK(e)'
    BY <1>3 DEF SteadyOK
  <2>5. ReportOK(e)'
    BY <1>1, <1>3 DEF ReportOK
  <2> QED
    BY <2>2, <2>3, <2>4, <2>5 DEF PerExecution
<1>9. ASSUME NEW e \in Execution, NEW u \in User, Spent(e, u) PROVE Spent(e, u)'
  <2>1. exec'[e].at = "over" /\ u \notin exec'[e].todo
    BY <1>3, <1>9 DEF Spent
  <2>2. ASSUME NEW y \in batch'[e], u \in y.users PROVE y.at = "done"
    <3>1. PICK x \in batch[e] : y = Requeue(x) /\ y.users = x.users
      BY <1>4
    <3>2. x.at = "done"
      BY <1>9, <2>2, <3>1 DEF Spent
    <3> QED
      BY <3>1, <3>2 DEF Requeue
  <2> QED
    BY <2>1, <2>2 DEF Spent
<1>10. CopiesInv'
  <2> SUFFICES ASSUME NEW b \in Broadcast, NEW u \in User
               PROVE  copies'[b][u] <= Cardinality({k \in Copy : Spent(<<b, k>>, u)'}) + repeated'[b]
    BY DEF CopiesInv
  <2> DEFINE S == {k \in Copy : Spent(<<b, k>>, u)}
             T == {k \in Copy : Spent(<<b, k>>, u)'}
             m == Cardinality({k \in Copy : u \in Cut(<<b, k>>)})
             n == Cardinality({k \in Copy : Cut(<<b, k>>) # {}})
  <2>1. S \in SUBSET T /\ T \in SUBSET Copy
    BY <1>9 DEF Execution
  <2>2. copies[b][u] <= Cardinality(S) + repeated[b]
    BY DEF CopiesInv
  <2>3. copies[b][u] \in Nat /\ repeated[b] \in Nat
    BY DEF TypeOK
  <2>4. copies'[b][u] = copies[b][u] + m /\ repeated'[b] = repeated[b] + n
    BY <1>1
  <2>5. m \in Nat /\ n \in Nat /\ m <= n
    BY <1>5
  <2> HIDE DEF S, T, m, n
  <2>6. Cardinality(T) \in Nat /\ Cardinality(S) \in Nat /\ Cardinality(S) <= Cardinality(T)
    BY <2>1, CopySets
  <2> QED
    BY <2>2, <2>3, <2>4, <2>5, <2>6 DEF T
<1>11. LifeInv'
  <2>1. \A e \in Execution : exec'[e].at = "none" <=> exec[e].at = "none"
    BY <1>3
  <2> QED
    BY <1>1, <2>1 DEF LifeInv, Execution
<1>12. LockInv'
  <2>1. \A b \in unacked, k \in Copy : exec'[<<b, k>>].at # "ended"
    BY <1>3 DEF TypeOK, Execution
  <2> QED
    BY <1>1, <2>1 DEF LockInv
<1>13. ClaimInv'
  <2>1. \A c \in Broadcast, k \in Copy \union {0} : Claims(c, k)' => Claims(c, k)
    <3>1. \A e \in Execution : ~ HoldsLock(e)'
      BY <1>3 DEF HoldsLock
    <3> QED
      BY <1>1, <3>1, Constants DEF Claims, Execution, Copy
  <2> QED
    BY <1>1, <2>1 DEF ClaimInv
<1>14. CountInv'
  BY <1>1, <1>2 DEF CountInv
<1> QED
  BY <1>6, <1>8, <1>10, <1>11, <1>12, <1>13, <1>14

-----------------------------------------------------------------------------
LEMMA JoinStep ==
  ASSUME IInv, NEW u \in User, Join(u)
  PROVE  IInv'
<1> USE DEF IInv, work
<1>1. /\ u \notin active /\ active' = active \union {u} /\ joins' = joins + 1
      /\ joins + leaves + faults < MaxEvents
      /\ UNCHANGED <<count, lock, handler, queued, unacked, exec, batch, context, copies, redelivered,
                     repeated, astray, leaked, leaves, faults>>
  BY DEF Join
<1>2. joins \in Nat /\ leaves \in Nat /\ faults \in Nat
  BY Constants DEF TypeOK
<1>3. TypeOK'
  BY <1>1, <1>2, Constants DEF TypeOK
<1>4. ASSUME NEW A \in SUBSET User
      PROVE  A \union {u} \in SUBSET User /\ Cardinality(A \union {u}) \in Nat
             /\ Cardinality(A) \in Nat /\ Cardinality(A \union {u}) <= Cardinality(A) + 1
  <2>1. A \union {u} \in SUBSET User /\ IsFiniteSet(A) /\ Cardinality(A) \in Nat
        /\ Cardinality(A \union {u}) \in Nat
    BY UserSets
  <2> QED
    BY <2>1, FS_AddElement
<1>5. CountInv'
  <2>1. PICK A \in SUBSET User : active \subseteq A /\ Cardinality(A) <= count[1] + joins - count[2]
    BY DEF CountInv
  <2>2. count[1] \in Nat /\ count[2] \in Nat /\ count[2] <= joins
    BY Constants DEF TypeOK, CountInv
  <2>3. Cardinality(A \union {u}) <= count[1] + (joins + 1) - count[2]
    BY <1>2, <1>4, <2>1, <2>2
  <2>4. active' \subseteq A \union {u}
    BY <1>1, <2>1
  <2> QED
    BY <1>1, <1>2, <1>4, <2>2, <2>3, <2>4, Constants DEF CountInv
<1>6. ASSUME NEW e \in Execution PROVE PerExecution(e)'
  <2>1. PageOK(e) /\ BatchOK(e) /\ SteadyOK(e) /\ ReportOK(e)
    BY DEF PerExecution
  <2>2. exec[e].total \in Nat /\ exec[e].base \in Nat /\ exec[e].ok \in Nat
    BY Constants DEF TypeOK, Progress
  <2>3. PageOK(e)' /\ BatchOK(e)'
    BY <1>1, <2>1 DEF PageOK, BatchOK
  <2>4. SteadyOK(e)'
    BY <1>1, <2>1 DEF SteadyOK
  <2>5. ReportOK(e)'
    <3>1. ASSUME exec[e].at \in {"page", "wait"}
          PROVE  \E A \in SUBSET User :
                    /\ active' \subseteq A /\ exec[e].todo \subseteq A
                    /\ \A x \in batch[e] : x.users \subseteq A
                    /\ Cardinality(A) <= exec[e].total + joins' - exec[e].base
      <4>1. PICK A \in SUBSET User :
                    /\ active \subseteq A /\ exec[e].todo \subseteq A
                    /\ \A x \in batch[e] : x.users \subseteq A
                    /\ Cardinality(A) <= exec[e].total + joins - exec[e].base
        BY <2>1, <3>1 DEF ReportOK
      <4>2. Cardinality(A \union {u}) <= exec[e].total + joins' - exec[e].base
        BY <1>1, <1>2, <1>4, <2>2, <4>1
      <4>3. /\ active' \subseteq A \union {u} /\ exec[e].todo \subseteq A \union {u}
            /\ \A x \in batch[e] : x.users \subseteq A \union {u}
        BY <1>1, <4>1
      <4> QED
        BY <1>4, <4>2, <4>3
    <3>2. exec[e].base <= joins' /\ (exec[e].at = "ended" => exec[e].ok <= exec[e].total + (joins' - exec[e].base))
      BY <1>1, <1>2, <2>1, <2>2 DEF ReportOK
    <3> QED
      BY <1>1, <2>1, <3>1, <3>2 DEF ReportOK
  <2> QED
    BY <2>3, <2>4, <2>5 DEF PerExecution
<1>7. \A e \in Execution, v \in User : Spent(e, v) => Spent(e, v)'
  BY <1>1 DEF Spent
<1>8. CopiesInv'
  BY <1>1, <1>7, CopiesFrame
<1>9. LifeInv' /\ LockInv' /\ ClaimInv'
  BY <1>1, SameLock
<1> QED
  BY <1>3, <1>5, <1>6, <1>8, <1>9

LEMMA LeaveStep ==
  ASSUME IInv, NEW u \in User, Leave(u)
  PROVE  IInv'
<1> USE DEF IInv
<1>1. /\ u \in active /\ active' = active \ {u} /\ leaves' = leaves + 1
      /\ joins + leaves + faults < MaxEvents
      /\ exec' = [e \in Execution |-> [exec[e] EXCEPT !.steady = @ \ {u}]]
      /\ UNCHANGED <<count, lock, handler, queued, unacked, batch, context, copies, redelivered,
                     repeated, astray, leaked, joins, faults>>
  BY DEF Leave
<1>2. joins \in Nat /\ leaves \in Nat /\ faults \in Nat
  BY Constants DEF TypeOK
<1>3. ASSUME NEW e \in Execution
      PROVE  /\ exec'[e].at = exec[e].at /\ exec'[e].todo = exec[e].todo
             /\ exec'[e].cursor = exec[e].cursor /\ exec'[e].ok = exec[e].ok
             /\ exec'[e].total = exec[e].total /\ exec'[e].base = exec[e].base
             /\ exec'[e].steady = exec[e].steady \ {u}
             /\ exec'[e] \in Progress
             /\ exec[e] = Idle => exec'[e] = Idle
  <2>1. exec[e] \in Progress /\ exec'[e] = [exec[e] EXCEPT !.steady = exec[e].steady \ {u}]
    BY <1>1 DEF TypeOK
  <2>2. exec[e] = Idle => exec'[e] = Idle
    BY <2>1 DEF Idle
  <2> QED
    BY <2>1, <2>2 DEF Progress
<1>4. TypeOK'
  <2>1. exec' \in [Execution -> Progress]
    BY <1>1, <1>3
  <2> QED
    BY <1>1, <1>2, <2>1, Constants DEF TypeOK
<1>5. CountInv'
  BY <1>1, <1>2, Constants DEF CountInv
<1>6. ASSUME NEW e \in Execution PROVE PerExecution(e)'
  <2>1. PageOK(e) /\ BatchOK(e) /\ SteadyOK(e) /\ ReportOK(e)
    BY DEF PerExecution
  <2>2. PageOK(e)'
    BY <1>1, <1>3, <2>1 DEF PageOK
  <2>3. BatchOK(e)'
    BY <1>1, <1>3, <2>1 DEF BatchOK
  <2>4. SteadyOK(e)'
    BY <1>1, <1>3, <2>1 DEF SteadyOK
  <2>5. ReportOK(e)'
    BY <1>1, <1>3, <2>1 DEF ReportOK
  <2> QED
    BY <2>2, <2>3, <2>4, <2>5 DEF PerExecution
<1>7. \A e \in Execution, v \in User : Spent(e, v) => Spent(e, v)'
  BY <1>1, <1>3 DEF Spent
<1>8. CopiesInv'
  BY <1>1, <1>7, CopiesFrame
<1>9. LifeInv'
  BY <1>1, <1>3 DEF LifeInv, Execution
<1>10. LockInv'
  BY <1>1, <1>3 DEF LockInv, Execution, TypeOK
<1>11. ClaimInv'
  <2>1. \A c \in Broadcast, k \in Copy \union {0} : Claims(c, k)' => Claims(c, k)
    BY <1>1, <1>3, Constants DEF Claims, HoldsLock, Execution, Copy
  <2> QED
    BY <1>1, <2>1 DEF ClaimInv
<1> QED
  BY <1>4, <1>5, <1>6, <1>8, <1>9, <1>10, <1>11
-----------------------------------------------------------------------------
LEMMA InitIInv == Init => IInv
<1> SUFFICES ASSUME Init PROVE IInv
  OBVIOUS
<1> USE DEF Init
<1>1. active \in SUBSET User /\ Cardinality(active) \in 0 .. NumUsers
  BY UserAssumption, UserSets
<1>2. \A e \in Execution : exec[e] = Idle /\ batch[e] = {}
  OBVIOUS
<1>3. TypeOK
  <2>1. Idle \in Progress
    BY Constants DEF Idle, Progress
  <2>2. exec \in [Execution -> Progress] /\ batch \in [Execution -> SUBSET Batch]
    BY <2>1
  <2>3. count \in (0 .. NumUsers) \X (0 .. MaxEvents)
    BY <1>1, Constants
  <2>4. context \in [Broadcast -> Copy \union {0}] /\ copies \in [Broadcast -> [User -> Nat]]
    OBVIOUS
  <2>5. redelivered \in [Broadcast -> 0 .. MaxRedelivery] /\ repeated \in [Broadcast -> Nat]
    BY Constants
  <2> QED
    BY <1>1, <2>2, <2>3, <2>4, <2>5, Constants DEF TypeOK
<1>4. LifeInv
  BY <1>2 DEF LifeInv, Idle, Execution
<1>5. LockInv
  BY DEF LockInv
<1>6. ClaimInv
  BY <1>2, Constants DEF ClaimInv, Claims, HoldsLock, Idle, Execution, Copy
<1>7. CountInv
  BY <1>1, Constants DEF CountInv
<1>8. CopiesInv
  <2> SUFFICES ASSUME NEW b \in Broadcast, NEW u \in User
               PROVE  copies[b][u] <= Cardinality({k \in Copy : Spent(<<b, k>>, u)}) + repeated[b]
    BY DEF CopiesInv
  <2>1. Cardinality({k \in Copy : Spent(<<b, k>>, u)}) \in Nat
    BY CopySets
  <2> QED
    BY <2>1
<1>9. ASSUME NEW e \in Execution PROVE PerExecution(e)
  BY <1>2, Constants, FS_EmptySet DEF PerExecution, PageOK, BatchOK, SteadyOK, ReportOK, Idle
<1> QED
  BY <1>3, <1>4, <1>5, <1>6, <1>7, <1>8, <1>9 DEF IInv

LEMMA StutterStep ==
  ASSUME IInv, UNCHANGED vars
  PROVE  IInv'
<1> USE DEF vars, work, history, IInv
<1>1. TypeOK'
  BY DEF TypeOK
<1>2. CopiesInv' /\ CountInv' /\ \A e \in Execution : PerExecution(e)'
  BY SameWork, FaultFacts, Constants DEF CountInv, TypeOK
<1>3. LifeInv' /\ LockInv' /\ ClaimInv'
  BY SameLock
<1> QED
  BY <1>1, <1>2, <1>3

(***************************************************************************)
(* Every step of the handlers, the worker and the users keeps the          *)
(* invariant.                                                              *)
(***************************************************************************)
THEOREM Invariance == Spec => []IInv
<1>1. Init => IInv
  BY InitIInv
<1>2. IInv /\ [Next]_vars => IInv'
  <2> SUFFICES ASSUME IInv, [Next]_vars PROVE IInv'
    OBVIOUS
  <2>1. ASSUME NEW b \in Broadcast, Lock(b) \/ Kiq(b) \/ Deliver(b) \/ Redeliver(b) PROVE IInv'
    BY <2>1, LockStep, KiqStep, DeliverStep, RedeliverStep
  <2>2. ASSUME NEW e \in Execution, ExecutionStep(e) PROVE IInv'
    BY <2>2, CountStep, ReadPageStep, SendBatchStep, SummariseStep, EndStep
       DEF ExecutionStep, Gather, TimeOut
  <2>3. ASSUME NEW e \in Execution, Fail(e) PROVE IInv'
    BY <2>3, FailStep
  <2>4. ASSUME NEW e \in Execution, BatchStep(e) PROVE IInv'
    BY <2>4, StartBatchStep, ExecuteBatchStep DEF BatchStep
  <2>9. ASSUME NEW e \in Execution, NEW x \in batch[e], RepeatBatch(e, x) PROVE IInv'
    BY <2>9, RepeatBatchStep
  <2>5. CASE WorkerCrash
    BY <2>5, WorkerCrashStep
  <2>6. CASE LockExpires
    BY <2>6, LockExpiresStep
  <2>7. ASSUME NEW u \in User, Join(u) \/ Leave(u) PROVE IInv'
    BY <2>7, JoinStep, LeaveStep
  <2>8. CASE UNCHANGED vars
    BY <2>8, StutterStep
  <2> QED
    BY <2>1, <2>2, <2>3, <2>4, <2>5, <2>6, <2>7, <2>8, <2>9 DEF Next
<1> QED
  BY <1>1, <1>2, PTL DEF Spec

(***************************************************************************)
(* What the handlers, the stream, the worker and the database keep of a    *)
(* broadcast has its type.                                                 *)
(***************************************************************************)
THEOREM TypeCorrect == Spec => []TypeOK
<1>1. IInv => TypeOK
  BY DEF IInv
<1> QED
  BY <1>1, Invariance, PTL

(***************************************************************************)
(* SET NX in usecases/broadcast.py keeps two broadcasts of a bot from      *)
(* being under way together, unless one of them went on without its lock:  *)
(* the claims of two would each have to be the only one.                   *)
(***************************************************************************)
THEOREM OneBroadcastAtATime == Spec => []OneAtATime
<1>1. IInv => OneAtATime
  <2> SUFFICES ASSUME IInv, ~ astray
               PROVE  Cardinality({b \in Broadcast : Underway(b)}) <= 1
    BY DEF OneAtATime
  <2> DEFINE S == {b \in Broadcast : Underway(b)}
  <2>1. \A b \in S : \E k \in Copy \union {0} : Claims(b, k)
    BY Constants DEF Underway, Claims, Copy
  <2>2. \A b, c \in S : b = c
    BY <2>1 DEF IInv, ClaimInv
  <2>3. CASE S = {}
    BY <2>3, FS_EmptySet
  <2>4. CASE S # {}
    <3>1. PICK b \in S : S = {b}
      BY <2>2, <2>4
    <3> QED
      BY <3>1, FS_Singleton
  <2> QED
    BY <2>3, <2>4
<1> QED
  BY <1>1, Invariance, PTL

(***************************************************************************)
(* Whenever the lock is set, a handler, a message or an execution is going *)
(* to delete it, but for one that leaked: a handler that was cancelled or  *)
(* could not delete it, a task without its bot, or an `unlock` of the      *)
(* `finally` that failed.                                                  *)
(***************************************************************************)
THEOREM TheLockIsReleased == Spec => []LockIsReleased
<1>1. IInv => LockIsReleased
  BY DEF IInv, TypeOK, LockInv, LockIsReleased, Underway
<1> QED
  BY <1>1, Invariance, PTL

(***************************************************************************)
(* The cursor over user ids (repository/user_profile.py) skips nobody who  *)
(* is active from the start of an execution until its last page.           *)
(***************************************************************************)
THEOREM NoActiveUserIsMissed == Spec => []NobodyIsMissed
<1>1. IInv => NobodyIsMissed
  <2> SUFFICES ASSUME IInv, NEW e \in Execution, exec[e].at = "wait", NEW u \in exec[e].steady
               PROVE  u \in UNION {x.users : x \in batch[e]}
    BY DEF NobodyIsMissed
  <2>1. PICK x \in batch[e] : u \in x.users
    BY DEF IInv, PerExecution, SteadyOK
  <2> QED
    BY <2>1
<1> QED
  BY <1>1, Invariance, PTL

(***************************************************************************)
(* A user gets one copy per execution of the message, of which there are   *)
(* no more than deliveries, and one per repetition of a batch: pages that  *)
(* overlap and batches that are cut anew send none twice.                  *)
(***************************************************************************)
THEOREM EveryCopyIsExplained == Spec => []CopiesAreExplained
<1>1. IInv => CopiesAreExplained
  <2> SUFFICES ASSUME IInv, NEW b \in Broadcast, NEW u \in User
               PROVE  copies[b][u] <= 1 + redelivered[b] + repeated[b]
    BY DEF CopiesAreExplained
  <2> DEFINE S == {k \in Copy : Spent(<<b, k>>, u)}
  <2>1. copies[b][u] <= Cardinality(S) + repeated[b]
    BY DEF IInv, CopiesInv
  <2>2. redelivered[b] \in Nat /\ copies[b][u] \in Nat /\ repeated[b] \in Nat
    BY Constants DEF IInv, TypeOK
  <2>3. S \in SUBSET (1 .. redelivered[b] + 1)
    BY DEF Spent, IInv, LifeInv, Execution, Copy
  <2>4. IsFiniteSet(1 .. redelivered[b] + 1) /\ Cardinality(1 .. redelivered[b] + 1) = redelivered[b] + 1
    <3> DEFINE r == redelivered[b] + 1
    <3>1. r \in Nat /\ 1 <= r
      BY <2>2
    <3> HIDE DEF r
    <3>2. IsFiniteSet(1 .. r) /\ Cardinality(1 .. r) = r
      BY <3>1, FS_Interval
    <3> QED
      BY <3>2 DEF r
  <2>5. Cardinality(S) <= redelivered[b] + 1 /\ Cardinality(S) \in Nat
    <3> HIDE DEF S
    <3> QED
      BY <2>3, <2>4, FS_Subset, FS_CardinalityType
  <2> HIDE DEF S
  <2> QED
    BY <2>1, <2>2, <2>5
<1> QED
  BY <1>1, Invariance, PTL

(***************************************************************************)
(* The report (task_queue/tasks/broadcast.py) tells of no more users than  *)
(* were sent the broadcast, nor of more than were counted and joined       *)
(* since.                                                                  *)
(***************************************************************************)
THEOREM TheReportAddsUp == Spec => []ReportAddsUp
<1>1. IInv => ReportAddsUp
  BY DEF IInv, PerExecution, ReportOK, ReportAddsUp
<1> QED
  BY <1>1, Invariance, PTL
=============================================================================
