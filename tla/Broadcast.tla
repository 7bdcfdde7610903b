----------------------------- MODULE Broadcast -----------------------------
(***************************************************************************)
(* The broadcast of a userbot to its users: the admin's confirmation, the  *)
(* lock in Redis, the task that pages through the users and sends batches  *)
(* to the same queue, the batches, and the report.                         *)
(*                                                                         *)
(* The worker is one process of Slots executions at a time.  A message     *)
(* that stays unacknowledged, for the worker died or for a broadcast lasts *)
(* longer than the idle time of the stream, is executed again, beside the  *)
(* execution under way if there is one.  The lock says nothing of who took *)
(* it: it expires after an hour and whoever ends deletes it, if Redis      *)
(* answers.                                                                *)
(***************************************************************************)
EXTENDS Integers, FiniteSets, FiniteSetsExt

CONSTANTS
    NumUsers,      \* users are their ids, in the order of get_active_ids
    Initially,     \* sets of users that may be active at the start
    Broadcast,     \* numbered as they are confirmed
    PageSize, ChunkSize,
    Slots,         \* executions of the worker at a time
    MaxRedelivery, \* bound: redeliveries of the message of a broadcast
    MaxEvents      \* bound: users that join or leave, and things that go wrong

User == 1 .. NumUsers

ASSUME UserAssumption == NumUsers \in Nat /\ Initially \subseteq SUBSET User
ASSUME SizeAssumption == {PageSize, ChunkSize, Slots} \subseteq Nat \ {0}
ASSUME BoundAssumption == MaxRedelivery \in Nat /\ MaxEvents \in Nat
ASSUME BroadcastAssumption == Broadcast \subseteq Nat

Copy == 1 .. MaxRedelivery + 1 \* executions of a broadcast's message
Execution == Broadcast \X Copy

VARIABLES
    active,     \* users neither banned nor blocking the bot
    count,      \* the last active_count, which may be cached, and the joins before it
    lock,       \* the key "broadcast"
    handler,    \* execute_broadcast
    queued,     \* messages in the stream
    unacked,    \* messages delivered and not acknowledged
    exec,       \* executions of the broadcast task
    batch,      \* the send_batch tasks: at, whom they send to, what they returned
    context,    \* BotContextMiddleware._state, by task id: the execution that set it, or 0
    copies,     \* history: copies of a broadcast each user was sent
    redelivered, repeated, \* history: redeliveries of a broadcast, and of executions' batches
    astray,     \* history: a broadcast was left to run without the lock
    leaked,     \* history: the lock was left to nobody
    joins, leaves, faults \* history: their numbers

work == <<exec, batch, context>>
history == <<copies, redelivered, repeated, astray, leaked, joins, leaves, faults>>
vars == <<active, count, lock, handler, queued, unacked, work, history>>

Idle == [at |-> "none", total |-> 0, base |-> 0, cursor |-> 0, todo |-> {}, steady |-> {}, ok |-> 0]

Init ==
    /\ active \in Initially
    /\ count = <<Cardinality(active), 0>>
    /\ lock = FALSE
    /\ handler = [b \in Broadcast |-> "idle"]
    /\ queued = {} /\ unacked = {}
    /\ exec = [e \in Execution |-> Idle]
    /\ batch = [e \in Execution |-> {}]
    /\ context = [b \in Broadcast |-> 0]
    /\ copies = [b \in Broadcast |-> [u \in User |-> 0]]
    /\ redelivered = [b \in Broadcast |-> 0]
    /\ repeated = [b \in Broadcast |-> 0]
    /\ astray = FALSE /\ leaked = FALSE
    /\ joins = 0 /\ leaves = 0 /\ faults = 0

Least(n, ids) == {u \in ids : Cardinality({v \in ids : v < u}) < n}

Runs(e) == exec[e].at \in {"count", "page", "wait", "ended"}
Alone(b) == \A k \in Copy : ~ Runs(<<b, k>>)
HoldsLock(e) == exec[e].at \in {"count", "page", "wait"}
Running(e) == {x \in batch[e] : x.at = "running"}
FreeSlot ==
    Cardinality({e \in Execution : Runs(e)})
        + MapThenSumSet(LAMBDA e : Cardinality(Running(e)), Execution) < Slots

(***************************************************************************)
(* Broadcast b is confirmed and not over: it counts on the lock.           *)
(***************************************************************************)
Underway(b) ==
    \/ handler[b] = "locked" \/ b \in queued
    \/ \E k \in Copy : HoldsLock(<<b, k>>)

(***************************************************************************)
(* The lock is deleted, or stays with nobody left to delete it.            *)
(***************************************************************************)
Unlock == lock' = FALSE /\ leaked' = FALSE
Abandon == lock' = lock /\ leaked' = lock

Fault == joins + leaves + faults < MaxEvents /\ faults' = faults + 1
-----------------------------------------------------------------------------
(***************************************************************************)
(* execute_broadcast: the lock, then the message.  The call that enqueues  *)
(* it can fail before or after it has; the process can die before it, and  *)
(* the lock is not deleted if telling the admin or Redis fails.            *)
(***************************************************************************)
\* Mutant: the lock is set whether or not it was there.
MutLock(b) ==
    /\ handler[b] = "idle"
    /\ \A c \in Broadcast : c < b => handler[c] # "idle"
    /\ lock' = TRUE
    /\ handler' = [handler EXCEPT ![b] = "locked"]
    /\ UNCHANGED <<active, count, queued, unacked, work, history>>

Lock(b) ==
    /\ handler[b] = "idle" /\ ~ lock
    /\ \A c \in Broadcast : c < b => handler[c] # "idle"
    /\ lock' = TRUE
    /\ handler' = [handler EXCEPT ![b] = "locked"]
    /\ UNCHANGED <<active, count, queued, unacked, work, history>>

Kiq(b) ==
    /\ handler[b] = "locked"
    /\ handler' = [handler EXCEPT ![b] = "over"]
    /\ \/ queued' = queued \union {b} /\ UNCHANGED <<lock, leaked, astray, faults>>
       \/ Fault /\ Unlock /\ UNCHANGED <<queued, astray>>
       \/ Fault /\ queued' = queued \union {b} /\ Unlock /\ astray' = TRUE
       \/ Fault /\ Abandon /\ UNCHANGED <<queued, astray>>
    /\ UNCHANGED <<active, count, unacked, work, copies, redelivered, repeated, joins, leaves>>

LockExpires ==
    /\ lock
    /\ Unlock
    /\ IF \E b \in Broadcast : Underway(b)
       THEN Fault /\ astray' = TRUE
       ELSE UNCHANGED <<astray, faults>>
    /\ UNCHANGED <<active, count, handler, queued, unacked, work,
                   copies, redelivered, repeated, joins, leaves>>
-----------------------------------------------------------------------------
(***************************************************************************)
(* An execution begins.  BotContextMiddleware makes the bot current and    *)
(* keeps the way back under the id of the task, which a second execution   *)
(* shares; without a token the use case cannot be made, before the try.    *)
(* When the middleware itself fails nothing is executed or acknowledged.   *)
(***************************************************************************)
Begin(b, k) ==
    \/ /\ exec' = [exec EXCEPT ![<<b, k>>].at = "count"]
       /\ context' = [context EXCEPT ![b] = k]
       /\ IF Alone(b) THEN UNCHANGED faults ELSE Fault
       /\ UNCHANGED leaked
    \/ /\ exec' = [exec EXCEPT ![<<b, k>>].at = "ended"]
       /\ Fault
       /\ leaked' = lock
       /\ UNCHANGED context
    \/ /\ k <= MaxRedelivery
       /\ exec' = [exec EXCEPT ![<<b, k>>].at = "over"]
       /\ Fault
       /\ UNCHANGED <<context, leaked>>

Deliver(b) ==
    /\ b \in queued /\ FreeSlot
    /\ queued' = queued \ {b}
    /\ unacked' = unacked \union {b}
    /\ Begin(b, 1)
    /\ UNCHANGED <<active, count, lock, handler, batch, copies, redelivered, repeated,
                   astray, joins, leaves>>

Redeliver(b) ==
    /\ b \in unacked /\ FreeSlot /\ redelivered[b] < MaxRedelivery
    /\ redelivered' = [redelivered EXCEPT ![b] = @ + 1]
    /\ Begin(b, redelivered[b] + 2)
    /\ astray' = (astray \/ ~ lock \/ \E c \in Broadcast : Underway(c))
    /\ UNCHANGED <<active, count, lock, handler, queued, unacked, batch, copies, repeated,
                   joins, leaves>>

(***************************************************************************)
(* The total is the number of active users, or that of a moment ago.       *)
(***************************************************************************)
Count(e) ==
    \E c \in {count, <<Cardinality(active), joins>>} :
        /\ exec[e].at = "count"
        /\ count' = c
        /\ exec' = [exec EXCEPT ![e].at = "page", ![e].total = c[1], ![e].base = c[2],
                                ![e].steady = active]
        /\ UNCHANGED <<active, lock, handler, queued, unacked, batch, context, history>>

(***************************************************************************)
(* The next page of ids, and its batches one after the other; when a page  *)
(* is empty the results are waited for.                                    *)
(***************************************************************************)
\* Mutant: pages are counted from the first user, as with OFFSET.
MutReadPage(e) ==
    LET ids == Least(exec[e].cursor + PageSize, active) \ Least(exec[e].cursor, active)
    IN  /\ exec[e].at = "page" /\ exec[e].todo = {}
        /\ exec' = IF ids = {} THEN [exec EXCEPT ![e].at = "wait"]
                   ELSE [exec EXCEPT ![e].cursor = @ + Cardinality(ids), ![e].todo = ids]
        /\ UNCHANGED <<active, count, lock, handler, queued, unacked, batch, context, history>>

\* Mutant: the cursor is kept one past the last user of the page.
MutCursor(ids) == Max(ids) + 1

CursorAfter(ids) == Max(ids)

ReadPage(e) ==
    LET ids == Least(PageSize, {u \in active : u > exec[e].cursor})
    IN  /\ exec[e].at = "page" /\ exec[e].todo = {}
        /\ exec' = IF ids = {} THEN [exec EXCEPT ![e].at = "wait"]
                   ELSE [exec EXCEPT ![e].cursor = CursorAfter(ids), ![e].todo = ids]
        /\ UNCHANGED <<active, count, lock, handler, queued, unacked, batch, context, history>>

SendBatch(e) ==
    LET chunk == Least(ChunkSize, exec[e].todo)
    IN  /\ exec[e].at = "page" /\ exec[e].todo # {}
        /\ exec' = [exec EXCEPT ![e].todo = @ \ chunk]
        /\ batch' = [batch EXCEPT ![e] =
              @ \union {[users |-> chunk, at |-> "queued", delivered |-> 0]}]
        /\ UNCHANGED <<active, count, lock, handler, queued, unacked, context, history>>

(***************************************************************************)
(* A query or an enqueuing fails: the lock is deleted on the way out, or   *)
(* that fails too.                                                         *)
(***************************************************************************)
\* Mutant: it is deleted at the end of the task only.
MutFail(e) ==
    /\ exec[e].at \in {"count", "page"}
    /\ Fault
    /\ exec' = [exec EXCEPT ![e].at = "ended"]
    /\ UNCHANGED <<active, count, lock, handler, queued, unacked, batch, context, copies,
                   redelivered, repeated, astray, leaked, joins, leaves>>

Fail(e) ==
    /\ exec[e].at \in {"count", "page"}
    /\ Fault
    /\ exec' = [exec EXCEPT ![e].at = "ended"]
    /\ Unlock \/ Abandon
    /\ UNCHANGED <<active, count, handler, queued, unacked, batch, context, copies,
                   redelivered, repeated, astray, joins, leaves>>

(***************************************************************************)
(* wait_result: all results are there, or the time for them is over.  When *)
(* the lock cannot be deleted, or no answer says so, nothing is reported.  *)
(***************************************************************************)
Results(e) == {x \in batch[e] : x.at = "done"}

\* Mutant: a batch that has not reported counts as delivered.
MutDelivered(x) == Cardinality(x.users)

Delivered(x) == IF x.at = "done" THEN x.delivered ELSE 0

Summarise(e) ==
    /\ exec[e].at = "wait"
    /\ \/ /\ exec' = [exec EXCEPT ![e].at = "ended",
                                   ![e].ok = MapThenSumSet(Delivered, batch[e])]
          /\ Unlock /\ UNCHANGED faults
       \/ /\ exec' = [exec EXCEPT ![e].at = "ended"]
          /\ Fault /\ (Unlock \/ Abandon)
    /\ UNCHANGED <<active, count, handler, queued, unacked, batch, context, copies,
                   redelivered, repeated, astray, joins, leaves>>

Gather(e) == Results(e) = batch[e] /\ Summarise(e)

\* Mutant: the results are waited for without a limit.
MutTimeOut(e) == Results(e) = batch[e] /\ Summarise(e)

TimeOut(e) == Results(e) # batch[e] /\ Summarise(e)

(***************************************************************************)
(* The caller has been told, or it failed.  The middleware goes back to    *)
(* the context before, if one is kept for the task.  With that of another  *)
(* execution this fails, as it was set in another asyncio task: nothing is *)
(* acknowledged.  Nobody asks for results any more.                        *)
(***************************************************************************)
End(e) ==
    /\ exec[e].at = "ended"
    /\ exec' = [exec EXCEPT ![e] = [Idle EXCEPT !.at = "over"]]
    /\ batch' = [batch EXCEPT ![e] = @ \ Results(e)]
    /\ context' = [context EXCEPT ![e[1]] = 0]
    /\ unacked' = IF context[e[1]] \in {0, e[2]} THEN unacked \ {e[1]} ELSE unacked
    /\ UNCHANGED <<active, count, lock, handler, queued, history>>
-----------------------------------------------------------------------------
(***************************************************************************)
(* A batch: all its users are sent the broadcast, of whom those who left   *)
(* may still get it, and it returns how many did.  When something fails,   *)
(* some do not, and what it returns may be lost.                           *)
(***************************************************************************)
SetBatch(e, x, y) == batch' = [batch EXCEPT ![e] = (@ \ {x}) \union {y}]

SendTo(b, users) == copies' = [copies EXCEPT ![b] =
    [u \in User |-> IF u \in users THEN @[u] + 1 ELSE @[u]]]

StartBatch(e, x) ==
    /\ x.at = "queued" /\ FreeSlot
    /\ SetBatch(e, x, [x EXCEPT !.at = "running"])
    /\ UNCHANGED <<active, count, lock, handler, queued, unacked, exec, context, history>>

Return(e, x, n) ==
    IF exec[e].at = "over"
    THEN batch' = [batch EXCEPT ![e] = @ \ {x}]
    ELSE SetBatch(e, x, [x EXCEPT !.at = "done", !.delivered = n])

ExecuteBatch(e, x) ==
    /\ x.at = "running"
    /\ \E sent \in SUBSET x.users :
          /\ SendTo(e[1], sent)
          /\ \/ /\ x.users \intersect active \subseteq sent
                /\ Return(e, x, Cardinality(sent))
                /\ UNCHANGED faults
             \/ /\ Fault
                /\ \E n \in {0, Cardinality(sent)} : Return(e, x, n)
    /\ UNCHANGED <<active, count, lock, handler, queued, unacked, exec, context,
                   redelivered, repeated, astray, leaked, joins, leaves>>

(***************************************************************************)
(* It lasts longer than the idle time of the stream, and is executed once  *)
(* more beside itself; both leave their result under the id of the task.   *)
(***************************************************************************)
RepeatBatch(e, x) ==
    /\ x.at \in {"running", "done"} /\ FreeSlot /\ Fault
    /\ \E sent \in SUBSET x.users :
          /\ SendTo(e[1], sent)
          /\ \/ UNCHANGED batch
             \/ /\ x.at = "done"
                /\ \E n \in {0, Cardinality(sent)} : Return(e, x, n)
    /\ repeated' = [repeated EXCEPT ![e[1]] = @ + 1]
    /\ UNCHANGED <<active, count, lock, handler, queued, unacked, exec, context,
                   redelivered, astray, leaked, joins, leaves>>

(***************************************************************************)
(* The worker dies with all it executes: what it had begun is redelivered. *)
(* Batches had reached all of their users, the worst that can happen.      *)
(***************************************************************************)
Cut(e) == UNION {x.users : x \in Running(e)}

WorkerCrash ==
    /\ \A b \in Broadcast : ~ Alone(b) => redelivered[b] < MaxRedelivery
    /\ Fault
    /\ exec' = [e \in Execution |-> IF Runs(e) THEN [Idle EXCEPT !.at = "over"] ELSE exec[e]]
    /\ batch' = [e \in Execution |->
          {IF x.at = "running" THEN [x EXCEPT !.at = "queued"] ELSE x :
              x \in IF Runs(e) THEN batch[e] \ Results(e) ELSE batch[e]}]
    /\ context' = [b \in Broadcast |-> 0]
    /\ copies' = [b \in Broadcast |-> [u \in User |->
          copies[b][u] + Cardinality({k \in Copy : u \in Cut(<<b, k>>)})]]
    /\ repeated' = [b \in Broadcast |->
          repeated[b] + Cardinality({k \in Copy : Cut(<<b, k>>) # {}})]
    /\ UNCHANGED <<active, count, lock, handler, queued, unacked, redelivered,
                   astray, leaked, joins, leaves>>
-----------------------------------------------------------------------------
(***************************************************************************)
(* Users come back or are new, and block the bot or are banned.            *)
(***************************************************************************)
Join(u) ==
    /\ u \notin active /\ joins + leaves + faults < MaxEvents
    /\ active' = active \union {u}
    /\ joins' = joins + 1
    /\ UNCHANGED <<count, lock, handler, queued, unacked, work, copies, redelivered, repeated,
                   astray, leaked, leaves, faults>>

Leave(u) ==
    /\ u \in active /\ joins + leaves + faults < MaxEvents
    /\ active' = active \ {u}
    /\ leaves' = leaves + 1
    /\ exec' = [e \in Execution |-> [exec[e] EXCEPT !.steady = @ \ {u}]]
    /\ UNCHANGED <<count, lock, handler, queued, unacked, batch, context, copies, redelivered,
                   repeated, astray, leaked, joins, faults>>
-----------------------------------------------------------------------------
ExecutionStep(e) ==
    \/ Count(e) \/ ReadPage(e) \/ SendBatch(e)
    \/ Gather(e) \/ TimeOut(e) \/ End(e)

BatchStep(e) ==
    \E x \in batch[e] : StartBatch(e, x) \/ ExecuteBatch(e, x)

Next ==
    \/ \E b \in Broadcast : Lock(b) \/ Kiq(b) \/ Deliver(b) \/ Redeliver(b)
    \/ \E e \in Execution : ExecutionStep(e) \/ Fail(e) \/ BatchStep(e)
    \/ \E e \in Execution : \E x \in batch[e] : RepeatBatch(e, x)
    \/ WorkerCrash
    \/ LockExpires
    \/ \E u \in User : Join(u) \/ Leave(u)

(***************************************************************************)
(* The worker takes messages whenever it has a slot and goes on with what  *)
(* it executes; one that nobody executes any more is redelivered.          *)
(***************************************************************************)
Spec == Init /\ [][Next]_vars

LiveSpec ==
    /\ Spec
    /\ \A b \in Broadcast :
          WF_vars(Deliver(b)) /\ WF_vars(Alone(b) /\ Redeliver(b)) /\ WF_vars(Kiq(b))
    /\ \A e \in Execution : WF_vars(ExecutionStep(e)) /\ WF_vars(BatchStep(e))
-----------------------------------------------------------------------------
Progress ==
    [at : {"none", "count", "page", "wait", "ended", "over"},
     total : 0 .. NumUsers, base : 0 .. MaxEvents, cursor : 0 .. NumUsers,
     todo : SUBSET User, steady : SUBSET User, ok : 0 .. NumUsers]

Batch ==
    [users : SUBSET User, at : {"queued", "running", "done"}, delivered : 0 .. ChunkSize]

TypeOK ==
    /\ active \subseteq User
    /\ count \in (0 .. NumUsers) \X (0 .. MaxEvents)
    /\ lock \in BOOLEAN
    /\ handler \in [Broadcast -> {"idle", "locked", "over"}]
    /\ queued \subseteq Broadcast /\ unacked \subseteq Broadcast
    /\ exec \in [Execution -> Progress]
    /\ batch \in [Execution -> SUBSET Batch]
    /\ context \in [Broadcast -> Copy \union {0}]
    /\ copies \in [Broadcast -> [User -> Nat]]
    /\ redelivered \in [Broadcast -> 0 .. MaxRedelivery]
    /\ repeated \in [Broadcast -> Nat]
    /\ astray \in BOOLEAN /\ leaked \in BOOLEAN
    /\ joins \in 0 .. MaxEvents /\ leaves \in 0 .. MaxEvents /\ faults \in 0 .. MaxEvents

(***************************************************************************)
(* Two broadcasts of a bot are under way at a time only if one was left    *)
(* without its lock: the lock expired, the message was enqueued by a call  *)
(* that failed, or one that was over or still running was executed again.  *)
(* The lock, deleted by whoever ends, does not by itself let one in.       *)
(***************************************************************************)
OneAtATime ==
    ~ astray => Cardinality({b \in Broadcast : Underway(b)}) <= 1

(***************************************************************************)
(* The lock is not left behind: someone is going to delete it, but for a   *)
(* handler that died or could not, a task without its bot and one whose    *)
(* deletion of the lock failed.                                            *)
(***************************************************************************)
LockIsReleased ==
    lock => leaked \/ \E b \in Broadcast : Underway(b) \/ b \in unacked

(***************************************************************************)
(* When an execution has enqueued its batches, every user who was active   *)
(* all the while is in one of them, whoever came and left between pages.   *)
(***************************************************************************)
NobodyIsMissed ==
    \A e \in Execution :
        exec[e].at = "wait" => exec[e].steady \subseteq UNION {x.users : x \in batch[e]}

(***************************************************************************)
(* No user gets more copies of a broadcast than its message and its        *)
(* batches were executed.                                                  *)
(***************************************************************************)
CopiesAreExplained ==
    \A b \in Broadcast, u \in User : copies[b][u] <= 1 + redelivered[b] + repeated[b]

(***************************************************************************)
(* The report: it tells of no more users than were sent the broadcast, and *)
(* of more than its total only if users came after the total was counted   *)
(* (the total is cached), so that only then its failures are negative.     *)
(***************************************************************************)
ReportAddsUp ==
    \A e \in Execution : exec[e].at = "ended" =>
        /\ exec[e].ok <= exec[e].total + (joins - exec[e].base)
        /\ exec[e].ok <= Cardinality({u \in User : copies[e[1]][u] > 0})

(***************************************************************************)
(* A broadcast that was enqueued ends, whatever the other executions in    *)
(* the slots of the worker wait for.                                       *)
(***************************************************************************)
BroadcastEnds ==
    \A b \in Broadcast : b \in queued ~> b \notin queued \union unacked
=============================================================================
