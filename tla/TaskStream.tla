----------------------------- MODULE TaskStream -----------------------------
(***************************************************************************)
(* The task queue (task_queue/): a Redis stream with a consumer group read *)
(* by the worker process, and the execution of suggestion_accepted, which  *)
(* posts an accepted suggestion to the channel and then tells its author.  *)
(*                                                                         *)
(* Delivery is at least once: a message is acknowledged when its result    *)
(* has been saved, the result of a failed task included; one that stays    *)
(* unacknowledged for too long, because the worker died or is slow, is     *)
(* claimed and executed again.  The messages of a suggestion are counted,  *)
(* and so are their executions at each stage.                              *)
(*                                                                         *)
(* The stream keeps 10 000 messages (maxlen in broker.py): a backlog that  *)
(* is longer loses the oldest of them, which is left out.                  *)
(***************************************************************************)
EXTENDS Naturals

CONSTANTS
    Task,          \* the tasks, one for each suggestion
    MaxRedelivery  \* bound: redeliveries, and so the crashes they make up for

ASSUME RedeliveryAssumption == MaxRedelivery \in Nat

VARIABLES
    ready,       \* messages in the stream not delivered yet
    unacked,     \* messages delivered and not acknowledged
    running,     \* executions before the post to the channel
    sent,        \* executions after it, before the author is told
    ended,       \* executions whose result is to be saved
    posts,       \* history: posts in the channel
    redelivered, \* history: deliveries beyond the first
    failed       \* history: a task ended with an exception before its post

taskVars == <<ready, unacked, running, sent, ended, posts, redelivered, failed>>

Zero == [x \in Task |-> 0]
Inc(f, x) == [f EXCEPT ![x] = @ + 1]
Dec(f, x) == [f EXCEPT ![x] = @ - 1]

TaskInit ==
    /\ ready = Zero /\ unacked = Zero /\ running = Zero /\ sent = Zero /\ ended = Zero
    /\ posts = Zero /\ redelivered = Zero /\ failed = {}

\* suggestion_accepted.kiq, on a stream whose backlog stays within its 10 000 messages: beyond
\* them XADD trims the oldest ones.
Enqueue(x) ==
    /\ ready' = Inc(ready, x)
    /\ UNCHANGED <<unacked, running, sent, ended, posts, redelivered, failed>>

\* Mutant: the message is acknowledged when it is received.
MutDeliver(x) ==
    /\ ready[x] > 0
    /\ ready' = Dec(ready, x)
    /\ running' = Inc(running, x)
    /\ UNCHANGED <<unacked, sent, ended, posts, redelivered, failed>>

Deliver(x) ==
    /\ ready[x] > 0
    /\ ready' = Dec(ready, x)
    /\ unacked' = Inc(unacked, x)
    /\ running' = Inc(running, x)
    /\ UNCHANGED <<sent, ended, posts, redelivered, failed>>

(***************************************************************************)
(* A message idle for too long is claimed; its first execution may be dead *)
(* or still under way.                                                     *)
(***************************************************************************)
Redeliver(x) ==
    /\ unacked[x] > 0 /\ redelivered[x] < MaxRedelivery
    /\ redelivered' = Inc(redelivered, x)
    /\ running' = Inc(running, x)
    /\ UNCHANGED <<ready, unacked, sent, ended, posts, failed>>

(***************************************************************************)
(* send_suggestion to the channel: it is posted; or it is not and the task *)
(* fails (no bot context, a channel the bot was removed from); or it is    *)
(* and the answer of Telegram is lost, which fails the task as well.       *)
(***************************************************************************)
Post(x) ==
    /\ running[x] > 0
    /\ running' = Dec(running, x)
    /\ \/ posts' = Inc(posts, x) /\ sent' = Inc(sent, x) /\ UNCHANGED <<ended, failed>>
       \/ failed' = failed \union {x} /\ ended' = Inc(ended, x) /\ UNCHANGED <<posts, sent>>
       \/ posts' = Inc(posts, x) /\ ended' = Inc(ended, x) /\ UNCHANGED <<sent, failed>>
    /\ UNCHANGED <<ready, unacked, redelivered>>

\* Mutant: a task that failed to reach the author is executed again.
MutNotifyAuthor(x) ==
    /\ sent[x] > 0
    /\ sent' = Dec(sent, x)
    /\ \/ ended' = Inc(ended, x) /\ UNCHANGED running
       \/ running' = Inc(running, x) /\ UNCHANGED ended
    /\ UNCHANGED <<ready, unacked, posts, redelivered, failed>>

\* send_text to the author; a failure ends the task all the same.
NotifyAuthor(x) ==
    /\ sent[x] > 0
    /\ sent' = Dec(sent, x)
    /\ ended' = Inc(ended, x)
    /\ UNCHANGED <<ready, unacked, running, posts, redelivered, failed>>

\* The result is saved and the message acknowledged, if it still is to be.
Ack(x) ==
    /\ ended[x] > 0
    /\ ended' = Dec(ended, x)
    /\ unacked' = IF unacked[x] > 0 THEN Dec(unacked, x) ELSE unacked
    /\ UNCHANGED <<ready, running, sent, posts, redelivered, failed>>

\* The worker dies in an execution, at any stage of it.
WorkerCrash(x) ==
    /\ redelivered[x] < MaxRedelivery
    /\ \/ running[x] > 0 /\ running' = Dec(running, x) /\ UNCHANGED <<sent, ended>>
       \/ sent[x] > 0 /\ sent' = Dec(sent, x) /\ UNCHANGED <<running, ended>>
       \/ ended[x] > 0 /\ ended' = Dec(ended, x) /\ UNCHANGED <<running, sent>>
    /\ UNCHANGED <<ready, unacked, posts, redelivered, failed>>

WorkerStep(x) == Deliver(x) \/ Post(x) \/ NotifyAuthor(x) \/ Ack(x)

TaskNext == \E x \in Task : WorkerStep(x) \/ Redeliver(x) \/ WorkerCrash(x)
=============================================================================
