---------------------------- MODULE UpdateServer ----------------------------
(***************************************************************************)
(* The web process: the webhook endpoint looks for the userbot of an       *)
(* update, in Redis before the database, gets its Bot instance, and the    *)
(* update waits for one of the permits of the endpoint and is handled in a *)
(* task of its own.                                                        *)
(*                                                                         *)
(* The parts of an album are updates of their own.  MediaGroupMiddleware   *)
(* collects them: each pushes itself to a list in Redis; the one that sets *)
(* the lock waits a moment, reads the list, handles the album and deletes  *)
(* list and lock; the others end.  They hold a permit while they do.       *)
(*                                                                         *)
(* A shutdown cancels all tasks and waits for them; a crash does neither.  *)
(* Redis survives both.                                                    *)
(***************************************************************************)
EXTENDS Naturals, FiniteSets, SequencesExt

CONSTANTS
    Part,        \* updates that are the parts of one album
    Other,       \* other updates
    Bot,
    BotOf,       \* BotOf[u]: the userbot an update is for
    CacheSize,   \* bot_cache_max_size
    Permits,     \* webhook.max_concurrent_updates
    MaxFaults,   \* bound: handlers or calls of Redis that fail, locks that expire under
                 \* their holder, stops
    MaxToken     \* bound: none is replaced any more once a userbot has had so many

Update == Part \union Other
Token == 0 .. MaxToken
NoToken == MaxToken + 1
Instance == [bot : Bot, token : Token]

ASSUME UpdateAssumption == Part \intersect Other = {} /\ BotOf \in [Update -> Bot]
ASSUME SizeAssumption == CacheSize \in Nat \ {0} /\ Permits \in Nat \ {0}
ASSUME BoundAssumption == MaxFaults \in Nat /\ MaxToken \in Nat

VARIABLES
    server,     \* "up", "stopping" from the cancelling of its tasks on, "closed"
    at,         \* the request or the task of each update
    botToken,   \* the token of the row it was handed, later of its Bot instance
    entry,      \* the row of a userbot in Redis, by its token, when it is switched on
    cache,      \* BotCache, the one used last at the end
    list, lock, \* the album in Redis
    album,      \* what the task that set the lock has read
    active,     \* userbots switched on
    token,      \* token in the row of a userbot
    live,       \* its token that Telegram accepts
    handled,    \* history: how often a part was in what a handler was given and did
    late,       \* history: parts whose push was deleted, or found the lock set and no reader to come
    reread,     \* history: parts that set the lock after an album with them was read
    spoiled,    \* history: updates of handlers that failed, or were cancelled, with their albums
    outlived,   \* history: a lock expired under its holder
    overtaken,  \* history: updates that had a token when it was replaced in the row
    misled,     \* history: updates that were handed a row from Redis whose token was replaced
    wronged,    \* history: updates that switched a userbot with a valid token off
    faults      \* history: their number

redis == <<list, lock>>
rows == <<entry, active, token, live>>
bots == <<cache, rows>>
history == <<handled, late, reread, spoiled, outlived, overtaken, misled, wronged, faults>>
vars == <<server, at, botToken, bots, redis, album, history>>

Init ==
    /\ server = "up"
    /\ at = [u \in Update |-> "none"]
    /\ botToken = [u \in Update |-> 0]
    /\ entry = [b \in Bot |-> NoToken]
    /\ cache = <<>>
    /\ list = {} /\ lock = FALSE
    /\ album = [p \in Part |-> {}]
    /\ active = Bot
    /\ token = [b \in Bot |-> 0] /\ live = [b \in Bot |-> 0]
    /\ handled = [u \in Update |-> 0]
    /\ late = {} /\ reread = {} /\ spoiled = {} /\ outlived = FALSE
    /\ overtaken = {} /\ misled = {} /\ wronged = {} /\ faults = 0

InSection == {"push", "lock", "sleep", "handle", "clear", "unlock"}
Runs(u) == at[u] \in InSection \union {"waiting"}
Underway(u) == Runs(u) \/ at[u] \in {"loaded", "read"}
Goto(u, label) == at' = [at EXCEPT ![u] = label]
Fault == faults < MaxFaults /\ faults' = faults + 1

\* What the handler of u works on: the album it was given, or its own message.
\* Mutant: the handler does not look at the album.
MutSubject(u) == {u}

Subject(u) == IF u \in Part /\ album[u] # {} THEN album[u] ELSE {u}
-----------------------------------------------------------------------------
(***************************************************************************)
(* BotResolver.get_or_create and BotCache: an instance is used again if it *)
(* has the token of the row; the one used longest ago makes way.           *)
(***************************************************************************)
Cached(b) == {i \in DOMAIN cache : cache[i].bot = b}
Without(b) == IF Cached(b) = {} THEN cache ELSE RemoveAt(cache, CHOOSE i \in Cached(b) : TRUE)

Evict(s) == IF Len(s) > CacheSize THEN Tail(s) ELSE s

\* Mutant: the token is not compared.
MutGetOrCreate(b, t) ==
    IF Cached(b) # {} THEN cache[CHOOSE i \in Cached(b) : TRUE] ELSE [bot |-> b, token |-> t]

GetOrCreate(b, t) ==
    IF \E i \in Cached(b) : cache[i].token = t
    THEN cache[CHOOSE i \in Cached(b) : TRUE]
    ELSE [bot |-> b, token |-> t]

Keep(instance) == cache' = Evict(Append(Without(instance.bot), instance))

(***************************************************************************)
(* _handle of the endpoint: the row of the userbot, from Redis or from the *)
(* database, whence Redis is filled after the commit, if that succeeds;    *)
(* when it says the userbot is on, the instance and the task.  A row that  *)
(* says it is off is not kept here: nothing in this module switches on.    *)
(***************************************************************************)
Look(u) ==
    LET b == BotOf[u]
    IN  /\ server = "up" /\ at[u] = "none"
        /\ \/ /\ entry[b] # NoToken
              /\ botToken' = [botToken EXCEPT ![u] = entry[b]]
              /\ misled' = IF entry[b] = token[b] THEN misled ELSE misled \union {u}
              /\ Goto(u, "read")
           \/ /\ entry[b] = NoToken /\ b \in active
              /\ botToken' = [botToken EXCEPT ![u] = token[b]]
              /\ UNCHANGED misled
              /\ Goto(u, "loaded")
        /\ UNCHANGED <<server, bots, redis, album, handled, late, reread, spoiled, outlived,
                       overtaken, wronged, faults>>

Accept(u) ==
    LET b == BotOf[u]
        instance == GetOrCreate(b, botToken[u])
    IN  /\ server = "up" /\ at[u] \in {"loaded", "read"}
        /\ entry' = IF at[u] = "loaded" THEN [entry EXCEPT ![b] = botToken[u]] ELSE entry
        /\ Keep(instance)
        /\ botToken' = [botToken EXCEPT ![u] = instance.token]
        /\ Goto(u, "waiting")
        /\ UNCHANGED <<server, active, token, live, redis, album, history>>

(***************************************************************************)
(* The entry of a userbot is deleted: by whoever wrote to the row, some    *)
(* time after the commit if at all, or by its expiry.                      *)
(***************************************************************************)
Drop(b) ==
    /\ entry[b] # NoToken
    /\ entry' = [entry EXCEPT ![b] = NoToken]
    /\ UNCHANGED <<server, at, botToken, cache, active, token, live, redis, album,
                   history>>

\* Mutant: a handler that fails keeps its permit.
MutHasPermit(u) == at[u] \in InSection \/ u \in spoiled

HasPermit(u) == at[u] \in InSection

Acquire(u) ==
    /\ at[u] = "waiting"
    /\ Cardinality({v \in Update : HasPermit(v)}) < Permits
    /\ Goto(u, IF u \in Part THEN "push" ELSE "handle")
    /\ UNCHANGED <<server, botToken, bots, redis, album, history>>
-----------------------------------------------------------------------------
\* A call of Redis fails, with or without effect, and the task with it.
Fails(p) ==
    /\ Fault
    /\ Goto(p, "done")
    /\ spoiled' = spoiled \union Subject(p)

\* RPUSH
Push(p) ==
    /\ at[p] = "push"
    /\ \/ Goto(p, "lock") /\ list' = list \union {p} /\ UNCHANGED <<spoiled, faults>>
       \/ Fails(p) /\ list' \in {list, list \union {p}}
    /\ UNCHANGED <<server, botToken, bots, lock, album,
                   handled, late, reread, outlived, overtaken, misled, wronged>>

\* SET NX
SetLock(p) ==
    /\ at[p] = "lock" /\ ~ lock
    /\ lock' = TRUE
    /\ Goto(p, "sleep")
    /\ reread' = IF \E q \in Part : p \in album[q] THEN reread \union {p} ELSE reread
    /\ late' = IF p \in list THEN late ELSE late \union {p}
    /\ UNCHANGED <<server, botToken, bots, list, album,
                   handled, spoiled, outlived, overtaken, misled, wronged, faults>>

FindLock(p) ==
    /\ at[p] = "lock" /\ lock
    /\ Goto(p, "done")
    /\ late' = IF p \in list /\ (\E q \in Part : at[q] = "sleep") THEN late ELSE late \union {p}
    /\ UNCHANGED <<server, botToken, bots, redis, album,
                   handled, reread, spoiled, outlived, overtaken, misled, wronged, faults>>

LoseLock(p) ==
    /\ at[p] = "lock"
    /\ Fails(p) /\ lock' \in {lock, TRUE}
    /\ UNCHANGED <<server, botToken, bots, list, album,
                   handled, late, reread, outlived, overtaken, misled, wronged>>

(***************************************************************************)
(* LRANGE.  A list that cannot be parsed is deleted, and the album is      *)
(* empty; when the call fails there is nothing to handle.                  *)
(***************************************************************************)
Read(p) ==
    /\ at[p] = "sleep"
    /\ \/ /\ Goto(p, "handle")
          /\ album' = [album EXCEPT ![p] = list]
          /\ UNCHANGED <<list, spoiled, faults>>
       \/ /\ Fault
          /\ Goto(p, "handle")
          /\ list' = {}
          /\ spoiled' = spoiled \union list
          /\ UNCHANGED album
       \/ /\ Fault
          /\ Goto(p, "clear")
          /\ spoiled' = spoiled \union list \union {p}
          /\ UNCHANGED <<list, album>>
    /\ UNCHANGED <<server, botToken, bots, lock,
                   handled, late, reread, outlived, overtaken, misled, wronged>>

(***************************************************************************)
(* The handler, with the Bot instance in the context of its task, does its *)
(* work or fails.  Without a valid token it fails, and the error handler   *)
(* switches the userbot of that instance off.                              *)
(***************************************************************************)
Current(u) == [bot |-> BotOf[u], token |-> botToken[u]]

AfterHandle(u) == IF u \in Part THEN "clear" ELSE "done"

Handle(u) ==
    /\ at[u] = "handle" /\ Current(u).token = live[BotOf[u]]
    /\ Goto(u, AfterHandle(u))
    /\ \/ /\ handled' = [v \in Update |-> IF v \in Subject(u) THEN handled[v] + 1 ELSE handled[v]]
          /\ UNCHANGED <<spoiled, faults>>
       \/ /\ Fault
          /\ spoiled' = spoiled \union Subject(u)
          /\ UNCHANGED handled
    /\ UNCHANGED <<server, botToken, bots, redis, album, late, reread, outlived,
                   overtaken, misled, wronged>>

UserbotTokenInvalid(u) ==
    LET b == Current(u).bot
    IN  /\ at[u] = "handle" /\ Current(u).token # live[b]
        /\ Goto(u, AfterHandle(u))
        /\ active' = active \ {b}
        /\ cache' = Without(b)
        /\ spoiled' = spoiled \union Subject(u)
        /\ wronged' = IF token[b] = live[b] THEN wronged \union {u} ELSE wronged
        /\ UNCHANGED <<server, botToken, entry, token, live, redis, album,
                       handled, late, reread, outlived, overtaken, misled, faults>>

\* finally: the list, then the lock; both stay if that fails, or the lock does.
\* Mutant: the list is left to expire.
MutClear(p) ==
    /\ at[p] = "clear"
    /\ Goto(p, "unlock")
    /\ UNCHANGED <<server, botToken, bots, redis, album, history>>

Clear(p) ==
    /\ at[p] = "clear"
    /\ \/ Goto(p, "unlock") /\ list' = {} /\ UNCHANGED <<spoiled, faults>>
       \/ Fails(p) /\ list' \in {list, {}}
    /\ UNCHANGED <<server, botToken, bots, lock, album,
                   handled, late, reread, outlived, overtaken, misled, wronged>>

Unlock(p) ==
    /\ at[p] = "unlock"
    /\ Goto(p, "done")
    /\ \/ lock' = FALSE /\ UNCHANGED faults
       \/ Fault /\ UNCHANGED lock
    /\ UNCHANGED <<server, botToken, bots, list, album,
                   handled, late, reread, spoiled, outlived, overtaken, misled, wronged>>

(***************************************************************************)
(* The keys expire fifteen seconds after the first part or the last one:   *)
(* later than the list is read.                                            *)
(***************************************************************************)
Collecting == \E p \in Part : at[p] \in {"lock", "sleep"}

LockExpires ==
    /\ lock /\ ~ Collecting
    /\ lock' = FALSE
    /\ IF \E p \in Part : at[p] \in {"handle", "clear", "unlock"}
       THEN Fault /\ outlived' = TRUE
       ELSE UNCHANGED <<faults, outlived>>
    /\ UNCHANGED <<server, at, botToken, bots, list, album,
                   handled, late, reread, spoiled, overtaken, misled, wronged>>

ListExpires ==
    /\ list # {} /\ ~ Collecting
    /\ list' = {}
    /\ UNCHANGED <<server, at, botToken, bots, lock, album, history>>
-----------------------------------------------------------------------------
(***************************************************************************)
(* shutdown of the endpoint cancels the tasks; a request that was not      *)
(* answered is made again.  A task in its try block deletes its keys; one  *)
(* that still waits for the answer to SET is not in it, and one that was   *)
(* deleting them does not go on.                                           *)
(***************************************************************************)
Interrupted ==
    {u \in Update : Runs(u)}
        \union (UNION {Subject(u) : u \in {v \in Update : at[v] \in {"handle", "clear"}}})
        \union (IF \E p \in Part : at[p] = "sleep" THEN list ELSE {})

Dropped(u) == IF Runs(u) THEN "done" ELSE IF Underway(u) THEN "none" ELSE at[u]

Shutdown ==
    /\ server = "up" /\ Fault
    /\ server' = "stopping"
    /\ \E tried \in SUBSET {p \in Part : at[p] = "sleep"} :
          at' = [u \in Update |->
              IF u \in tried \/ (u \in Part /\ at[u] = "handle") THEN "clear" ELSE Dropped(u)]
    /\ spoiled' = spoiled \union Interrupted
    /\ UNCHANGED <<botToken, bots, redis, album,
                   handled, late, reread, outlived, overtaken, misled, wronged>>

\* The tasks have ended; the container and the sessions of the bots are closed.
Close ==
    /\ server = "stopping" /\ \A u \in Update : ~ Runs(u)
    /\ server' = "closed"
    /\ UNCHANGED <<at, botToken, bots, redis, album, history>>

Crash ==
    /\ server = "up" /\ Fault
    /\ server' = "closed"
    /\ at' = [u \in Update |-> Dropped(u)]
    /\ spoiled' = spoiled \union Interrupted
    /\ UNCHANGED <<botToken, bots, redis, album,
                   handled, late, reread, outlived, overtaken, misled, wronged>>

Start ==
    /\ server = "closed"
    /\ server' = "up"
    /\ cache' = <<>>
    /\ UNCHANGED <<at, botToken, rows, redis, album, history>>
-----------------------------------------------------------------------------
(***************************************************************************)
(* BotFather replaces a token.  The owner has one saved that was valid     *)
(* when it was probed, the older of two last if they overlap; then, if the *)
(* userbot was on, its instance is made anew.                              *)
(***************************************************************************)
Revoke(b) ==
    /\ \A c \in Bot : live[c] < MaxToken
    /\ live' = [live EXCEPT ![b] = @ + 1]
    /\ UNCHANGED <<server, at, botToken, cache, entry, active, token, redis, album,
                   history>>

SaveToken(b) ==
    /\ server = "up"
    /\ \E t \in 0 .. live[b] :
          /\ t # token[b] /\ IF t < token[b] THEN Fault ELSE UNCHANGED faults
          /\ token' = [token EXCEPT ![b] = t]
          /\ Keep([bot |-> b, token |-> t]) \/ UNCHANGED cache
    /\ overtaken' = overtaken \union {u \in Update : Underway(u) /\ BotOf[u] = b}
    /\ UNCHANGED <<server, at, botToken, entry, active, live, redis, album,
                   handled, late, reread, spoiled, outlived, misled, wronged>>
-----------------------------------------------------------------------------
PartStep(p) ==
    \/ Push(p) \/ SetLock(p) \/ FindLock(p) \/ LoseLock(p)
    \/ Read(p) \/ Clear(p) \/ Unlock(p)

TaskStep(u) ==
    Acquire(u) \/ Handle(u) \/ UserbotTokenInvalid(u) \/ (u \in Part /\ PartStep(u))

Next ==
    \/ \E u \in Update : Look(u) \/ Accept(u) \/ TaskStep(u)
    \/ LockExpires \/ ListExpires
    \/ Shutdown \/ Close \/ Crash \/ Start
    \/ \E b \in Bot : Drop(b) \/ Revoke(b) \/ SaveToken(b)

Spec == Init /\ [][Next]_vars

\* Tasks go on; a permit goes to those who wait for it in turn.
LiveSpec == Spec /\ \A u \in Update : WF_vars(TaskStep(u)) /\ SF_vars(Acquire(u))
-----------------------------------------------------------------------------
Quiet == \A u \in Update : ~ Runs(u)

TypeOK ==
    /\ server \in {"up", "stopping", "closed"}
    /\ at \in [Update -> InSection \union {"none", "loaded", "read", "waiting", "done"}]
    /\ botToken \in [Update -> Token]
    /\ entry \in [Bot -> Token \union {NoToken}]
    /\ cache \in Seq(Instance) /\ Len(cache) <= CacheSize
    /\ \A i, j \in DOMAIN cache : cache[i].bot = cache[j].bot => i = j
    /\ list \subseteq Part /\ lock \in BOOLEAN
    /\ album \in [Part -> SUBSET Part]
    /\ active \subseteq Bot /\ token \in [Bot -> Token] /\ live \in [Bot -> Token]
    /\ handled \in [Update -> Nat]
    /\ late \subseteq Part /\ reread \subseteq Part /\ spoiled \subseteq Update
    /\ outlived \in BOOLEAN
    /\ overtaken \subseteq Update /\ misled \subseteq Update /\ wronged \subseteq Update
    /\ faults \in 0 .. MaxFaults

(***************************************************************************)
(* When all tasks have ended, every part was handled, but for those of a   *)
(* handler or a call of Redis that failed or was cancelled, and for those  *)
(* that came when the list had been read, deleted or left by its reader.   *)
(* A lock that expires under its holder makes two holders, one of which    *)
(* deletes the other's list.                                               *)
(***************************************************************************)
PartsAreHandled ==
    (Quiet /\ ~ outlived) =>
        \A p \in Part : at[p] = "done" => handled[p] > 0 \/ p \in late \/ p \in spoiled

(***************************************************************************)
(* No part is handled twice, but for a lock that expired under its holder, *)
(* for a part so slow that it set the lock after its album was read, and   *)
(* for a list that a task could not delete, for the server stopped or      *)
(* Redis failed.                                                           *)
(***************************************************************************)
PartsAreHandledOnce ==
    ~ outlived => \A p \in Part : handled[p] <= 1 \/ p \in reread \/ p \in spoiled

(***************************************************************************)
(* A userbot whose token is valid is switched off as unauthorized only by  *)
(* an update that was on its way or running when its token was replaced,   *)
(* or that was handed a row from Redis still with the old one; any other   *)
(* works with the new token, whatever instance was cached.                 *)
(***************************************************************************)
OnlyOvertakenUpdatesSwitchOff == wronged \subseteq overtaken \union misled

(***************************************************************************)
(* Every update that was accepted ends, although parts of albums wait with *)
(* a permit in hand for others to come.                                    *)
(***************************************************************************)
AcceptedEnds == \A u \in Update : at[u] = "waiting" ~> at[u] = "done"
=============================================================================
