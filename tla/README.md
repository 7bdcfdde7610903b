# Verification of Kita

Kita is a service for suggestion bots on Telegram: an owner registers a bot (a
*userbot*) and a channel, users send the bot suggestions, admins accept or
decline them one after the other, and what is accepted is posted to the channel.
One web process handles the updates of all the userbots, any number of handlers
at a time, and a worker process runs the tasks that were put on a Redis stream.
Postgres holds the rows; Redis holds a read-through cache of them, the FSM data
of every chat, the rate limits and the stream.

This directory models the parts of it that are hard to test: TLA+ modules, the
TLC configurations that check them on small instances, and proofs, checked by
TLAPS, of what holds for every instance. `PROJECT.json` maps every definition to
the lines it is translated from; paths below are relative to `src/src/`.

## Inventory

| Component | State | Operations | Hard behaviour |
|---|---|---|---|
| Unit of work and read-through cache (`database/uow.py`, `database/redis/`, `database/repository/cached/`) | rows, cache entries with a TTL, the journal of a request | nested `transaction()`, `_cache_or_load`, `update`, `get_or_create`, flush after COMMIT | late fills, failed or lost invalidations, commit without an answer, cancellation |
| Users and their profiles (`middlewares/user.py`, `middlewares/ban.py`, `usecases/register_user.py`, `routers/shared_handlers.py`, `routers/user/menu/handlers.py`) | two rows of a user, their cached DTOs, the DTO of each update | registration, change of name, block of the bot, role, language, anonymity | a DTO is saved twice and never forgets its changes; updates of a user interleave |
| Moderation (`usecases/moderate_suggestion.py`, `ui/suggestion_*.py`, `routers/admin/suggestions/`) | suggestion rows, FSM state and data of each admin | submit, enter the viewer, verdict, advance, return to the menu | `update_data` is a read and a write, two admins, double taps, failures between awaits |
| Roles and bans (`usecases/change_role.py`, `routers/admin/user_moderation/`, `usecases/ub_demote_admins.py`) | roles | change of role, ban, demotion of all admins | a ban against submissions and verdicts, row locks |
| Publication and notifications (`task_queue/`) | stream, executions | `kiq`, deliver, claim, post, tell the author, acknowledge | at-least-once delivery, crashes of either process |
| Limit of a user's updates (`core/rate_limiters/limiter.py`) | token bucket, pause | `attempt` | expiry of keys, rounding, one warning only |
| Pacing of API calls (`core/rate_limiters/tg_api.py`, `session_middlewares.py`) | GCRA budgets of a bot and its chats | reserve, sleep, send, retry | many coroutines, expiry, flood answers |
| Life cycle of userbots (`usecases/ub_*.py`, `routers/system/chat_member.py`, `routers/master/`, `services/webhooks.py`, `task_queue/tasks/userbot.py`) | `active`, token, channel, webhook at Telegram | register, toggle, update token and channel, demotion, invalid token | database, webhook and bot cache are written one after the other by handlers that interleave |
| Broadcast (`usecases/broadcast.py`, `task_queue/tasks/broadcast.py`, `task_queue/middlewares.py`) | a lock in Redis, executions, batches, the context of each task | lock, enqueue, page, send batches, collect, report, unlock | expiry of the lock, redelivery beside a running execution, slots of the worker, users that come and go between pages |
| Albums (`middlewares/media_group.py`, `database/redis/repos.py`) | list and lock of a media group | push, lock, wait, read, delete | parts that arrive late, cancellation, expiry |
| Bot instances (`services/bots/`) | LRU cache, the bot of the current task | get or create, evict, remove | eviction in use, tokens that changed |
| Webhook endpoint (`web/endpoints/`, `lifespan.py`) | running tasks, permits | accept, feed, shut down, start | cancellation at shutdown, the limit of concurrent updates |
| Dialogs (`routers/*/dialog.py`, `ui/state_groups.py`, `ui/widgets/`) | a stack of contexts per chat, the window on the screen, the FSM state of the viewer | start, switch, select, act, confirm, messages, viewer | late and double taps, contexts read before the lock, roles that change while windows are open |
| Messages, configuration, wiring, encryption, migrations | none over time | | |

They interact in four ways. A handler calls services, repositories and the unit
of work of its own request scope. Handlers share Postgres (row locks), the
cache and the FSM data. aiogram-dialog locks the stack of dialogs of a user and a
chat while a message or a tap is handled, and there is one web process; `Dialogs`
and `UserbotLifecycle` (chat by chat) have this lock, `Moderation` does without. The web process reaches the worker through the stream only. Both
call Telegram, the worker through the pacing, both through the flood retries.

What makes each of them correct, and what can go wrong in it, is the list of
`hazards` in `PROJECT.json`, each at its line and with the properties about it.

## Modules

| Module | Models |
|---|---|
| `ReadThrough` | abstract: what is promised of a cache in front of a database |
| `CacheCoherence` | unit of work, journal, cached repositories; rows are versions; implements `ReadThrough` |
| `UserColumns` | the columns of a user's rows, who writes them, and their cached copies |
| `SuggestionLifecycle` | abstract: what is promised of a suggestion |
| `Moderation` | suggestions, viewer, roles and bans in the web process; implements `SuggestionLifecycle` |
| `TaskStream` | the stream and the worker's `suggestion_accepted` |
| `SuggestionPipeline` | `Moderation` and `TaskStream` composed: from the submission to the channel |
| `UserbotLifecycle` | userbots of an owner: registration, switch, token, channel, webhook, rights |
| `RedisClock` | the clock both limiters read, and `math.ceil` |
| `UserLimiter` | `BUCKET_SCRIPT` |
| `TgApiLimiter` | `RESERVE_SCRIPT`, `PaceRequests`, `RetryFloodControl` |
| `Broadcast` | lock, task, batches, slots and redelivery of a broadcast |
| `UpdateServer` | endpoint, permits, Bot instances, albums, shutdown and start |
| `Dialogs` | the menus of userbots and registrar, one chat |
| `MC*` | instances for TLC |
| `*_proofs` | theorems; `SuggestionPipeline_proofs` has those about `Moderation` too, `RateLimiters_proofs` those about both limiters |

Operators whose name begins with `Mut` are variants of the operator below them
with a plausible bug; nothing uses them but the check that each property can
tell such a bug from the code.

### CacheCoherence

A session is a request scope. Rows hold *versions*, a fresh number per write
(`0`: no row), and a cache entry is the vector of versions it was computed from;
so uncommitted, rolled-back and outdated contents are all distinguishable.
`Begin`, `EnterNested`, `ExitNested`, `Commit`, `Rollback` and `EndTransaction`
are the branches of `UnitOfWork.transaction`; `Update` is a write with the
invalidations of its repository; `GetMiss`, then one of `LoadInTransaction`,
`LoadOrCreate`, `LoadOutside` and `Store`, is `_cache_or_load`, with a step per
server it talks to; `FlushOp` applies one journalled operation or drops it, as
the code does when Redis refuses it. `CommitUnacknowledged` is a commit that
raises though it took place; `Cancel` is an exception that no `except Exception`
sees (cancellation at shutdown), and a crash. `Expire` is the TTL. A hit changes
nothing and so is no action.

Which rows a key is computed from, and which keys a write of a row invalidates,
are the constants `Reads` and `Invalidates`: in the code a profile embeds its
user row and is not invalidated by an update of it, and a count is invalidated by
nothing. The history variables `committed`, `issued`, `durable`, `aborted` and
`tainted` record what the properties speak of and guard nothing.

`ReadThrough` knows neither sessions nor journals: a commit publishes fresh
versions of all its rows in one step and puts every key that follows them in
doubt, a fill writes an entry of committed versions, and a key leaves doubt only
when it is filled with the rows as they are or is deleted. The mapping has the
keys whose invalidation is due or was lost for those in doubt.

### Moderation

A handler is a job with a label, the await it is at; every await that reads or
writes shared state is one step (a statement, a COMMIT, an FSM read, an FSM
write, a message), and what the handler remembers in between is in its job.
`update_data` is two steps, `Load` and the write. `Judge` is the UPDATE that
finds the status still pending or not, with the row lock that makes another
handler wait; `CommitVerdict`, then `Dispatch`, is the order of
`ModerateSuggestionUseCase`. `DeclineSuggestion` and `DeclineRow` are the UPDATE
of a ban, which selects its rows when it starts and looks at each again when it
gets the lock. `Enter`, `SetInViewer`, `GetQueue`, `Refetch`, `SeedQueue`, `Pop`,
`FromQueue`, `SendToAdmin` and `SetCurrent` are the queue and the viewer. `Fail` ends a
handler at any await. Updates of one chat are handled at a time in the code, as
aiogram-dialog locks the stack of the chat; here they interleave like any others,
which only allows more. Suggestions are numbered as the sequence of Postgres does.
`RoleMenu` bounds which roles the moderation menu sets in an instance: the ban
button of the viewer is there in any case. Not in the model: albums, the texts of
messages, the dialogs, and the caching of the profiles: a role is read from the
row (`CacheCoherence` says when an entry is stale, `UserColumns` and `Dialogs`
what comes of it).

### UserColumns

Both rows of a user are one record, as the repository joins them; a cached entry
is a part of it. A request is an update of the user: `Arrive`, then the use case
of `UserMiddleware` (`Read`, or `Insert` and `ReadAfterInsert` for a new user),
`Commit` with the save and the flush of the journal, which does not fail here,
the ban check, and the
handler (`Nothing`, `PreferAnonToggle`, `LanguageSelected`). Its DTO keeps the
set of columns that were assigned and never forgets one (`base.py:32`), so the
second save writes those of the first again. `BlockArrive`/`OnUserBlockBot` is
the update about a blocked bot, `ChangeRole` an admin. `said` and `decided`
record what the row ought to hold. Both rows are inserted together: a user known
from another userbot, with a row of the user and none of the profile, is left
out. `late` the columns of entries stored after
the row had changed; `excused` the columns that may be behind for one of the two
reasons *RowFollows* names.

### TaskStream and SuggestionPipeline

Messages and executions are counted, per suggestion and per stage. Delivery,
claiming and acknowledgement are taskiq-redis, modelled as `task_queue/broker.py`
configures it (acknowledged when the result is saved, whether or not the task
raised); `Post` and `NotifyAuthor` are the two sends of `suggestion_accepted`,
each of which may fail or, for the post, succeed without an answer. The stream
keeps 10 000 messages (`maxlen`): a longer backlog would lose the oldest, and is
left out.
`SuggestionPipeline` EXTENDS both modules; their one shared step is `Dispatch`
with `Enqueue`.

### UserbotLifecycle

The columns of a row are variables of their own, since `save` writes only those
that were assigned; what Telegram knows of a userbot is `hook`, `live` (the one
token it accepts), `rights` and `pending` (losses of rights not delivered yet).
`owner` has, for each chat of the owner with the registrar, the dialog and the
await its handler is at: a use case is
read, probe, then webhook and save in the order of its code (`Off` before
`OffSave`, `On` before `OnSave`, `SaveToken` before `Refresh`). `SetWebhook` does
nothing when the URL is set already and drops what waits when it is not. `update`
holds the updates of userbots being handled, each with the token of the instance
it runs with: `Deliver` and `DeliverLoss` are the endpoint, which skips the
updates of an inactive userbot; `Demote` and `DemoteRemoveWebhook` are
`on_userbot_demoted`, `TokenInvalid` the error handler. `task` is `new_userbot`
with its redelivery. `FailOwner`, `FailUpdate` and `WorkerCrash` are exceptions
and dying processes. No action sets the webhook of a userbot at a restart, as
`lifespan.py` sets that of the registrar only.

Events of the owner in one chat are handled one after the other: aiogram-dialog
locks the stack of dialogs of a user and a chat while one is handled, and there
is one web process. Those of two chats are not, and no router of the registrar
asks for a private chat: the owner may register, switch and change the same
userbots in several at a time. `Places` are the registrations that may still add
a userbot, and `crowded` records that there were two. Not in the model: the
instances in `BotCache` (`UpdateServer` has them), the column `banned` (nothing writes it), staleness of the cached row, a
second owner of one token, `webhook.force_update`.

### UserLimiter and TgApiLimiter

Each Lua script is one atomic step. Time is `RedisClock`, a counter of the precision with
which Lua's `tostring` stores a time in Redis (0.1 ms at today's dates); the
rounding to it is left out, that of waits to milliseconds and of times to live
to seconds is not. A key with a time to live is absent from `expires` on.
`UserLimiter.spending` and `TgApiLimiter.window` observe any one window: they start
at some allowed attempt, or slot, and count from there on, so that an invariant
about them is one about all the windows. In `TgApiLimiter` a call reserves
(`Request`, `Retry`), sleeps, sends (`Answered`, `Flooded`), backs off, and may be
cancelled anywhere.

### Broadcast

`Lock` and `Kiq` are `execute_broadcast`, `Deliver` and `Redeliver` the stream,
`Begin` and `End` `BotContextMiddleware` with the state it keeps by task id.
`Count`, `ReadPage`, `SendBatch`, `Gather`, `TimeOut` and `Fail` are the task;
`StartBatch` and `ExecuteBatch` a batch, which needs a slot of the same worker.
`Unlock` deletes the lock and `Abandon` leaves it, where the handler or the task
(`Kiq`, `Fail`, `Summarise`) makes a call of Redis that may raise. `LockExpires`
is the hour of the lock, `WorkerCrash` the death of the worker with all it
executes; `RepeatBatch` a batch that lasts longer than the idle time of the
stream and is executed beside itself: in one step, in a slot that is free, with a
result that replaces the first one or does not. In `ExecuteBatch` a batch sends
to whom it can, and to fewer when calls fail; `Join` and `Leave` change who is active between two pages. The
count is cached in the code, so `Count` may return an old one. `base` (the joins
before the count), `steady` (who was active all the while), `copies` and the
counters are history.

### UpdateServer

`Look` is the endpoint's transaction, which reads the row of the userbot through
the cache in Redis (`entry`): a hit may be from before a token was replaced
(`misled`), a miss fills the entry in `Accept`, some time after it was read.
`Accept` goes up to the task, with `BotResolver.get_or_create` and `Keep`, which
is `BotCache.put`. `Drop` is the end of an entry: its TTL or the flush of the
writer, which comes after the COMMIT or is lost; so an entry may be stale for as
long as it likes. Entries that say the userbot is off are left out, as nothing in
this module switches on. `Acquire` is the semaphore. The parts of an album go through
`MediaGroupMiddleware` in the steps of its calls to Redis: `Push`, `SetLock` or
`FindLock`, `Read`, then `Handle` or `UserbotTokenInvalid`, `Clear`, `Unlock`.
There is one album, as keys of different albums never meet. `Shutdown` cancels
the tasks, of which those in their `try` go on to `Clear`; `Close` waits for
them; `Crash` does not; `Start` begins with an empty cache while Redis still has
its keys. `Fails` is a call of Redis that raises, with or without effect, in
`Push`, `LoseLock`, `Read` and `Clear`; `Unlock` may fail too. `Revoke` and
`SaveToken` replace a token at BotFather and in the row, `SaveToken` with the new
instance of `ub_update_token.py`, made at once. `UserbotTokenInvalid` is the
update of the row and the removal of the instance in one step.
The latency of the middleware is well below the TTL of its keys, so that they do
not expire before the list is read; they may while the album is handled.

### Dialogs

`UserSwitches` to `Actions` are the buttons of every window, in the order of the
`dialog.py` files; `HiddenFromUsers` those with a `when` on the role. What the
user sees (`screen`) is a rendering of a context; `Tap` presses a button of it,
`Write` and `SendStart` send a message. The middlewares read the profile before
the handler's turn, through the cache (`entry`): `Hit` takes the role that Redis
has, `Miss` that of the row, and `Fill` stores what was read, late perhaps, or
does not; `Visit` is anybody else who looks the user up, and `Drop` the flush of
a writer or the TTL, at any time after a change of role or never. The profile of
the user exists already. `Show` ends a handler: the stack is saved
and its top rendered. There is one action for handlers that do the same to the
stack: `Select`, `Act`, `Confirm`, `Prepare` and so on name them. `Answer` is a
handler that only warns. A handler that raises saves nothing and is the same as
an update that never came.

aiogram-dialog (2.6.0) is external, modelled from how the code uses it: a dialog
with `LaunchMode.ROOT` takes the place of the stack; a tap on a context that is
not on top, or no more there, is refused (`Refuse`, answered by
`on_unknown_intent_or_state`); updates of a chat are handled one at a time; but
the context of a tap may have been read before its turn, and is then saved as it
was read (`Loaded`, `ReadBefore`). The history variable `raced` of a context
records that this has happened to it.

## Runs

| Run | Question | Bounds | States |
|---|---|---|---|
| `CacheCoherence` | Is what Redis holds committed, is a block all or nothing, why is an entry ever stale, does the cache catch up, and is it a read-through cache? | 2 sessions, a user and a profile row, the profile's entry and a count, 2 writes, nesting of 2 | 528 k |
| `UserColumns` | Does any save write a column somebody else decided, and do rows follow the user? | 2 updates at a time, 3 in all, 2 names, 2 languages, 1 block, 1 change of role | 2.0 M |
| `Moderation` | Is what is judged what was shown, does a ban empty the queue, is the lifecycle implemented? | 2 handlers, owner and author, 2 suggestions, pages of one (10 in the code, so that refills happen), bans from the viewer; the author promoted and demoted once, then one suggestion (`AdminBound`) | 3.5 M |
| `HandlerCompletes` | Does every handler end, row locks included? | 2 fair handlers, 1 suggestion, bans and unbans from the menu too | 299 k |
| `SuggestionPipeline` | Can anything but an accepted suggestion be in the channel, or one too often? Does every acceptance reach it? | 1 handler, 1 suggestion, 1 redelivery or crash | 512 k |
| `UserbotLifecycle` | Does an active userbot have its webhook and its rights, can an owner exceed the limit, is the owner an admin? | 2 chats with the registrar, a limit of 1 and 2 userbots, one of them only to be registered, 1 channel, 1 update at a time, 1 new token, failure or death of the worker (`Bound`) | 2.1 M |
| `LossDeactivates` | Does every loss of rights deactivate, as the repository's README says? Violated | 1 chat, 1 userbot, 1 channel, 1 update at a time, no failures | some 200 until the violation |
| `UserLimiter` | Rate, capacity and single warning | 3 tokens of 3 ticks, 40 ticks | 6.8 M |
| `TgApiLimiter` | Spread of slots, budget of sends | 2 calls, 1 chat, albums of 2, 1 retry, 10 ticks | 5.2 M |
| `Broadcast` | One at a time, everybody reached, how often, what is reported, does it end? | 2 broadcasts, 2 users, pages and batches of 1, 2 slots, 1 redelivery each, 1 event (join, leave, failure, expiry, a batch repeated or a crash) | 160 k |
| `UpdateServer` | Are the parts of an album handled, once? Who switches a userbot off? Does every update end? | an album of 2 parts, an update of another userbot, a cache of 1, 2 permits, 1 new token of the album's userbot, or 1 fault (failure, expiry, shutdown or crash) (`Bound`) | 126 k |
| `Dialogs` | Is the data there that a window works on, is the tapped thing the shown one, who can act? | all 22 windows, 2 targets, 2 updates under way, any change of role but a ban, of the profiles only an admin's in Redis (`Bound`) | 2.0 M |

Why these are enough: the interleavings in question are between two actors (a
writer and a filler, two handlers on a chat, a ban and a submission, two
coroutines on a budget, two executions of a broadcast, the reader of an album
and a late part, two taps); with two sessions, handlers or calls each pair of
steps is met in both orders, with failures at each, and with a further write,
update or suggestion an actor meets the leftovers of one that has gone. One
album of two parts has a part that collects and one that is late; one permit
less than updates makes them wait for each other; two slots are all taken by two
broadcasts. Bounds are in guards (`MaxVersion`, `MaxDepth`, `MaxUpdates`,
`MaxEvents`, `MaxRedelivery`, `MaxTime`, `MaxToken`, `MaxFaults`), in the size of
the sets, or in the CONSTRAINT of a run: `AdminBound` of `Moderation`, and
`Bound` of `UserbotLifecycle` (a new token or a fault, not both, and what the
spare userbot does beyond its registration), of `UpdateServer` (as the table
says) and of `Dialogs` (a banned user gets no further than the middlewares, and
the profile of one who is no admin misleads nobody). No property failed on the
larger instances that are too slow to keep: `Dialogs` without its `Bound` (5.8 M
states), the safety of `UpdateServer` without (1.3 M), `UserbotLifecycle`
without, with one userbot (9.9 M). With two chats and two userbots a run meets
the limit itself; that it is exceeded by at most one for each further chat is
for the proof. In `TgApiLimiter` times are whole milliseconds and seconds, so
that rounding is left to the proof as well. The
proofs remove the bounds for everything but liveness and the properties named
below.

`CHECK_DEADLOCK FALSE` where every suggestion, update or broadcast has been used,
or the clock is at its bound, and nothing is left to do. The sets of identical
sessions, handlers, calls and updates are symmetric; liveness runs use no
symmetry. Type invariants are run in `CacheCoherence`, where it says that no block
is left more often than entered, in `UserColumns` and in `Broadcast`, and are left
to the proofs elsewhere.

### What they show

- *CacheHoldsCommitted*, *AllOrNothing*: the journal does what `journal.py:20`
  says. No reader of Redis sees an open or rolled-back write, in whatever way
  the blocks nest and end.
- *StaleExplained*: the cache can be stale, for exactly three reasons: the
  writer is between COMMIT and flush; the entry was filled from a select older
  than the write (a fill that was overtaken); its invalidation was lost (a
  crash, a refused Redis call, a commit without an answer). Nothing else makes
  it stale, and *CacheConverges*: the TTL ends all three.
- *ImplementsReadThrough*: a transaction's keys are all in doubt from the moment
  its rows are public, and none gets out of doubt by a journal that is discarded,
  a session that is cancelled or a block that is nested.
- *NothingClobbered*, *RowFollows*, *TapsApply*, *BannedIsStopped*: DTOs are
  saved twice and overlap, but a save writes assigned columns only, and what
  `UserMiddleware` assigns (name, block) is what the user was last heard with.
  Name and block can be behind after two updates that say different things were
  handled at the same time; a tap may flip nothing if another one was handled
  beside it. No role, flag or language is ever written by who did not decide it.
- *JudgedWasShown*: however sends fail, queues are refilled and verdicts fall on
  one another, an admin only ever judges something sent to that admin before,
  because the suggestion becomes current after it was sent and is never taken
  from the queue. The lock of the chat is not needed for this.
- *BannedHasNothingPending*: a ban leaves nothing pending except what a
  submission commits that had passed the ban check before. This exception is
  real: `raced` is not empty in the runs.
- *ImplementsLifecycle*: one verdict per suggestion, one publication task per
  acceptance, none before it.
- *PostsAreAccepted*, *AcceptedIsPosted*: a suggestion is posted at most once
  per delivery, and is lost only if its handler died between COMMIT and `kiq`
  (`lost`) or its task raised (`failed`).
- *ActiveHasWebhook*: an active userbot with a good token has its webhook once
  nobody works on it, with two exceptions that the run reaches. `overtaken`: the
  owner switched it on, or was about to save that, while a demotion or a switching
  off in another chat went on, which then removed the webhook. `interrupted`: a failure after the row of a registration, between
  the removal of the webhook and the save of the switch, or after a new token.
  Nothing repairs either but the owner, by switching off and on.
- *LossDeactivates* and *LossExplained*: the README of the repository promises
  deactivation upon the loss of rights. The run `LossDeactivates` shows that this
  does not hold when rights change at any time: a loss between the probe of a
  registration and the webhook set by `new_userbot` is dropped with
  `drop_pending_updates`. *LossExplained* is what holds: the loss came while
  somebody worked on the userbot or while it had no webhook (`missed`), or the
  handler of the loss or a switching off failed.
- *WithinLimit*, *OwnerIsAdmin*: the limit is looked at only when a registration
  starts. It holds when it ends if registrations come one after the other,
  failures and repetitions included; if an owner has one under way in several
  chats (`crowded`), it can be exceeded, by one for each further chat at the
  most. The owner is an admin of the userbot when its task
  is over, unless the registration was cut short before the task was enqueued or
  the task raised (`orphaned`).
- *WindowBound*, *OneWarning*: expiry of the bucket never gives more than the
  rate; one warning per silence.
- *SlotsAreSpread*, *SendsAreWithinBudget*: the reservations of each budget keep
  to its rate and burst; so does what is sent from any slot on. A chat's
  messages may still be sent together after a backlog of the bot, since a call
  waits for the later of two slots; nothing in the code promises otherwise.
- *OneAtATime*, *LockIsReleased*: the lock keeps a second broadcast out, unless
  it expired, its message was enqueued by a call that failed, or a message was
  executed again (`astray`). It is left to nobody (`leaked`) only by a handler that
  died or could not delete it, by a task that got no bot, and by an unlock in the
  `finally` of the task that failed, as in an outage of Redis; it expires then.
- *NobodyIsMissed*, *CopiesAreExplained*: paging by the last id misses nobody who
  was active throughout; nobody gets a broadcast twice but by redelivery of the
  broadcast or of a batch.
- *ReportAddsUp*: the report counts nobody who got nothing; its failures are
  negative only when users came after the total was counted.
- *BroadcastEnds*: two broadcasts in both slots of a worker wait for batches that
  have no slot, and end all the same since the wait for results has a limit.
- *PartsAreHandled*, *PartsAreHandledOnce*: a part is lost if it comes after the
  list was read (`late`), or its handler or a call of Redis failed or was
  cancelled (`spoiled`); it
  is handled twice only if it was so slow that it set the lock after its album
  was read (`reread`), if the list survived a stop or a failed deletion, or if the
  lock expired under its holder.
- *OnlyOvertakenUpdatesSwitchOff*: a userbot with a valid token is switched off
  as unauthorized only by an update that was on its way or running when its token
  was replaced (`overtaken`), or that came later and was handed the row with the
  old token by Redis (`misled`; *StaleExplained* says when an entry is stale). Both
  exceptions are reached.
- *AcceptedEnds*: parts of albums sleep with a permit in hand, and every update
  accepted still ends.
- *DataIsThere*, *ViewerIsHeard*: no window is shown whose data is missing, in
  whatever order taps and messages come; no dialog takes the viewer's messages.
- *TapsActOnWhatIsShown*: of two taps on a list that had read the same context
  the second saves its own over the first; only after this can a tap act on
  something its window did not show.
- *OnlyAdminsAct*: `when` hides buttons and does not guard them; AdminMiddleware
  and `ProtectedStart` do, for everything but the entry of the viewer, where
  whoever still sees the button gets in and can do nothing. They look at a profile
  that may come from Redis: who was demoted acts on as long as the entry is stale
  (`demoted`), and nobody else does who was no admin since the update was sent.

## Fairness

- `CacheCoherence`: a fill, a flush and a transaction end, because every server
  call has a timeout; every entry expires, because every SET carries `ex`.
- `Moderation`: strong fairness of each handler's step. The event loop runs every
  task that is ready, and Postgres grants row locks in the order of waiting, so
  a handler whose lock comes free again and again gets it. Failures are never
  forced.
- `SuggestionPipeline`: the worker is restarted by its supervisor and reads its
  stream, and what is left unacknowledged is claimed: weak fairness of the
  worker's steps and of `Redeliver`.
- `Broadcast`: weak fairness of what the worker executes, of deliveries and of
  the redelivery of what nobody executes any more: the worker is a loop under a
  supervisor. Failures, crashes and expiry are never forced.
- `UpdateServer`: weak fairness of each task and strong fairness of `Acquire`:
  `asyncio.Semaphore` wakes who waits in the order of waiting.
- `UserbotLifecycle`, `UserColumns`, the limiters and `Dialogs` are checked for
  safety only: their code promises no progress but through what users do.

## Proofs

Each `*_proofs` module proves an inductive invariant (initially, by each action,
then `THEOREM Spec => []...` with PTL) for every value of the constants, under
the named assumptions of its module only.

- `CacheCoherence_proofs`: `TypeOK` with `VersionInv` (a version belongs to one
  session, committed or aborted set, so that an aborted one can never be
  published) and `JournalInv` (whatever a journal or a fill holds would be
  cacheable the moment its session commits, and a written row has an operation
  for each key it invalidates). The properties follow from these two: without
  the first nothing separates the versions of two sessions, without the second
  nothing is known of a flush. From them, too, each action is a step of
  `ReadThrough` or a stutter: both commits are its `Commit`, a late SET and a
  flushed one its `Fill`, an invalidation and the TTL its `Forget`.
- `SuggestionPipeline_proofs`, of `Moderation`: `LockInv` (who is in the middle
  of a write holds the row, alone, and it is still pending), `DispatchInv` (a job
  before its `kiq` is the only one for its suggestion), `ShownInv` (what is
  current, or is about to be, was shown), `BanInv` (while a ban waits for rows,
  those pending are in its batch, held by it, or raced). The refinement maps
  inserting and void ids to "absent"; every step is one of the lifecycle or
  stutters. Of the pipeline: every step is one of `Moderation` or leaves it alone
  (*PipelineModerates*), so its invariant holds there too; `CountInv` counts
  messages, executions and posts of a suggestion against its dispatch and its
  redeliveries.
- `UserColumns_proofs`: `EntryInv` (a cached entry agrees with the row but for
  the columns known to be `late`), `RequestInv` (which columns and operations an
  update has at each of its awaits; one inserts at a time; a column of a table
  that is written has its deletion journalled), `BarredInv` and `CleanInv` (of an
  update that came when a ban stood, or of a tap that nobody overlaps, no copy
  has the column wrong), `HeardInv` and `BlockInv` (the row has what the user was
  last heard with, or an update in flight is going to write it). *NothingClobbered*
  is inductive with `EntryInv` and the columns an update can have assigned.
  *TapsApply* is an action property: it follows from `CleanInv` before the step.
- `UserbotLifecycle_proofs`: `TypeInv`, the types by who writes them, with what
  each handler holds (past the first window of a registration there is a
  userbot; behind the menu it is registered), and `LimitInv` (the userbots
  and the registrations that may still add one are within the limit, or within
  the limit and the further chats: a registration whose userbot is registered
  already takes no place, or one that failed after its row would break it). The
  owner is an admin by an invariant that follows a userbot from its row through
  the handler and the task. *ActiveHasWebhook* follows from `HookInv` (an active
  userbot with a good token has its webhook, an excuse, or somebody who will set
  it with that token or switch the userbot off) and `GivenInv` (no row and no
  handler has a token that Telegram has yet to give: without it a replaced token
  could become good again, with the webhook gone), and from `HookAt` for each chat:
  who is about to save that a userbot is on has set its webhook, unless another
  handler has removed it since, which `overtaken` records. *LossExplained* follows from
  `LossInv`: the channel of an active userbot is safe (the rights are there, or
  the loss is on record), or somebody is about to switch the userbot off, or
  Telegram has the update, the webhook is set and nobody is going to drop what
  waits; with `HeldInv`, which keeps what the handler in each chat has probed safe
  until it is saved.
- `RateLimiters_proofs`, of `UserLimiter`: `BucketInv` (an expired bucket would
  be full), `SpendingInv` (spent plus what is in the bucket is at most a full
  bucket and the refill since), `PauseInv` (after a warning the pause outlasts the
  refill). Of `TgApiLimiter`: `WindowInv` (the arrival time of the observed budget
  is at least the first slot plus all that was reserved since, less the
  tolerance) and `ExpiryInv` (its key does not expire before it counts). What is
  *sent* needs the calls that sleep as well: `FlightInv` says of every later time
  that what was sent and what will wake up by then fit in the budget. It is
  about the number of elements of a set (as many per sleeping call as its
  charge), so that no sum over the calls is needed.
- `Broadcast_proofs`: `LifeInv` (no execution before the message, none after the
  deliveries), `LockInv` and `ClaimInv` (a lock that is set has somebody who will
  delete it; two of them only after one went on without it), and for each
  execution `PageOK` (what was read is up to the cursor), `BatchOK` (the batches
  and the rest of the page are disjoint), `SteadyOK` (whoever was active all along
  is still to be read, in the page or in a batch) and `ReportOK`. `CopiesInv`
  counts the copies of a user against the executions that are through with that
  user and the batches executed again; `CountInv` bounds the active users by the
  cached total and the joins since. The chunks of a page and the first users of
  a page are chosen by order; the proofs take the least element of a set of
  numbers where they need it (`LeastNat`, from the well-foundedness of `<`).
- `UpdateServer_proofs`: `TypeInv`, with `CacheInv` (an instance per userbot at
  most, which needs what `RemoveAt`, `Append` and `Tail` do to a sequence), and
  `TokenInv` (a request or a task has the token of the row, or was there when that
  was replaced, or was handed another by Redis): without the first a lookup in the cache could find the older of two
  instances. The album has an invariant of its own: `HolderInv` (while no lock was
  outlived, one part has it, from setting to deleting it), `FreshInv` (who has
  not pushed itself is in no list and no album), `AccountInv` (a part that has
  looked for the lock was handled, came late, was spoiled, is in the list that a
  sleeping part will read or in the album a handler was given: *PartsAreHandled*
  when nothing runs) and `OnceInv` (what a handler is given was not handled
  before, as a part that was is in the list only as long as its handler has that
  list still to delete: *PartsAreHandledOnce*).
- `Dialogs_proofs`: `GoodStack` (a ROOT dialog with at most one on top; a context
  holds what its window looks up, and selects nothing while a list is shown),
  `TapInv` (the context a tap is on is on the stack, and `TapFits`: what its
  window showed and what it has read are related to what is there now),
  `ScreenInv` (the screen renders the top) and `UpdateInv` (whom the middlewares
  took for an admin was one since the update was sent, or Redis still said so). `Follows` says how a handler changes a context, and
  the lemma about it serves every handler.

Assumptions are about constants only: finite sets, positive sizes, values such as
`NoRow` that are different from all others; each is named in its module and
evaluated by TLC in every run.

Every invariant that a run checks, the action property *TapsApply* and all
refinements (of `ReadThrough` by `CacheCoherence`, of `SuggestionLifecycle` by
`Moderation`, of `Moderation` by `SuggestionPipeline`) are proved for every value of the constants. Model-checked
only: all liveness and the fairness it needs (*CacheConverges*,
*HandlerCompletes*, *AcceptedIsPosted*, *BroadcastEnds*, *AcceptedEnds*), which is
out of the prover's reach, and the violation of *LossDeactivates*.

## Not modelled

- The other notifications of `task_queue/tasks/notify.py` (new users, new
  suggestions), which change no state; statistics, which are only read.
- The check of the secret token of a webhook: a comparison of hashes.
- The pooled connections of aiohttp behind the Bot instances.
- `RateLimiter.acquire`, which has no caller.
- Wording, layout, translation and parsing of messages; banners and keyboards:
  no state over time.
- Encryption of tokens, configuration, wiring, logging and migrations.

Telegram, Postgres, Redis, aiogram, aiogram-dialog and taskiq are modelled as the
code uses them and marked external in the map.

What could be added: `Broadcast` composed with `TgApiLimiter`.
