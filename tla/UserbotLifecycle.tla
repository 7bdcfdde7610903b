-------------------------- MODULE UserbotLifecycle --------------------------
(***************************************************************************)
(* The userbots of one owner: registration, the switch, token and channel  *)
(* in the registrar's menu, the webhook at Telegram, the task new_userbot  *)
(* and the deactivations by updates of the userbot itself.                 *)
(*                                                                         *)
(* Three parties interleave at every await.  The owner's dialogs, one in   *)
(* every chat with the registrar, for its routers do not ask for a private *)
(* chat: the isolation that setup_dialogs installs handles the events of a *)
(* chat one after the other, and those of two chats at a time.  The        *)
(* updates of the userbots, in the other dispatcher, any number at a time. *)
(* The worker.  Meanwhile rights in channels come and go, and BotFather    *)
(* replaces tokens: live[b] is the number of the one token of b that       *)
(* Telegram accepts.                                                       *)
(*                                                                         *)
(* A row is its columns, for save writes the columns that were assigned.   *)
(* A read of it is of what is committed: the cache is CacheCoherence's.    *)
(***************************************************************************)
EXTENDS Naturals, FiniteSets

CONSTANTS
    Userbot,
    Channel,
    Chat,        \* those in which the owner has a dialog with the registrar
    Update,      \* updates of userbots being handled at a time
    MaxUserbots, \* max_userbots_per_user
    MaxToken,    \* bound: tokens BotFather issues for a userbot, less one
    MaxFaults,   \* bound: calls that raise, handlers that die and deaths of the worker
    NoBot,
    NoChannel

ASSUME LimitAssumption == MaxUserbots \in Nat \ {0}
ASSUME UserbotAssumption == IsFiniteSet(Userbot) /\ NoBot \notin Userbot
ASSUME ChannelAssumption == NoChannel \notin Channel
ASSUME ChatAssumption == IsFiniteSet(Chat) /\ Chat # {}
ASSUME BoundAssumption == MaxToken \in Nat /\ MaxFaults \in Nat

VARIABLES
    registered,  \* rows of userbot
    active, token, channel, \* their columns
    hook,        \* userbots whose webhook is set
    live,        \* the token of a userbot that Telegram accepts
    rights,      \* channels a userbot may post to
    pending,     \* my_chat_member updates about a loss of rights, not delivered
    owner,       \* the owner's dialog in a chat and what its handler is doing
    update,      \* the updates being handled
    task,        \* new_userbot
    admin,       \* userbots in which the owner has the role ADMIN
    faults,      \* history: their number
    crowded,     \* history: two registrations were under way at a time
    overtaken,   \* history: switched on before another handler removed the webhook
    interrupted, \* history: a failure between a row and its webhook
    orphaned,    \* history: a registration whose task was not enqueued, or raised
    missed       \* history: losses that came, or were dropped, while somebody worked on it

rowVars == <<registered, active, token, channel>>
telegramVars == <<hook, live, rights, pending>>
historyVars == <<faults, crowded, overtaken, interrupted, orphaned, missed>>
vars == <<rowVars, telegramVars, owner, update, task, admin, historyVars>>

Token == 0 .. MaxToken
Row == [active : BOOLEAN, token : Token, channel : Channel \union {NoChannel}]
NoRow == [active |-> FALSE, token |-> 0, channel |-> NoChannel]
RowOf(b) == [active |-> b \in active, token |-> token[b], channel |-> channel[b]]

(***************************************************************************)
(* In a chat the owner is in the menu, in the registration dialog waiting  *)
(* to be sent a token or a channel, or its handler is at one of these      *)
(* awaits.                                                                 *)
(***************************************************************************)
Waiting == {"menu", "token", "channel"}
Register == {"create", "created"}
Toggle == {"toggle", "off", "offsave", "on", "onsave"}
Change == {"newtoken", "savetoken", "refresh", "newchannel", "savechannel"}
Menu == [at |-> "menu", bot |-> NoBot, row |-> NoRow]
Idle == [at |-> "none", bot |-> NoBot, token |-> 0]

Init ==
    /\ registered = {} /\ active = {}
    /\ token = [b \in Userbot |-> 0] /\ channel = [b \in Userbot |-> NoChannel]
    /\ hook = {}
    /\ live = [b \in Userbot |-> 0]
    /\ rights = [b \in Userbot |-> Channel]
    /\ pending = [b \in Userbot |-> {}]
    /\ owner = [d \in Chat |-> Menu]
    /\ update = [u \in Update |-> Idle]
    /\ task = [b \in Userbot |-> [at |-> "none", token |-> 0]]
    /\ admin = {}
    /\ faults = 0 /\ crowded = FALSE /\ overtaken = {} /\ interrupted = {}
    /\ orphaned = {} /\ missed = [b \in Userbot |-> {}]

OwnerAt(d, label) == owner[d].at = label
Goto(d, label) == owner' = [owner EXCEPT ![d].at = label]
Home(d) == owner' = [owner EXCEPT ![d] = Menu]
Alive(b, t) == t = live[b]

\* probe_userbot: the token is accepted and the userbot may post there.
ProbeOk(b, t, c) == Alive(b, t) /\ c \in rights[b]

Settled(b) ==
    /\ \A d \in Chat : owner[d].bot = b => owner[d].at \in Waiting
    /\ \A u \in Update : update[u].bot # b
    /\ task[b].at = "none"
-----------------------------------------------------------------------------
(***************************************************************************)
(* WebhookService.set_webhook: nothing when the URL is set already, else   *)
(* the updates that wait are dropped.                                      *)
(***************************************************************************)
SetWebhook(b) ==
    /\ hook' = hook \union {b}
    /\ pending' = IF b \in hook THEN pending ELSE [pending EXCEPT ![b] = {}]
    /\ overtaken' = overtaken \ {b}
    /\ interrupted' = interrupted \ {b}
    /\ UNCHANGED <<live, rights, faults, crowded, orphaned, missed>>

RemoveWebhook(b) ==
    /\ hook' = hook \ {b}
    /\ pending' = [pending EXCEPT ![b] = {}]
    /\ UNCHANGED <<live, rights, faults, crowded, interrupted, orphaned, missed>>

TelegramUnchanged == UNCHANGED <<telegramVars, historyVars>>
-----------------------------------------------------------------------------
(***************************************************************************)
(* The registration dialog.                                                *)
(***************************************************************************)
\* Mutant: one userbot more than the limit.
MutUnderLimit == Cardinality(registered) <= MaxUserbots

UnderLimit == Cardinality(registered) < MaxUserbots

\* The registrations that may still add a userbot.
Places ==
    {d \in Chat : owner[d].at \in {"token", "channel", "create"} /\ owner[d].bot \notin registered}

StartRegistration(d) ==
    /\ OwnerAt(d, "menu") /\ UnderLimit
    /\ owner' = [owner EXCEPT ![d] = [Menu EXCEPT !.at = "token"]]
    /\ crowded' = (crowded \/ Places # {})
    /\ UNCHANGED <<rowVars, telegramVars, update, task, admin,
                   faults, overtaken, interrupted, orphaned, missed>>

\* bot_token_handler: a token that Telegram accepts.
GiveToken(d, b) ==
    /\ OwnerAt(d, "token")
    /\ owner' = [owner EXCEPT ![d] =
                   [at |-> "channel", bot |-> b, row |-> [NoRow EXCEPT !.token = live[b]]]]
    /\ UNCHANGED <<rowVars, update, task, admin>> /\ TelegramUnchanged

\* channel_id_handler and UserBotRegisterUseCase.execute, up to the probe.
GiveChannel(d, c) ==
    /\ OwnerAt(d, "channel") /\ ProbeOk(owner[d].bot, owner[d].row.token, c)
    /\ owner' = [owner EXCEPT ![d].at = "create", ![d].row.channel = c]
    /\ UNCHANGED <<rowVars, update, task, admin>> /\ TelegramUnchanged

AlreadyExists(d) ==
    /\ OwnerAt(d, "create") /\ owner[d].bot \in registered
    /\ Home(d)
    /\ UNCHANGED <<rowVars, update, task, admin>> /\ TelegramUnchanged

Create(d) ==
    /\ OwnerAt(d, "create") /\ owner[d].bot \notin registered
    /\ registered' = registered \union {owner[d].bot}
    /\ active' = active \union {owner[d].bot}
    /\ token' = [token EXCEPT ![owner[d].bot] = owner[d].row.token]
    /\ channel' = [channel EXCEPT ![owner[d].bot] = owner[d].row.channel]
    /\ Goto(d, "created")
    /\ UNCHANGED <<update, task, admin>> /\ TelegramUnchanged

\* The owner was told, is back in the menu, and the task is enqueued.
Enqueue(d) ==
    /\ OwnerAt(d, "created")
    /\ task' = [task EXCEPT ![owner[d].bot] = [at |-> "queued", token |-> 0]]
    /\ Home(d)
    /\ UNCHANGED <<rowVars, update, admin>> /\ TelegramUnchanged

\* /start and the menu button reset the stack of dialogs.
Leave(d) ==
    /\ owner[d].at \in {"token", "channel"}
    /\ Home(d)
    /\ UNCHANGED <<rowVars, update, task, admin>> /\ TelegramUnchanged
-----------------------------------------------------------------------------
(***************************************************************************)
(* The use cases of the userbot menu: each reads the row, asks Telegram    *)
(* and writes columns of the row it has read.                              *)
(***************************************************************************)
\* userbot_action_auth lets pass what is registered.
ReadRow(d, b) ==
    /\ OwnerAt(d, "menu") /\ b \in registered
    /\ \E label \in {"toggle", "newtoken", "newchannel"} :
           owner' = [owner EXCEPT ![d] = [at |-> label, bot |-> b, row |-> RowOf(b)]]
    /\ UNCHANGED <<rowVars, update, task, admin>> /\ TelegramUnchanged

\* Mutant: a userbot that may not post is switched on.
MutToggleProbe(d) ==
    /\ OwnerAt(d, "toggle")
    /\ IF Alive(owner[d].bot, owner[d].row.token)
         THEN Goto(d, IF owner[d].row.active THEN "off" ELSE "on")
         ELSE Goto(d, "offsave")
    /\ UNCHANGED <<rowVars, update, task, admin>> /\ TelegramUnchanged

ToggleProbe(d) ==
    /\ OwnerAt(d, "toggle")
    /\ LET b == owner[d].bot
           r == owner[d].row
       IN  Goto(d, CASE ~ Alive(b, r.token) -> "offsave"
                     [] ProbeOk(b, r.token, r.channel) /\ ~ r.active -> "on"
                     [] OTHER -> "off")
    /\ UNCHANGED <<rowVars, update, task, admin>> /\ TelegramUnchanged

\* Somebody has set the webhook of b and has yet to save that it is active.
SwitchingOn(b) == \E d \in Chat : owner[d].bot = b /\ OwnerAt(d, "onsave")

\* userbot_deactivate; an unauthorized call raises before anything is saved, and the
\* error router then looks for the row of the registrar's bot, which is not a userbot.
Off(d) ==
    /\ OwnerAt(d, "off")
    /\ IF Alive(owner[d].bot, owner[d].row.token)
         THEN /\ RemoveWebhook(owner[d].bot) /\ Goto(d, "offsave")
              /\ overtaken' = IF SwitchingOn(owner[d].bot) THEN overtaken \union {owner[d].bot}
                                                          ELSE overtaken
         ELSE TelegramUnchanged /\ Home(d)
    /\ UNCHANGED <<rowVars, update, task, admin>>

OffSave(d) ==
    /\ OwnerAt(d, "offsave")
    /\ active' = active \ {owner[d].bot}
    /\ Home(d)
    /\ UNCHANGED <<registered, token, channel, update, task, admin>> /\ TelegramUnchanged

\* Mutant: the webhook is left as it is.
MutOn(d) ==
    /\ OwnerAt(d, "on") /\ Goto(d, "onsave")
    /\ UNCHANGED <<rowVars, update, task, admin>> /\ TelegramUnchanged

On(d) ==
    /\ OwnerAt(d, "on")
    /\ IF Alive(owner[d].bot, owner[d].row.token)
         THEN SetWebhook(owner[d].bot) /\ Goto(d, "onsave")
         ELSE TelegramUnchanged /\ Home(d)
    /\ UNCHANGED <<rowVars, update, task, admin>>

OnSave(d) ==
    /\ OwnerAt(d, "onsave")
    /\ active' = active \union {owner[d].bot}
    /\ Home(d)
    /\ UNCHANGED <<registered, token, channel, update, task, admin>> /\ TelegramUnchanged

\* probe_token of the token the owner sent; a dead one is refused.
NewTokenProbe(d) ==
    /\ OwnerAt(d, "newtoken")
    /\ \/ owner' = [owner EXCEPT ![d].at = "savetoken", ![d].row.token = live[owner[d].bot]]
       \/ Home(d)
    /\ UNCHANGED <<rowVars, update, task, admin>> /\ TelegramUnchanged

\* The webhook is set again for a userbot that was active when it was read.
SaveToken(d) ==
    /\ OwnerAt(d, "savetoken")
    /\ token' = [token EXCEPT ![owner[d].bot] = owner[d].row.token]
    /\ IF owner[d].row.active THEN Goto(d, "refresh") ELSE Home(d)
    /\ UNCHANGED <<registered, active, channel, update, task, admin>> /\ TelegramUnchanged

Refresh(d) ==
    /\ OwnerAt(d, "refresh")
    /\ IF Alive(owner[d].bot, owner[d].row.token) THEN SetWebhook(owner[d].bot) ELSE TelegramUnchanged
    /\ Home(d)
    /\ UNCHANGED <<rowVars, update, task, admin>>

NewChannelProbe(d, c) ==
    /\ OwnerAt(d, "newchannel")
    /\ IF ProbeOk(owner[d].bot, owner[d].row.token, c)
         THEN owner' = [owner EXCEPT ![d].at = "savechannel", ![d].row.channel = c]
         ELSE Home(d)
    /\ UNCHANGED <<rowVars, update, task, admin>> /\ TelegramUnchanged

SaveChannel(d) ==
    /\ OwnerAt(d, "savechannel")
    /\ channel' = [channel EXCEPT ![owner[d].bot] = owner[d].row.channel]
    /\ Home(d)
    /\ UNCHANGED <<registered, active, token, update, task, admin>> /\ TelegramUnchanged

(***************************************************************************)
(* A call raises or the process dies.  What the dialog shows, kept in      *)
(* Redis, is what it showed before: the last window of the registration,   *)
(* or the menu if only the enqueueing is left.                             *)
(***************************************************************************)
FailOwner(d) ==
    /\ owner[d].at \notin Waiting /\ faults < MaxFaults
    /\ faults' = faults + 1
    /\ \/ owner[d].at \in Register /\ Goto(d, "channel")
       \/ owner[d].at # "create" /\ Home(d)
    /\ interrupted' = IF owner[d].at \in {"created", "offsave", "refresh"}
                        THEN interrupted \union {owner[d].bot} ELSE interrupted
    /\ orphaned' = IF OwnerAt(d, "created") THEN orphaned \union {owner[d].bot} ELSE orphaned
    /\ missed' = IF OwnerAt(d, "offsave")
                   THEN [missed EXCEPT ![owner[d].bot] = @ \union (Channel \ rights[owner[d].bot])]
                   ELSE missed
    /\ UNCHANGED <<rowVars, telegramVars, update, task, admin, crowded, overtaken>>

OwnerStep(d) ==
    \/ StartRegistration(d) \/ AlreadyExists(d) \/ Create(d) \/ Enqueue(d) \/ Leave(d)
    \/ \E b \in Userbot : GiveToken(d, b) \/ ReadRow(d, b)
    \/ \E c \in Channel : GiveChannel(d, c) \/ NewChannelProbe(d, c)
    \/ ToggleProbe(d) \/ Off(d) \/ OffSave(d) \/ On(d) \/ OnSave(d)
    \/ NewTokenProbe(d) \/ SaveToken(d) \/ Refresh(d) \/ SaveChannel(d) \/ FailOwner(d)
-----------------------------------------------------------------------------
(***************************************************************************)
(* The updates of the userbots.                                            *)
(***************************************************************************)
Become(u, label) == update' = [update EXCEPT ![u].at = label]
End(u) == update' = [update EXCEPT ![u] = Idle]

\* TelegramWebhookEndpoint._handle: an update of an inactive userbot is skipped.
Accept(u, b, label) ==
    update' = IF b \in registered /\ b \in active
                THEN [update EXCEPT ![u] = [at |-> label, bot |-> b, token |-> token[b]]]
                ELSE update

\* A message or a tap, whose handler calls Telegram.
Deliver(u, b) ==
    /\ update[u].at = "none" /\ b \in hook
    /\ Accept(u, b, "serving")
    /\ UNCHANGED <<rowVars, owner, task, admin>> /\ TelegramUnchanged

\* A loss of rights; on_userbot_demoted ignores another channel than the row's.
DeliverLoss(u, b, c) ==
    /\ update[u].at = "none" /\ b \in hook /\ c \in pending[b]
    /\ pending' = [pending EXCEPT ![b] = @ \ {c}]
    /\ IF channel[b] = c THEN Accept(u, b, "demoted") ELSE UNCHANGED update
    /\ UNCHANGED <<rowVars, hook, live, rights, owner, task, admin, historyVars>>

Demote(u) ==
    /\ update[u].at = "demoted"
    /\ active' = active \ {update[u].bot}
    /\ Become(u, "deactivated")
    /\ UNCHANGED <<registered, token, channel, owner, task, admin>> /\ TelegramUnchanged

\* A call with a token that Telegram no longer accepts goes to the error router.
DemoteRemoveWebhook(u) ==
    LET b == update[u].bot
    IN  /\ update[u].at = "deactivated"
        /\ IF Alive(b, update[u].token)
             THEN /\ RemoveWebhook(b) /\ End(u)
                  /\ overtaken' = IF b \in active \/ SwitchingOn(b)
                                    THEN overtaken \union {b} ELSE overtaken
             ELSE TelegramUnchanged /\ Become(u, "unauthorized")
        /\ UNCHANGED <<rowVars, owner, task, admin>>

Serve(u) ==
    /\ update[u].at = "serving"
    /\ IF Alive(update[u].bot, update[u].token) THEN End(u) ELSE Become(u, "unauthorized")
    /\ UNCHANGED <<rowVars, owner, task, admin>> /\ TelegramUnchanged

\* userbot_token_invalid
TokenInvalid(u) ==
    /\ update[u].at = "unauthorized"
    /\ active' = active \ {update[u].bot}
    /\ End(u)
    /\ UNCHANGED <<registered, token, channel, owner, task, admin>> /\ TelegramUnchanged

FailUpdate(u) ==
    /\ update[u].at # "none" /\ faults < MaxFaults
    /\ faults' = faults + 1
    /\ missed' = IF update[u].at = "demoted"
                   THEN [missed EXCEPT ![update[u].bot] = @ \union {channel[update[u].bot]}]
                   ELSE missed
    /\ End(u)
    /\ UNCHANGED <<rowVars, telegramVars, owner, task, admin, crowded, overtaken,
                   interrupted, orphaned>>

UpdateStep(u) ==
    \/ \E b \in Userbot : Deliver(u, b) \/ \E c \in Channel : DeliverLoss(u, b, c)
    \/ Demote(u) \/ DemoteRemoveWebhook(u) \/ Serve(u) \/ TokenInvalid(u) \/ FailUpdate(u)
-----------------------------------------------------------------------------
(***************************************************************************)
(* new_userbot in the worker.                                              *)
(***************************************************************************)
ResolveToken(b) ==
    /\ task[b].at = "queued"
    /\ task' = [task EXCEPT ![b] = [at |-> "profile", token |-> token[b]]]
    /\ UNCHANGED <<rowVars, owner, update, admin>> /\ TelegramUnchanged

MakeAdmin(b) ==
    /\ task[b].at = "profile"
    /\ admin' = admin \union {b}
    /\ task' = [task EXCEPT ![b].at = "hook"]
    /\ UNCHANGED <<rowVars, owner, update>> /\ TelegramUnchanged

\* An exception ends the task: its message is acknowledged with the result.
TaskSetWebhook(b) ==
    /\ task[b].at = "hook"
    /\ IF Alive(b, task[b].token) THEN SetWebhook(b) ELSE TelegramUnchanged
    /\ task' = [task EXCEPT ![b] = [at |-> "none", token |-> 0]]
    /\ UNCHANGED <<rowVars, owner, update, admin>>

\* Mutant: the message of a dead worker is not delivered again.
MutWorkerCrash(b) ==
    /\ task[b].at \in {"profile", "hook"} /\ faults < MaxFaults
    /\ faults' = faults + 1
    /\ task' = [task EXCEPT ![b] = [at |-> "none", token |-> 0]]
    /\ UNCHANGED <<rowVars, telegramVars, owner, update, admin, crowded, overtaken,
                   interrupted, orphaned, missed>>

\* The worker dies, and the stream delivers the message again.
WorkerCrash(b) ==
    /\ task[b].at \in {"profile", "hook"} /\ faults < MaxFaults
    /\ faults' = faults + 1
    /\ task' = [task EXCEPT ![b] = [at |-> "queued", token |-> 0]]
    /\ UNCHANGED <<rowVars, telegramVars, owner, update, admin, crowded, overtaken,
                   interrupted, orphaned, missed>>

\* An exception: the message is acknowledged with the result all the same.
FailTask(b) ==
    /\ task[b].at # "none" /\ faults < MaxFaults
    /\ faults' = faults + 1
    /\ task' = [task EXCEPT ![b] = [at |-> "none", token |-> 0]]
    /\ interrupted' = interrupted \union {b}
    /\ orphaned' = IF task[b].at = "hook" THEN orphaned ELSE orphaned \union {b}
    /\ UNCHANGED <<rowVars, telegramVars, owner, update, admin, crowded, overtaken, missed>>

TaskStep(b) == ResolveToken(b) \/ MakeAdmin(b) \/ TaskSetWebhook(b)
-----------------------------------------------------------------------------
(***************************************************************************)
(* Telegram: rights are lost and regained, and tokens replaced.            *)
(***************************************************************************)
LoseRights(b, c) ==
    /\ c \in rights[b]
    /\ rights' = [rights EXCEPT ![b] = @ \ {c}]
    /\ pending' = [pending EXCEPT ![b] = @ \union {c}]
    /\ missed' = IF Settled(b) /\ b \in hook THEN missed
                   ELSE [missed EXCEPT ![b] = @ \union {c}]
    /\ UNCHANGED <<rowVars, hook, live, owner, update, task, admin,
                   faults, crowded, overtaken, interrupted, orphaned>>

GainRights(b, c) ==
    /\ c \notin rights[b]
    /\ rights' = [rights EXCEPT ![b] = @ \union {c}]
    /\ missed' = [missed EXCEPT ![b] = @ \ {c}]
    /\ UNCHANGED <<rowVars, hook, live, pending, owner, update, task, admin,
                   faults, crowded, overtaken, interrupted, orphaned>>

ReplaceToken(b) ==
    /\ live[b] < MaxToken
    /\ live' = [live EXCEPT ![b] = @ + 1]
    /\ UNCHANGED <<rowVars, hook, rights, pending, owner, update, task, admin, historyVars>>

TelegramStep ==
    \E b \in Userbot :
        \/ ReplaceToken(b)
        \/ \E c \in Channel : LoseRights(b, c) \/ GainRights(b, c)

Next ==
    \/ \E d \in Chat : OwnerStep(d)
    \/ \E u \in Update : UpdateStep(u)
    \/ \E b \in Userbot : TaskStep(b) \/ FailTask(b) \/ WorkerCrash(b)
    \/ TelegramStep

Spec == Init /\ [][Next]_vars
-----------------------------------------------------------------------------
TypeOK ==
    /\ registered \subseteq Userbot /\ active \subseteq registered
    /\ token \in [Userbot -> Token] /\ channel \in [Userbot -> Channel \union {NoChannel}]
    /\ hook \subseteq Userbot /\ live \in [Userbot -> Token]
    /\ rights \in [Userbot -> SUBSET Channel] /\ pending \in [Userbot -> SUBSET Channel]
    /\ owner \in [Chat -> [at : Waiting \union Register \union Toggle \union Change,
                           bot : Userbot \union {NoBot}, row : Row]]
    /\ \A d \in Chat : owner[d].at \in Toggle \union Change => owner[d].bot \in registered
    /\ update \in [Update -> [at : {"none", "demoted", "deactivated", "serving", "unauthorized"},
                              bot : Userbot \union {NoBot}, token : Token]]
    /\ task \in [Userbot -> [at : {"none", "queued", "profile", "hook"}, token : Token]]
    /\ admin \subseteq Userbot
    /\ faults \in 0 .. MaxFaults /\ crowded \in BOOLEAN
    /\ overtaken \subseteq Userbot /\ interrupted \subseteq Userbot
    /\ orphaned \subseteq Userbot /\ missed \in [Userbot -> SUBSET (Channel \union {NoChannel})]

(***************************************************************************)
(* The number of userbots is compared with max_userbots_per_user when a    *)
(* registration starts and not when it ends.  In one chat that is enough,  *)
(* for its handlers run one after the other.  Registrations that are under *)
(* way in several chats at a time exceed the limit, by one userbot for     *)
(* each further chat at the most (start_registration).                     *)
(***************************************************************************)
WithinLimit ==
    Cardinality(registered) <= MaxUserbots + (IF crowded THEN Cardinality(Chat) - 1 ELSE 0)

(***************************************************************************)
(* An active userbot whose token is good gets updates once nobody works on *)
(* it, unless it was switched on before a handler that deactivated it, or  *)
(* was about to, removed its webhook, or a failure came between the row    *)
(* and the webhook                                                         *)
(* (ub_active_toggle.py, ub_update_token.py, chat_member.py, new_userbot). *)
(***************************************************************************)
ActiveHasWebhook ==
    \A b \in active :
        Settled(b) /\ Alive(b, token[b]) => b \in hook \union overtaken \union interrupted

(***************************************************************************)
(* README.md:10, deactivation upon loss of rights: an active userbot may   *)
(* post to its channel, unless somebody works on it or Telegram has the    *)
(* update that will deactivate it.                                         *)
(***************************************************************************)
LossDeactivates ==
    \A b \in active :
        Settled(b) => channel[b] \in rights[b] \union pending[b]

(***************************************************************************)
(* What remains of that promise: a loss of rights deactivates, however the *)
(* owner, other updates and the worker interleave with its delivery, but   *)
(* for a loss that came while somebody worked on the userbot or while it   *)
(* had no webhook, and one whose handler, or a switching off, failed.      *)
(***************************************************************************)
LossExplained ==
    \A b \in active :
        Settled(b) =>
            channel[b] \in rights[b] \union pending[b] \union missed[b]

(***************************************************************************)
(* The owner of a registered userbot is its admin as soon as the handler   *)
(* of the registration and its task are over, whatever dies meanwhile: the *)
(* userbot would otherwise have nobody who can moderate (new_userbot).     *)
(***************************************************************************)
OwnerIsAdmin ==
    \A b \in registered :
        \/ b \in admin \union orphaned
        \/ task[b].at # "none"
        \/ \E d \in Chat : OwnerAt(d, "created") /\ owner[d].bot = b
=============================================================================
