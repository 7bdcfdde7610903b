---------------------------- MODULE TgApiLimiter ----------------------------
(***************************************************************************)
(* The pacing of the worker's calls to the Telegram API for one bot: the   *)
(* GCRA budgets of the bot and of each chat (core/rate_limiters/tg_api.py),*)
(* and the middlewares every request goes through (session_middlewares.py),*)
(* RetryFloodControl around PaceRequests.                                  *)
(*                                                                         *)
(* A budget is the time at which it would be unused again, its theoretical *)
(* arrival time; a message moves it by one period.  RESERVE_SCRIPT is one  *)
(* step of Redis for all the coroutines and replicas of the worker.  Time  *)
(* is counted in ticks of the precision of Lua's tostring, and the         *)
(* rounding to it is left out.  Methods of cost 0 reserve nothing.         *)
(***************************************************************************)
EXTENDS RedisClock

CONSTANTS
    Call,          \* coroutines of the worker that make requests
    Chat,
    Bot,           \* the budget of the bot, beside those of its chats
    NoChat,        \* a message whose method has no chat_id
    BotPeriod,     \* 1 / rate
    BotBurst,
    ChatPeriod,    \* 1 / chat_rate
    ChatBurst,
    MaxCost,       \* messages in a media group, 10 for Telegram
    MaxRetries,    \* flood_retries
    RetryAfter,    \* what Telegram answers to flooding
    MinRetryDelay  \* MIN_RETRY_DELAY

ASSUME KeyAssumption == Bot \notin Chat /\ NoChat \notin Chat \union {Bot}
ASSUME BudgetAssumption ==
    /\ BotPeriod \in Nat \ {0} /\ BotBurst \in Nat \ {0}
    /\ ChatPeriod \in Nat \ {0} /\ ChatBurst \in Nat \ {0}
    /\ MaxCost \in Nat \ {0}
ASSUME RetryAssumption ==
    /\ MaxRetries \in Nat /\ RetryAfter \subseteq Nat /\ MinRetryDelay \in Nat

VARIABLES
    gcra,   \* the value of each budget's key and when the key expires
    call,   \* what each coroutine is doing
    window  \* history: the reservations of one budget since one of them

vars == <<now, gcra, call, window>>

Key == Chat \union {Bot}

Period(k) == IF k = Bot THEN BotPeriod ELSE ChatPeriod
Tolerance(k) == IF k = Bot THEN (BotBurst - 1) * BotPeriod ELSE (ChatBurst - 1) * ChatPeriod

\* The bot is charged for each message of a media group, the chat for one.
Charge(k, cost) == IF k = Bot THEN BotPeriod * cost ELSE ChatPeriod

KeysOf(chat) == {Bot} \union ({chat} \intersect Chat)

Later(a, b) == IF a >= b THEN a ELSE b

(***************************************************************************)
(* reserve of RESERVE_SCRIPT: the slot it finds, and what it stores.       *)
(***************************************************************************)
Tat(k) == IF now < gcra[k].expires THEN Later(gcra[k].tat, now) ELSE now

Slot(k) == Later(now, Tat(k) - Tolerance(k))

\* Mutant: the time to live leaves out what is already reserved.
MutTimeToLive(k, tat) == Ceil(Period(k), Milli) + Second

TimeToLive(k, tat) == Ceil(tat - now + Tolerance(k), Milli) + Second

Reserved(k, cost) ==
    LET tat == Tat(k) + Charge(k, cost)
    IN  [tat |-> tat, expires |-> now + TimeToLive(k, tat)]

CallRecord ==
    [at      : {"idle", "paced", "backoff"},
     chat    : Chat \union {NoChat},
     cost    : 1 .. MaxCost,
     due     : Nat,              \* when it wakes up
     attempt : 0 .. MaxRetries,
     counted : BOOLEAN]          \* history: its reservation is in the window

Idle == [at |-> "idle", chat |-> NoChat, cost |-> 1, due |-> 0, attempt |-> 0,
         counted |-> FALSE]

\* Of the budget key: the first slot, the last one, what was reserved before
\* the last one and with it, and what has been sent.
NoWindow == [key |-> NoChat, since |-> 0, last |-> 0, before |-> 0, spent |-> 0, sent |-> 0]

Init ==
    /\ now = 0
    /\ gcra = [k \in Key |-> [tat |-> 0, expires |-> 0]]
    /\ call = [c \in Call |-> Idle]
    /\ window = NoWindow

-----------------------------------------------------------------------------
Observe(k, cost) ==
    window' = [key |-> k, last |-> Slot(k),
               since |-> IF window = NoWindow THEN Slot(k) ELSE window.since,
               before |-> window.spent, spent |-> window.spent + Charge(k, cost),
               sent |-> window.sent]

(***************************************************************************)
(* PaceRequests: reserve, then sleep until the later of the two slots.     *)
(* The reservation of k is, or is not, observed in the window.             *)
(***************************************************************************)
Pace(c, chat, cost, attempt) ==
    LET keys == KeysOf(chat)
        slot == IF chat \in Chat THEN Later(Slot(Bot), Slot(chat)) ELSE Slot(Bot)
        Sleep(counted) ==
            call' = [call EXCEPT ![c] =
                       [at |-> "paced", chat |-> chat, cost |-> cost, attempt |-> attempt,
                        due |-> now + Ceil(slot - now, Milli), counted |-> counted]]
    IN  /\ \A k \in keys : Tat(k) + Charge(k, cost) <= MaxTime
        /\ gcra' = [k \in Key |-> IF k \in keys THEN Reserved(k, cost) ELSE gcra[k]]
        /\ \/ \E k \in keys : /\ window = NoWindow \/ window.key = k
                              /\ Observe(k, cost)
                              /\ Sleep(TRUE)
           \/ window.key \notin keys /\ UNCHANGED window /\ Sleep(FALSE)
        /\ UNCHANGED now

Request(c) ==
    /\ call[c].at = "idle"
    /\ \E chat \in Chat \union {NoChat}, cost \in 1 .. MaxCost : Pace(c, chat, cost, 0)

(***************************************************************************)
(* The request is on the wire once the sleep is over, however late.        *)
(***************************************************************************)
Send(c) ==
    /\ call[c].at = "paced" /\ now >= call[c].due
    /\ window' = IF call[c].counted
                   THEN [window EXCEPT !.sent = @ + Charge(window.key, call[c].cost)]
                   ELSE window
    /\ UNCHANGED <<now, gcra>>

\* Telegram's answer, or an error RetryFloodControl lets through.
Answered(c) ==
    /\ Send(c)
    /\ call' = [call EXCEPT ![c] = Idle]

\* TelegramRetryAfter: back off and try again, or give up.
Flooded(c) ==
    /\ Send(c)
    /\ \/ /\ call[c].attempt = MaxRetries
          /\ call' = [call EXCEPT ![c] = Idle]
       \/ /\ call[c].attempt < MaxRetries
          /\ \E after \in RetryAfter :
                call' = [call EXCEPT ![c].at = "backoff", ![c].attempt = @ + 1,
                                     ![c].due = now + Later(after, MinRetryDelay)]

\* Mutant: the retry is inside the pacing, and sends without a slot of its own.
MutRetry(c) ==
    /\ call[c].at = "backoff" /\ now >= call[c].due
    /\ call' = [call EXCEPT ![c].at = "paced"]
    /\ UNCHANGED <<now, gcra, window>>

\* make_request again, PaceRequests included.
Retry(c) ==
    /\ call[c].at = "backoff" /\ now >= call[c].due
    /\ Pace(c, call[c].chat, call[c].cost, call[c].attempt)

\* Cancellation, or a crash of the worker: a slot it has reserved stays unused.
Abandon(c) ==
    /\ call[c].at # "idle"
    /\ call' = [call EXCEPT ![c] = Idle]
    /\ UNCHANGED <<now, gcra, window>>

Tick ==
    /\ TimePasses
    /\ UNCHANGED <<gcra, call, window>>

Next ==
    \/ \E c \in Call : \/ Request(c) \/ Answered(c) \/ Flooded(c)
                       \/ Retry(c) \/ Abandon(c)
    \/ Tick

Spec == Init /\ [][Next]_vars

-----------------------------------------------------------------------------
(***************************************************************************)
(* Types; a request is tried 1 + MaxRetries times at the most.             *)
(***************************************************************************)
Budget == [tat : Nat, expires : Nat]

TypeOK ==
    /\ now \in Nat
    /\ gcra \in [Key -> Budget]
    /\ call \in [Call -> CallRecord]
    /\ window \in [key : Key \union {NoChat}, since : Nat, last : Nat,
                   before : Nat, spent : Nat, sent : Nat]

(***************************************************************************)
(* The slots of a budget are spread out, whoever reserves them: from any   *)
(* slot to any later one, what was reserved before the later fits in the   *)
(* burst and the time between them, whether or not the key expired         *)
(* meanwhile, and no reservation gets an earlier slot than one made before.*)
(***************************************************************************)
SlotsAreSpread ==
    window # NoWindow =>
       /\ window.before <= Tolerance(window.key) + (window.last - window.since)
       /\ window.since <= window.last

(***************************************************************************)
(* What goes on the wire stays within the budget: of the messages reserved *)
(* from some slot on, no more is ever sent than the burst and the time     *)
(* since that slot allow, repetitions after a flood answer included, up to *)
(* the size of one media group.                                            *)
(***************************************************************************)
SendsAreWithinBudget ==
    window.sent > 0 =>
       window.sent <= Tolerance(window.key) + (now - window.since)
                        + Charge(window.key, MaxCost)
=============================================================================
