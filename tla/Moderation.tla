----------------------------- MODULE Moderation -----------------------------
(***************************************************************************)
(* Moderation of suggestions in one userbot: authors submit, admins walk   *)
(* through a queue of pending suggestions kept in their FSM data, accept,  *)
(* decline or ban the author, and an acceptance enqueues the publication.  *)
(*                                                                         *)
(* Updates are handled concurrently: a handler is a job that takes one     *)
(* step per await that reads or writes shared state (a Postgres statement  *)
(* or COMMIT, an FSM read or write, a message), and FSMContext.update_data *)
(* is a get_data followed by a set_data.  Those of one chat are handled    *)
(* concurrently here too, which is more than the code does: the Dispatcher *)
(* of main.py has no events isolation, but aiogram-dialog locks the stack  *)
(* of a chat while a message or a tap of it is handled.                    *)
(*                                                                         *)
(* The queue, a list seeded in id order and popped at the front, is the    *)
(* set of its ids, popped at the least one.                                *)
(***************************************************************************)
EXTENDS Naturals, FiniteSets

CONSTANTS
    Handler,      \* updates being handled at a time
    User,
    Owner,        \* the owner of the userbot
    Suggestion,   \* suggestion ids, allocated in increasing order
    AuthorOf,     \* AuthorOf[x]: who submits x
    PageSize,     \* the limit of get_active, 10 in the code
    RoleMenu,     \* bound: the roles set from the menu of user_moderation
    NoSuggestion, \* no "current_suggestion" in the FSM data
    NoUser

ASSUME UserAssumption == Owner \in User /\ NoUser \notin User
ASSUME SuggestionAssumption ==
    /\ Suggestion \subseteq Nat /\ NoSuggestion \notin Suggestion
    /\ AuthorOf \in [Suggestion -> User]
ASSUME PageAssumption == PageSize \in Nat \ {0}
ASSUME RoleAssumption == RoleMenu \subseteq {"user", "admin", "banned"}

VARIABLES
    status,     \* committed suggestion rows; "inserting" and "void": see Create, Fail
    role,       \* committed user profiles
    state,      \* FSM state of each user
    data,       \* FSM data of each user
    job,        \* what each handler is doing
    held,       \* suggestion rows the transaction of each handler has written
    dispatched, \* publication tasks enqueued for each suggestion
    lost,       \* history: accepted, but the handler failed before enqueueing
    shown,      \* history: what was sent to each admin for a verdict
    judge,      \* history: the admin whose verdict a suggestion has
    raced,      \* history: submissions committed after the author's ban had declined
    everAdmin   \* history: who has been an admin, and may have been shown the viewer's button

vars == <<status, role, state, data, job, held, dispatched, lost, shown, judge, raced, everAdmin>>

Status == {"absent", "inserting", "void", "pending", "accepted", "declined"}
Role == {"user", "admin", "banned"}
Verdict == {"accepted", "declined"}
FsmData == [queue : SUBSET Suggestion, current : Suggestion \union {NoSuggestion}]
NoData == [queue |-> {}, current |-> NoSuggestion]

(***************************************************************************)
(* The await a job is at.                                                  *)
(***************************************************************************)
Label == {"idle", "submit", "created", "enter", "entered", "current", "judge", "judged",
          "dispatch", "role", "decline", "rows", "roled", "advance", "refetch",
          "seed", "seeding", "reseed", "reseeding", "pop", "popping",
          "send", "show", "showing", "viewer", "menu", "clear"}

(***************************************************************************)
(* A job: what is known to a handler between two awaits.  At some awaits   *)
(* it needs a suggestion in hand, a target or an operation of some kind.   *)
(***************************************************************************)
WithSuggestion == {"created", "judge", "judged", "dispatch", "popping", "send", "show", "showing"}
WithProfile == {"decline", "rows", "roled"}

JobRecord ==
    [at     : Label,
     op     : {"none", "submit", "enter", "ban", "message", "back"} \union Verdict \union Role,
     user   : User \union {NoUser},                \* who sent the update
     on     : Suggestion \union {NoSuggestion},    \* the suggestion in hand
     target : User \union {NoUser},                \* whose role changes
     batch  : SUBSET Suggestion,                   \* page, queue or rows to decline
     copy   : FsmData]                             \* what update_data has read

Job == {j \in JobRecord :
          /\ j.at # "idle" => j.user \in User
          /\ j.at \in WithSuggestion => j.on \in Suggestion
          /\ j.at \in WithProfile \union {"role"} => j.target \in User
          /\ j.at = "current" => j.op \in Verdict \union {"ban"}
          /\ j.at \in {"judge", "judged"} => j.op \in Verdict
          /\ j.at = "role" => j.op \in Role \union {"ban"}
          /\ j.at \in {"decline", "rows"} => j.op \in {"ban", "banned"}
          /\ j.at = "roled" => j.op \in {"user", "admin"}}

Idle == [at |-> "idle", op |-> "none", user |-> NoUser, on |-> NoSuggestion,
         target |-> NoUser, batch |-> {}, copy |-> NoData]

Init ==
    /\ status = [x \in Suggestion |-> "absent"]
    /\ role = [u \in User |-> IF u = Owner THEN "admin" ELSE "user"]
    /\ state = [u \in User |-> "none"]
    /\ data = [u \in User |-> NoData]
    /\ job = [h \in Handler |-> Idle]
    /\ held = [h \in Handler |-> {}]
    /\ dispatched = [x \in Suggestion |-> 0]
    /\ lost = {}
    /\ shown = [u \in User |-> {}]
    /\ judge = [x \in Suggestion |-> NoUser]
    /\ raced = {}
    /\ everAdmin = {Owner}

database == <<status, role, held>>
fsm == <<state, data>>
history == <<dispatched, lost, shown, judge, raced, everAdmin>>

Goto(h, label) == job' = [job EXCEPT ![h].at = label]
End(h) == job' = [job EXCEPT ![h] = Idle]

\* What is left of the handler is to advance; it then only matters whether it entered.
Advance(h) ==
    job' = [job EXCEPT ![h] = [Idle EXCEPT !.at = "advance", !.user = job[h].user,
                                           !.op = IF job[h].op = "enter" THEN "enter" ELSE "none"]]

Pending(u) == {x \in Suggestion : status[x] = "pending" /\ AuthorOf[x] = u}

(***************************************************************************)
(* Postgres row locks: an UPDATE waits for the transaction that wrote the  *)
(* row to end.                                                             *)
(***************************************************************************)
RowLocked(h, x) == \E g \in Handler \ {h} : x \in held[g]
ProfileLocked(u) == \E g \in Handler : job[g].at \in WithProfile /\ job[g].target = u

(***************************************************************************)
(* SuggestionRepository.get_active: pending, in id order, one page.        *)
(***************************************************************************)
ActivePage ==
    LET pending == {x \in Suggestion : status[x] = "pending"}
    IN  {x \in pending : Cardinality({y \in pending : y < x}) < PageSize}

-----------------------------------------------------------------------------
(***************************************************************************)
(* The middlewares let an update through: BanCheckMiddleware and           *)
(* AdminMiddleware look at the profile once, before the handler starts,    *)
(* and the router filters on the FSM state.  The profile is as in the row; *)
(* UserColumns and Dialogs have those Redis kept from before a change.     *)
(***************************************************************************)
Start(h, u, op, label, target) ==
    /\ job[h].at = "idle"
    /\ job' = [job EXCEPT ![h] = [Idle EXCEPT !.at = label, !.op = op, !.user = u,
                                              !.target = target]]
    /\ UNCHANGED <<database, fsm, history>>

ReceiveSubmission(h, u) ==
    role[u] # "banned" /\ Start(h, u, "submit", "submit", NoUser)

\* The button is in the menu of all users, drawn for admins only: a menu drawn before a
\* demotion still has it, and nothing looks at the role when it is tapped.
ReceiveEnter(h, u) ==
    role[u] # "banned" /\ u \in everAdmin /\ Start(h, u, "enter", "enter", NoUser)

ReceiveVerdict(h, u) ==
    /\ role[u] = "admin" /\ state[u] = "in_viewer"
    /\ \E op \in Verdict \union {"ban"} : Start(h, u, op, "current", NoUser)

ReceiveRoleChange(h, u) ==
    /\ role[u] = "admin"
    /\ \E op \in RoleMenu, target \in User : Start(h, u, op, "role", target)

\* enter_message_to_user; message_to_user and viewer_back, which come back.
ReceiveMessage(h, u) ==
    /\ role[u] = "admin"
    /\ \/ state[u] = "in_viewer" /\ Start(h, u, "message", "viewer", NoUser)
       \/ state[u] = "message_user" /\ Start(h, u, "back", "viewer", NoUser)

\* start_main_menu and cancel, which clear a state they have found set.
ReceiveStart(h, u) ==
    role[u] # "banned" /\ state[u] # "none" /\ Start(h, u, "none", "menu", NoUser)

DemoteAdmins ==
    LET demoted == {u \in User \ {Owner} : role[u] = "admin"}
    IN  /\ demoted # {} /\ \A u \in demoted : ~ProfileLocked(u)
        /\ role' = [u \in User |-> IF u \in demoted THEN "user" ELSE role[u]]
        /\ UNCHANGED <<status, held, fsm, job, history>>

-----------------------------------------------------------------------------
(***************************************************************************)
(* on_album_received: insert and commit.  Ids come from a sequence, so an  *)
(* insert that is rolled back leaves its id void.                          *)
(***************************************************************************)
Create(h, x) ==
    /\ job[h].at = "submit" /\ job[h].user = AuthorOf[x]
    /\ status[x] = "absent" /\ \A y \in Suggestion : y < x => status[y] # "absent"
    /\ status' = [status EXCEPT ![x] = "inserting"]
    /\ held' = [held EXCEPT ![h] = {x}]
    /\ job' = [job EXCEPT ![h].at = "created", ![h].on = x]
    /\ UNCHANGED <<role, fsm, history>>

\* UnsupportedPayload, before anything is written.
Reject(h) ==
    /\ job[h].at = "submit"
    /\ End(h)
    /\ UNCHANGED <<database, fsm, history>>

CommitSubmission(h) ==
    LET x == job[h].on
        u == AuthorOf[x]
        tooLate == \/ role[u] = "banned"
                   \/ \E g \in Handler : job[g].at = "rows" /\ job[g].target = u
    IN  /\ job[h].at = "created"
        /\ status' = [status EXCEPT ![x] = "pending"]
        /\ held' = [held EXCEPT ![h] = {}]
        /\ raced' = IF tooLate THEN raced \union {x} ELSE raced
        /\ End(h)
        /\ UNCHANGED <<role, fsm, dispatched, lost, shown, judge, everAdmin>>

-----------------------------------------------------------------------------
(***************************************************************************)
(* SuggestionViewer.get_current: without a current suggestion a verdict    *)
(* returns to the menu, and viewer_ban_author fails on None.author_id.     *)
(***************************************************************************)
GetCurrent(h) ==
    LET x == data[job[h].user].current
    IN  /\ job[h].at = "current"
        /\ \/ /\ x = NoSuggestion /\ job[h].op \in Verdict
              /\ Goto(h, "menu")
           \/ /\ x = NoSuggestion /\ job[h].op = "ban"
              /\ End(h)
           \/ /\ x # NoSuggestion /\ job[h].op \in Verdict
              /\ job' = [job EXCEPT ![h].at = "judge", ![h].on = x]
           \/ /\ x # NoSuggestion /\ job[h].op = "ban"
              /\ job' = [job EXCEPT ![h].at = "role", ![h].target = AuthorOf[x]]
        /\ UNCHANGED <<database, fsm, history>>

\* Mutant: the UPDATE without its condition on the status.
MutJudge(h) ==
    /\ job[h].at = "judge" /\ ~RowLocked(h, job[h].on)
    /\ held' = [held EXCEPT ![h] = {job[h].on}]
    /\ Goto(h, "judged")
    /\ UNCHANGED <<status, role, fsm, history>>

(***************************************************************************)
(* UPDATE suggestion SET status = verdict WHERE id = x AND status =        *)
(* PENDING: no row, and the verdict is not applied.                        *)
(***************************************************************************)
Judge(h) ==
    LET x == job[h].on
    IN  /\ job[h].at = "judge" /\ ~RowLocked(h, x)
        /\ \/ /\ status[x] = "pending"
              /\ held' = [held EXCEPT ![h] = {x}]
              /\ Goto(h, "judged")
           \/ /\ status[x] # "pending"
              /\ End(h)
              /\ UNCHANGED held
        /\ UNCHANGED <<status, role, fsm, history>>

\* Mutant: the COMMIT leaves the row locked.
MutCommitVerdict(h) ==
    LET x == job[h].on
    IN  /\ job[h].at = "judged"
        /\ status' = [status EXCEPT ![x] = job[h].op]
        /\ judge' = [judge EXCEPT ![x] = job[h].user]
        /\ IF job[h].op = "accepted" THEN Goto(h, "dispatch") ELSE Advance(h)
        /\ UNCHANGED <<held, role, fsm, dispatched, lost, shown, raced, everAdmin>>

CommitVerdict(h) ==
    LET x == job[h].on
    IN  /\ job[h].at = "judged"
        /\ status' = [status EXCEPT ![x] = job[h].op]
        /\ held' = [held EXCEPT ![h] = {}]
        /\ judge' = [judge EXCEPT ![x] = job[h].user]
        /\ IF job[h].op = "accepted" THEN Goto(h, "dispatch") ELSE Advance(h)
        /\ UNCHANGED <<role, fsm, dispatched, lost, shown, raced, everAdmin>>

(***************************************************************************)
(* suggestion_accepted.kiq, after the COMMIT.                              *)
(***************************************************************************)
Dispatch(h) ==
    /\ job[h].at = "dispatch"
    /\ dispatched' = [dispatched EXCEPT ![job[h].on] = @ + 1]
    /\ Advance(h)
    /\ UNCHANGED <<database, fsm, lost, shown, judge, raced, everAdmin>>

-----------------------------------------------------------------------------
(***************************************************************************)
(* ChangeRoleUseCase: the caller and the owner are immune; the profile is  *)
(* saved; a ban then declines what the author has pending.  The UPDATE     *)
(* that declines selects its rows when it starts, waits for each that is   *)
(* locked and looks at its status again.                                   *)
(***************************************************************************)
ChangeRole(h) ==
    LET u == job[h].target
        ban == job[h].op \in {"ban", "banned"}
    IN  /\ job[h].at = "role"
        /\ \/ /\ u \in {job[h].user, Owner}
              /\ End(h)
           \/ /\ u \notin {job[h].user, Owner} /\ ~ProfileLocked(u)
              /\ Goto(h, IF ban THEN "decline" ELSE "roled")
        /\ UNCHANGED <<database, fsm, history>>

\* Mutant: the ban declines only what the admin has in the viewer.
MutDeclineSuggestion(h) ==
    /\ job[h].at = "decline"
    /\ job' = [job EXCEPT ![h].at = "rows",
                          ![h].batch = Pending(job[h].target)
                                         \intersect {data[job[h].user].current}]
    /\ UNCHANGED <<database, fsm, history>>

DeclineSuggestion(h) ==
    /\ job[h].at = "decline"
    /\ job' = [job EXCEPT ![h].at = "rows", ![h].batch = Pending(job[h].target)]
    /\ UNCHANGED <<database, fsm, history>>

DeclineRow(h, x) ==
    /\ job[h].at = "rows" /\ x \in job[h].batch /\ ~RowLocked(h, x)
    /\ job' = [job EXCEPT ![h].batch = @ \ {x}]
    /\ held' = IF status[x] = "pending"
                 THEN [held EXCEPT ![h] = @ \union {x}]
                 ELSE held
    /\ UNCHANGED <<status, role, fsm, history>>

CommitRole(h) ==
    LET newRole == IF job[h].op = "ban" THEN "banned" ELSE job[h].op
    IN  /\ \/ job[h].at = "roled"
           \/ job[h].at = "rows" /\ job[h].batch = {}
        /\ role' = [role EXCEPT ![job[h].target] = newRole]
        /\ status' = [x \in Suggestion |-> IF x \in held[h] THEN "declined" ELSE status[x]]
        /\ held' = [held EXCEPT ![h] = {}]
        /\ everAdmin' = IF newRole = "admin" THEN everAdmin \union {job[h].target} ELSE everAdmin
        /\ IF job[h].op = "ban" THEN Advance(h) ELSE End(h)
        /\ UNCHANGED <<fsm, dispatched, lost, shown, judge, raced>>

-----------------------------------------------------------------------------
(***************************************************************************)
(* enter_suggestion_viewer: a page, the FSM state, the queue, then advance *)
(***************************************************************************)
Enter(h) ==
    /\ job[h].at = "enter"
    /\ IF ActivePage = {}
       THEN End(h)
       ELSE job' = [job EXCEPT ![h].at = "entered", ![h].batch = ActivePage]
    /\ UNCHANGED <<database, fsm, history>>

SetInViewer(h) ==
    /\ job[h].at = "entered"
    /\ state' = [state EXCEPT ![job[h].user] = "in_viewer"]
    /\ Goto(h, "seed")
    /\ UNCHANGED <<database, data, history>>

(***************************************************************************)
(* SuggestionQueue.next_suggestion: the queue of the FSM data, or the next *)
(* page when it is empty; nothing pending takes a verdict back to the menu *)
(* (enter_suggestion_viewer ignores what advance returns).                 *)
(***************************************************************************)
GetQueue(h) ==
    LET queue == data[job[h].user].queue
    IN  /\ job[h].at = "advance"
        /\ job' = IF queue # {}
                    THEN [job EXCEPT ![h].at = "pop", ![h].op = "none", ![h].batch = queue]
                    ELSE [job EXCEPT ![h].at = "refetch"]
        /\ UNCHANGED <<database, fsm, history>>

Refetch(h) ==
    /\ job[h].at = "refetch"
    /\ \/ /\ ActivePage # {}
          /\ job' = [job EXCEPT ![h].at = "reseed", ![h].op = "none",
                                ![h].batch = ActivePage]
       \/ /\ ActivePage = {}
          /\ IF job[h].op = "enter" THEN End(h) ELSE Goto(h, "menu")
    /\ UNCHANGED <<database, fsm, history>>

(***************************************************************************)
(* FSMContext.update_data reads the data (Load), then writes it back with  *)
(* the new value.  What it overwrites need not be remembered.              *)
(***************************************************************************)
ButQueue(u) == [data[u] EXCEPT !.queue = {}]
ButCurrent(u) == [data[u] EXCEPT !.current = NoSuggestion]

Load(h) ==
    /\ \/ /\ job[h].at \in {"seed", "reseed"}
          /\ job' = [job EXCEPT ![h].at = IF @ = "seed" THEN "seeding" ELSE "reseeding",
                                ![h].copy = ButQueue(job[h].user)]
       \/ /\ job[h].at = "show"
          /\ job' = [job EXCEPT ![h].at = "showing", ![h].copy = ButCurrent(job[h].user)]
    /\ UNCHANGED <<database, fsm, history>>

SeedQueue(h) ==
    /\ job[h].at \in {"seeding", "reseeding"}
    /\ data' = [data EXCEPT ![job[h].user] = [job[h].copy EXCEPT !.queue = job[h].batch]]
    /\ IF job[h].at = "seeding"
         THEN Advance(h)
         ELSE job' = [job EXCEPT ![h].at = "pop", ![h].copy = NoData]
    /\ UNCHANGED <<database, state, history>>

\* queue.pop(0), and the read of update_data.
Pop(h) ==
    /\ job[h].at = "pop"
    /\ \E x \in job[h].batch :
          /\ \A y \in job[h].batch : x <= y
          /\ job' = [job EXCEPT ![h].at = "popping", ![h].on = x,
                                ![h].batch = @ \ {x},
                                ![h].copy = ButQueue(job[h].user)]
    /\ UNCHANGED <<database, fsm, history>>

\* Mutant: the suggestion is made current first and shown after.
MutFromQueue(h) ==
    /\ job[h].at = "popping"
    /\ data' = [data EXCEPT ![job[h].user] =
                   [queue |-> job[h].batch, current |-> job[h].on]]
    /\ job' = [job EXCEPT ![h].at = "send", ![h].batch = {}, ![h].copy = NoData]
    /\ UNCHANGED <<database, state, history>>

FromQueue(h) ==
    /\ job[h].at = "popping"
    /\ data' = [data EXCEPT ![job[h].user] = [job[h].copy EXCEPT !.queue = job[h].batch]]
    /\ job' = [job EXCEPT ![h].at = "send", ![h].batch = {}, ![h].copy = NoData]
    /\ UNCHANGED <<database, state, history>>

(***************************************************************************)
(* SuggestionViewer.advance shows the suggestion, then makes it current.   *)
(* send_to_admin sends two messages: it may fail after the first.          *)
(***************************************************************************)
SendToAdmin(h) ==
    /\ job[h].at = "send"
    /\ shown' = [shown EXCEPT ![job[h].user] = @ \union {job[h].on}]
    /\ Goto(h, "show") \/ End(h)
    /\ UNCHANGED <<database, fsm, dispatched, lost, judge, raced, everAdmin>>

SetCurrent(h) ==
    /\ job[h].at = "showing"
    /\ data' = [data EXCEPT ![job[h].user] = [job[h].copy EXCEPT !.current = job[h].on]]
    /\ End(h)
    /\ UNCHANGED <<database, state, history>>

\* FSMContext.set_state, the whole effect of the handlers around message_to_user.
SetViewerState(h) ==
    /\ job[h].at = "viewer"
    /\ state' = [state EXCEPT ![job[h].user] =
                    IF job[h].op = "message" THEN "message_user" ELSE "in_viewer"]
    /\ End(h)
    /\ UNCHANGED <<database, data, history>>

\* FSMContext.clear resets the state, then the data.
ReturnToMenu(h) ==
    /\ job[h].at = "menu"
    /\ state' = [state EXCEPT ![job[h].user] = "none"]
    /\ Goto(h, "clear")
    /\ UNCHANGED <<database, data, history>>

ClearData(h) ==
    /\ job[h].at = "clear"
    /\ data' = [data EXCEPT ![job[h].user] = NoData]
    /\ End(h)
    /\ UNCHANGED <<database, state, history>>

-----------------------------------------------------------------------------
(***************************************************************************)
(* A handler ends early: an exception (Telegram, Redis, Postgres),         *)
(* cancellation or a crash of the process.  Its transaction is rolled      *)
(* back; what it committed and wrote to Redis stays.                       *)
(***************************************************************************)
Fail(h) ==
    /\ job[h].at # "idle"
    /\ status' = [x \in Suggestion |->
                     IF x \in held[h] /\ status[x] = "inserting" THEN "void" ELSE status[x]]
    /\ held' = [held EXCEPT ![h] = {}]
    /\ lost' = IF job[h].at = "dispatch" THEN lost \union {job[h].on} ELSE lost
    /\ End(h)
    /\ UNCHANGED <<role, fsm, dispatched, shown, judge, raced, everAdmin>>

(***************************************************************************)
(* The next await of a handler, and the updates that arrive.               *)
(***************************************************************************)
Step(h) ==
    \/ \E x \in Suggestion : Create(h, x) \/ DeclineRow(h, x)
    \/ Reject(h) \/ CommitSubmission(h)
    \/ GetCurrent(h) \/ Judge(h) \/ CommitVerdict(h) \/ Dispatch(h)
    \/ ChangeRole(h) \/ DeclineSuggestion(h) \/ CommitRole(h)
    \/ Enter(h) \/ SetInViewer(h) \/ GetQueue(h) \/ Refetch(h) \/ Load(h) \/ SeedQueue(h)
    \/ Pop(h) \/ FromQueue(h) \/ SendToAdmin(h) \/ SetCurrent(h)
    \/ SetViewerState(h) \/ ReturnToMenu(h) \/ ClearData(h)

Receive(h, u) ==
    \/ ReceiveSubmission(h, u) \/ ReceiveEnter(h, u)
    \/ ReceiveVerdict(h, u) \/ ReceiveRoleChange(h, u)
    \/ ReceiveMessage(h, u) \/ ReceiveStart(h, u)

Next ==
    \/ \E h \in Handler : Step(h) \/ Fail(h)
    \/ \E h \in Handler, u \in User : Receive(h, u)
    \/ DemoteAdmins

Spec == Init /\ [][Next]_vars

(***************************************************************************)
(* The event loop and the servers keep answering; a lock is granted in the *)
(* order of the waiters, so a step enabled again and again is taken.       *)
(***************************************************************************)
Fairness == \A h \in Handler : SF_vars(Step(h))

LiveSpec == Spec /\ Fairness

-----------------------------------------------------------------------------
(***************************************************************************)
(* Types; Job ties what a handler holds to the await it is at.             *)
(***************************************************************************)
TypeOK ==
    /\ status \in [Suggestion -> Status]
    /\ role \in [User -> Role]
    /\ state \in [User -> {"none", "in_viewer", "message_user"}]
    /\ data \in [User -> FsmData]
    /\ job \in [Handler -> Job]
    /\ held \in [Handler -> SUBSET Suggestion]
    /\ dispatched \in [Suggestion -> Nat]
    /\ lost \subseteq Suggestion
    /\ shown \in [User -> SUBSET Suggestion]
    /\ judge \in [Suggestion -> User \union {NoUser}]
    /\ raced \subseteq Suggestion /\ everAdmin \subseteq User

(***************************************************************************)
(* An admin only ever judges what this bot has sent to that admin: no      *)
(* interleaving of double taps, queue refills and failed sends makes a     *)
(* suggestion current unseen.                                              *)
(***************************************************************************)
JudgedWasShown ==
    \A x \in Suggestion : judge[x] # NoUser => x \in shown[judge[x]]

(***************************************************************************)
(* A ban empties the author's queue: what a banned author still has        *)
(* pending is a submission that got past BanCheckMiddleware before the ban *)
(* and was committed after the ban had declined the others.                *)
(***************************************************************************)
BannedHasNothingPending ==
    \A x \in Suggestion :
       role[AuthorOf[x]] = "banned" /\ status[x] = "pending" => x \in raced

(***************************************************************************)
(* Uncommitted inserts and void ids are invisible: seen from outside the   *)
(* transactions, moderation implements the lifecycle of a suggestion.      *)
(***************************************************************************)
Committed == [x \in Suggestion |->
                 IF status[x] \in {"inserting", "void"} THEN "absent" ELSE status[x]]

Lifecycle == INSTANCE SuggestionLifecycle WITH verdict <- Committed

\* Every handler of the moderation, whatever interrupts it, takes one verdict per
\* suggestion and one publication task per acceptance (the UPDATE's condition on
\* the status and the kiq after the COMMIT in moderate_suggestion.py).
ImplementsLifecycle == Lifecycle!Spec

(***************************************************************************)
(* No handler waits forever: the row locks of verdicts, bans and role      *)
(* changes are never waited for in a circle and are always released.       *)
(***************************************************************************)
HandlerCompletes == \A h \in Handler : job[h].at # "idle" ~> job[h].at = "idle"
=============================================================================
