------------------------------ MODULE Dialogs ------------------------------
(***************************************************************************)
(* The menus of a userbot and of the registrar: dialogs of aiogram-dialog, *)
(* each with the windows of one state group, on a stack per chat.          *)
(*                                                                         *)
(* The keyboard of a window carries the id of the context it was rendered  *)
(* from.  A tap on a context that is no longer the top of the stack is     *)
(* refused; a message goes to the window that is the top when its turn     *)
(* comes.  The library handles the updates of a chat one at a time, but    *)
(* may read the context of a tap before its turn, and then saves what it   *)
(* has read.                                                               *)
(*                                                                         *)
(* Buttons that are not for a user are hidden when a window is rendered;   *)
(* nothing but AdminMiddleware and ProtectedStart looks at the role when a *)
(* button is tapped.  The middlewares have read the role before, from the  *)
(* profile in Redis if there is one, which may be of an earlier role.      *)
(*                                                                         *)
(* Entering the viewer of suggestions takes all dialogs off the stack: a   *)
(* dialog would get the messages that are meant for the viewer.            *)
(***************************************************************************)
EXTENDS Naturals, SequencesExt

CONSTANTS
    Target,     \* users to moderate, userbots to manage
    Slot,       \* bound: updates of the chat under way at a time
    None        \* nothing selected; no profile in Redis

Role == {"USER", "ADMIN", "BANNED"}

\* The windows of the dialogs, named for their states.
UserWindows == {"main", "settings", "language", "make_suggestion"}
AdminWindows ==
    {"admin", "app_stats", "user_select", "user_moderation", "user_message",
     "prepare_banner", "confirm_banner", "wait_broadcast", "broadcast_confirm"}
RegistrarWindows ==
    {"menu", "menu_language", "wait_token", "wait_channel_id",
     "select", "moderation", "confirm_demote", "update_token", "update_channel"}
Window == UserWindows \union AdminWindows \union RegistrarWindows

\* Windows of the dialogs with LaunchMode.ROOT.
Root ==
    {"main", "settings", "language", "admin", "app_stats",
     "menu", "menu_language", "wait_token", "wait_channel_id"}

\* Windows whose handlers work on what was selected, or on what was sent before.
WithTarget ==
    {"user_moderation", "user_message", "moderation", "confirm_demote", "update_token", "update_channel"}
WithContent == {"confirm_banner", "broadcast_confirm", "wait_channel_id"}

\* Buttons that lead to a window of the same dialog, or to the same window again.
UserSwitches(w) ==
    CASE w = "main" -> {"settings"}
      [] w = "settings" -> {"language", "main", "settings"}
      [] w = "language" -> {"settings"}
      [] OTHER -> {}

\* Mutant: the moderation of a user has a button back to the list.
MutAdminSwitches(w) ==
    CASE w = "admin" -> {"app_stats"}
      [] w = "app_stats" -> {"admin"}
      [] w = "user_select" -> {"user_select"}
      [] w = "user_moderation" -> {"user_message", "user_select"}
      [] OTHER -> {}

AdminSwitches(w) ==
    CASE w = "admin" -> {"app_stats"}
      [] w = "app_stats" -> {"admin"}
      [] w = "user_select" -> {"user_select"}
      [] w = "user_moderation" -> {"user_message"}
      [] OTHER -> {}

RegistrarSwitches(w) ==
    CASE w = "menu" -> {"menu_language"}
      [] w = "menu_language" -> {"menu"}
      [] w = "moderation" -> {"update_token", "update_channel", "confirm_demote"}
      [] w = "confirm_demote" -> {"moderation"}
      [] OTHER -> {}

Switches(w) == UserSwitches(w) \union AdminSwitches(w) \union RegistrarSwitches(w)

\* Buttons that start a dialog.
UserStarts(w) ==
    CASE w = "main" -> {"make_suggestion", "admin"}
      [] w = "make_suggestion" -> {"main"}
      [] OTHER -> {}

AdminStarts(w) ==
    IF w = "admin" THEN {"wait_broadcast", "user_select", "prepare_banner", "main"} ELSE {}

RegistrarStarts(w) ==
    IF w = "menu" THEN {"wait_token", "select"} ELSE {}

BackToAdmin(w) == IF w \in AdminWindows \ {"admin", "app_stats"} THEN {"admin"} ELSE {}

BackToMenu(w) ==
    IF w \in RegistrarWindows \ {"menu", "menu_language", "confirm_demote"} THEN {"menu"} ELSE {}

Starts(w) ==
    UserStarts(w) \union AdminStarts(w) \union RegistrarStarts(w)
        \union BackToAdmin(w) \union BackToMenu(w)

\* Buttons of the items of a list, of a confirmation, and others that do something.
Items(w) == IF w \in {"user_select", "select"} THEN Target ELSE {}

Confirmations(w) == IF w \in {"confirm_banner", "broadcast_confirm"} THEN {"confirm"} ELSE {}

Actions(w) ==
    CASE w = "main" -> {"viewer"}
      [] w = "user_moderation" -> {"change_role"}
      [] w = "moderation" -> {"toggle"}
      [] w = "confirm_demote" -> {"demote_admins"}
      [] OTHER -> {}

Buttons(w) == Switches(w) \union Starts(w) \union Items(w) \union Confirmations(w) \union Actions(w)
HiddenFromUsers == {"viewer", "admin"}

Label == Window \union {"confirm", "viewer", "change_role", "toggle", "demote_admins"}
Widget == Label \union Target

ASSUME TargetAssumption == Target \intersect Label = {} /\ None \notin Widget \union Role

VARIABLES
    side,       \* the home window of the bot: "main" of a userbot, "menu" of the registrar
    role,       \* the role of the user
    entry,      \* the profile of the user in Redis, by its role
    stack,      \* the contexts of the chat, the last one is shown
    viewer,     \* FSM state of the chat: "none", "in_viewer", "message_user"
    screen,     \* what the user sees: a window rendered from a context
    upd,        \* updates under way
    misled,     \* history: a tap acted on something its window did not show
    trespass    \* history: an update of a user who was no admin acted as one

vars == <<side, role, entry, stack, viewer, screen, upd, misled, trespass>>

Id == 1 .. 3
Context ==
    [id : Id, window : Window, target : Target \union {None}, content : BOOLEAN,
     raced : BOOLEAN]   \* history: saved by an update that had read it before another changed it
Blank == [id |-> 0]
Update ==
    [kind : {"free", "tap", "text", "start", "other"},   \* "other": not of this chat
     phase : {"sent", "loaded", "arrived"}, role : Role,
     wasAdmin : BOOLEAN,   \* history: its sender was an admin when it was sent or later
     demoted : BOOLEAN,    \* history: Redis gave it "ADMIN" for one who was none any more
     id : Id \union {0}, target : Target \union {None},
     widget : Widget \union {None}, context : Context \union {Blank}]
Rendering(c, admin) ==
    [id |-> c.id, window |-> c.window, target |-> c.target, admin |-> admin /\ c.window = "main"]
Free ==
    [kind |-> "free", phase |-> "sent", role |-> "USER", wasAdmin |-> FALSE,
     demoted |-> FALSE, id |-> 0, target |-> None, widget |-> None, context |-> Blank]
Under(u, phase) == upd[u].kind # "free" /\ upd[u].phase = phase

Top == Last(stack)
Ids(s) == {s[i].id : i \in DOMAIN s}
NewContext(w) ==
    [id |-> CHOOSE i \in Id : i \notin Ids(stack),
     window |-> w, target |-> None, content |-> FALSE, raced |-> FALSE]

Init ==
    /\ side \in {"main", "menu"}
    /\ role \in (IF side = "main" THEN {"USER", "ADMIN"} ELSE {"USER"})
    /\ entry = None
    /\ stack = <<>> /\ viewer = "none" /\ screen = Blank
    /\ upd = [u \in Slot |-> Free]
    /\ misled = FALSE /\ trespass = FALSE
-----------------------------------------------------------------------------
(***************************************************************************)
(* The user taps a button that is shown, writes, or sends /start.          *)
(***************************************************************************)
Send(u, update) ==
    /\ upd[u] = Free
    /\ upd' = [upd EXCEPT ![u] = [update EXCEPT !.wasAdmin = role = "ADMIN"]]
    /\ UNCHANGED <<side, role, entry, stack, viewer, screen, misled, trespass>>

Tap(u) ==
    /\ screen # Blank
    /\ \E widget \in Buttons(screen.window) :
          /\ widget \in HiddenFromUsers /\ screen.window = "main" => screen.admin
          /\ Send(u, [Free EXCEPT !.kind = "tap", !.id = screen.id,
                                  !.target = screen.target, !.widget = widget])

Write(u) == Send(u, [Free EXCEPT !.kind = "text"])
SendStart(u) == Send(u, [Free EXCEPT !.kind = "start"])

\* Someone else changes the role of the user; the profile in Redis goes later.
ChangeRole ==
    /\ side = "main"
    /\ role' \in Role \ {role}
    /\ upd' = [u \in Slot |->
          IF upd[u] # Free /\ role' = "ADMIN" THEN [upd[u] EXCEPT !.wasAdmin = TRUE] ELSE upd[u]]
    /\ UNCHANGED <<side, entry, stack, viewer, screen, misled, trespass>>

(***************************************************************************)
(* UserMiddleware reads the profile, from Redis or the row; what it read   *)
(* of the row it sets in Redis after the commit, if that succeeds.  Then   *)
(* BanCheckMiddleware; the context of a tap is read.                       *)
(***************************************************************************)
Own(u) == stack[CHOOSE i \in DOMAIN stack : stack[i].id = upd[u].id]

Arrives(u, update) ==
    /\ upd' = [upd EXCEPT ![u] =
          IF update.role = "BANNED" \/ update.kind = "other" THEN Free
          ELSE [update EXCEPT !.phase = "arrived",
                              !.context = IF update.kind = "tap" THEN Own(u) ELSE Blank]]
    /\ UNCHANGED <<side, role, stack, viewer, screen, misled, trespass>>

Hit(u) ==
    /\ Under(u, "sent") /\ entry # None
    /\ Arrives(u, [upd[u] EXCEPT !.role = entry,
                                 !.demoted = entry = "ADMIN" /\ role # "ADMIN"])
    /\ UNCHANGED entry

Load(u, update) ==
    /\ entry = None
    /\ upd' = [upd EXCEPT ![u] = [update EXCEPT !.phase = "loaded", !.role = role]]
    /\ UNCHANGED <<side, role, entry, stack, viewer, screen, misled, trespass>>

Miss(u) == Under(u, "sent") /\ Load(u, upd[u])

\* A handler of another chat, or a task, has to do with the user.
Visit(u) == upd[u] = Free /\ Load(u, [Free EXCEPT !.kind = "other"])

Fill(u) ==
    /\ Under(u, "loaded")
    /\ entry' \in {entry, upd[u].role}
    /\ Arrives(u, upd[u])

\* By who has changed the role, some time after the commit if at all, or by its expiry.
Drop ==
    /\ entry # None /\ entry' = None
    /\ UNCHANGED <<side, role, stack, viewer, screen, upd, misled, trespass>>
-----------------------------------------------------------------------------
(***************************************************************************)
(* What the handlers do to the stack.                                      *)
(***************************************************************************)
Put(c) == Append(Front(stack), c)
StartDialog(below, w) == IF w \in Root THEN <<NewContext(w)>> ELSE Append(below, NewContext(w))

\* The update is done; the window on top of s is shown.  Taps on contexts that are
\* removed have no effect: on_unknown_intent_or_state warns the user.  (One that has yet
\* to set the profile in Redis does; Visit stands for it.)
Show(u, s) ==
    /\ stack' = s
    /\ screen' = IF s = <<>> THEN Blank ELSE Rendering(Last(s), upd[u].role = "ADMIN")
    /\ upd' = [v \in Slot |->
          IF v = u \/ (upd[v].kind = "tap" /\ upd[v].id \notin Ids(s)) THEN Free ELSE upd[v]]
    /\ UNCHANGED <<side, role, entry>>

\* AdminMiddleware of the routers with the admin's dialogs.
\* Mutant: it is not asked.
MutMayUse(u, w) == TRUE

MayUse(u, w) == w \in AdminWindows => upd[u].role = "ADMIN"

\* ProtectedStart.
MayStart(u, w) == w = "admin" => upd[u].role = "ADMIN"

IsTop(u) == stack # <<>> /\ Top.id = upd[u].id

ReadBefore(u) ==
    IF upd[u].context = Top THEN Top ELSE [upd[u].context EXCEPT !.raced = TRUE]

\* The contexts that the handler of a tap may have: the one read before, the current one.
Loaded(u) ==
    IF Under(u, "arrived") /\ upd[u].kind = "tap" /\ IsTop(u)
    THEN {c \in {ReadBefore(u), Top} : MayUse(u, c.window)}
    ELSE {}

\* The tap is on a button of the window of c.
Tapped(u, widgets) == {c \in Loaded(u) : upd[u].widget \in widgets \intersect Buttons(c.window)}

\* A tap that acts on what is selected in c; an act for admins.
Acts(u, c) ==
    misled' = (misled \/ (c.target # upd[u].target /\ ~ c.raced))
ForAdmins(u) == trespass' = (trespass \/ ~ (upd[u].wasAdmin \/ upd[u].demoted))
ForOwner(u, w) == IF w \in AdminWindows THEN ForAdmins(u) ELSE UNCHANGED trespass
-----------------------------------------------------------------------------
\* SwitchTo, set_user_filter, prefer_anon_toggle, on_language_selected.
SwitchTo(u) ==
    /\ \E c \in Tapped(u, Window) :
          /\ upd[u].widget \in Switches(c.window)
          /\ Show(u, Put([c EXCEPT !.window = upd[u].widget]))
    /\ UNCHANGED <<viewer, misled, trespass>>

\* Start, ProtectedStart, start_registration of an owner below the limit.
Start(u) ==
    /\ \E c \in Tapped(u, Window) :
          /\ upd[u].widget \in Starts(c.window)
          /\ MayStart(u, upd[u].widget)
          /\ Show(u, StartDialog(Put(c), upd[u].widget))
    /\ ForOwner(u, upd[u].widget)
    /\ UNCHANGED <<viewer, misled>>

\* on_user_selected, on_bot_selected.
\* Mutant: what is selected is not kept.
MutSelect(u) ==
    /\ \E c \in Tapped(u, Target) :
          Show(u, Put([c EXCEPT !.window =
                  IF c.window = "user_select" THEN "user_moderation" ELSE "moderation"]))
    /\ UNCHANGED <<viewer, misled, trespass>>

Select(u) ==
    /\ \E c \in Tapped(u, Target) :
          Show(u, Put([c EXCEPT
              !.window = IF c.window = "user_select" THEN "user_moderation" ELSE "moderation",
              !.target = upd[u].widget]))
    /\ UNCHANGED <<viewer, misled, trespass>>

\* user_change_role, userbot_active_toggle, userbot_demote_admins.
Act(u) ==
    /\ \E c \in Tapped(u, {"change_role", "toggle", "demote_admins"}) :
          /\ Acts(u, c)
          /\ ForOwner(u, c.window)
          /\ Show(u, Put([c EXCEPT !.window = IF @ = "confirm_demote" THEN "moderation" ELSE @]))
    /\ UNCHANGED viewer

\* execute_banner, execute_broadcast.
Confirm(u) ==
    /\ \E c \in Tapped(u, {"confirm"}) :
          /\ ForAdmins(u)
          /\ Show(u, StartDialog(Put(c), "admin"))
    /\ UNCHANGED <<viewer, misled>>

\* enter_suggestion_viewer, when there are suggestions.
\* Mutant: the stack is kept.
MutEnterViewer(u) ==
    /\ \E c \in Tapped(u, {"viewer"}) : Show(u, Put(c))
    /\ viewer' = "in_viewer"
    /\ UNCHANGED <<misled, trespass>>

EnterViewer(u) ==
    /\ \E c \in Tapped(u, {"viewer"}) : Show(u, <<>>)
    /\ viewer' = "in_viewer"
    /\ UNCHANGED <<misled, trespass>>

(***************************************************************************)
(* The handler only answers: no permission, the limit, no suggestions, a   *)
(* broadcast or userbot that is locked; or the window has no such button.  *)
(* What was read is saved all the same.                                    *)
(***************************************************************************)
Answer(u) ==
    /\ \E c \in Loaded(u) :
          /\ \/ upd[u].widget \notin Buttons(c.window)
             \/ upd[u].widget \in {"wait_token", "viewer"}
             \/ c.window = "broadcast_confirm" /\ upd[u].widget = "confirm"
             \/ c.window = "select" /\ upd[u].widget \in Target
             \/ upd[u].widget \in Starts(c.window) /\ ~ MayStart(u, upd[u].widget)
          /\ Show(u, Put(c))
    /\ UNCHANGED <<viewer, misled, trespass>>

\* A tap on a context that is not the last, AdminMiddleware.
Refuse(u) ==
    /\ Under(u, "arrived") /\ upd[u].kind = "tap"
    /\ IsTop(u) => {ReadBefore(u), Top} # Loaded(u)
    /\ upd' = [upd EXCEPT ![u] = Free]
    /\ UNCHANGED <<side, role, entry, stack, viewer, screen, misled, trespass>>
-----------------------------------------------------------------------------
\* start_main_menu, cancel, master_start_menu.
StartMenu(u) ==
    /\ Under(u, "arrived") /\ upd[u].kind = "start"
    /\ viewer' = "none"
    /\ Show(u, StartDialog(<<>>, side))
    /\ UNCHANGED <<misled, trespass>>

\* A message is for the window w.
Written(u, w) ==
    /\ Under(u, "arrived") /\ upd[u].kind = "text"
    /\ stack # <<>> /\ Top.window = w /\ MayUse(u, w)

\* select_user.
SelectUser(u) ==
    /\ Written(u, "user_select")
    /\ \E t \in Target : Show(u, Put([Top EXCEPT !.target = t, !.window = "user_moderation"]))
    /\ ForAdmins(u)
    /\ UNCHANGED <<viewer, misled>>

\* message_to_user of the moderation dialog.
MessageToUser(u) ==
    /\ Written(u, "user_message")
    /\ Show(u, Put([Top EXCEPT !.window = "user_moderation"]))
    /\ ForAdmins(u)
    /\ UNCHANGED <<viewer, misled>>

\* get_banner_text, prepare_broadcast, bot_token_handler.
Prepare(u) ==
    /\ \E w \in {"prepare_banner", "wait_broadcast", "wait_token"} :
          /\ Written(u, w)
          /\ Show(u, Put([Top EXCEPT !.content = TRUE, !.window =
                CASE w = "prepare_banner" -> "confirm_banner"
                  [] w = "wait_broadcast" -> "broadcast_confirm"
                  [] w = "wait_token" -> "wait_channel_id"]))
          /\ ForOwner(u, w)
    /\ UNCHANGED <<viewer, misled>>

\* channel_id_handler: registered, or registered before.
Register(u) ==
    /\ Written(u, "wait_channel_id")
    /\ Show(u, StartDialog(stack, "menu"))
    /\ UNCHANGED <<viewer, misled, trespass>>

\* userbot_update_token, userbot_update_channel.
UpdateUserbot(u) ==
    /\ \E w \in {"update_token", "update_channel"} : Written(u, w)
    /\ Show(u, Put([Top EXCEPT !.window = "moderation"]))
    /\ UNCHANGED <<viewer, misled, trespass>>

\* on_album_received; a message that is no use where it arrives, or to a window without input.
Stay(u) ==
    /\ \E w \in Window : Written(u, w) /\ w # "user_message"
    /\ Show(u, stack)
    /\ UNCHANGED <<viewer, misled, trespass>>

\* AdminMiddleware; no handler.
RefuseText(u) ==
    /\ Under(u, "arrived") /\ upd[u].kind = "text"
    /\ IF stack = <<>> THEN viewer = "none" \/ upd[u].role # "ADMIN" ELSE ~ MayUse(u, Top.window)
    /\ upd' = [upd EXCEPT ![u] = Free]
    /\ UNCHANGED <<side, role, entry, stack, viewer, screen, misled, trespass>>

\* The keys of the viewer, behind AdminMiddleware.
ViewerText(u) ==
    /\ Under(u, "arrived") /\ upd[u].kind = "text"
    /\ stack = <<>> /\ viewer # "none" /\ upd[u].role = "ADMIN"
    /\ ForAdmins(u)
    /\ UNCHANGED misled

\* viewer_verdict, viewer_ban_author, enter_message_to_user, message_to_user, viewer_back.
ViewerStays(u) ==
    /\ ViewerText(u)
    /\ viewer' \in (IF viewer = "in_viewer" THEN {"in_viewer", "message_user"} ELSE {"in_viewer"})
    /\ Show(u, <<>>)

\* return_to_menu, after the last verdict.
ReturnToMenu(u) ==
    /\ ViewerText(u) /\ viewer = "in_viewer"
    /\ viewer' = "none"
    /\ Show(u, StartDialog(<<>>, "main"))
-----------------------------------------------------------------------------
HandleTap(u) ==
    SwitchTo(u) \/ Start(u) \/ Select(u) \/ Act(u) \/ Confirm(u) \/ EnterViewer(u)
        \/ Answer(u) \/ Refuse(u)

HandleMessage(u) ==
    StartMenu(u) \/ SelectUser(u) \/ MessageToUser(u) \/ Prepare(u) \/ Register(u)
        \/ UpdateUserbot(u) \/ Stay(u) \/ RefuseText(u) \/ ViewerStays(u) \/ ReturnToMenu(u)

Next ==
    \/ \E u \in Slot : Tap(u) \/ Write(u) \/ SendStart(u)
                           \/ Hit(u) \/ Miss(u) \/ Visit(u) \/ Fill(u)
                           \/ HandleTap(u) \/ HandleMessage(u)
    \/ ChangeRole \/ Drop

Spec == Init /\ [][Next]_vars
-----------------------------------------------------------------------------
TypeOK ==
    /\ side \in {"main", "menu"} /\ role \in Role /\ entry \in Role \union {None}
    /\ stack \in Seq(Context) /\ Len(stack) <= 2
    /\ viewer \in {"none", "in_viewer", "message_user"}
    /\ screen = Blank \/ screen \in
          [id : Id, window : Window, target : Target \union {None}, admin : BOOLEAN]
    /\ upd \in [Slot -> Update]
    /\ misled \in BOOLEAN /\ trespass \in BOOLEAN

(***************************************************************************)
(* A handler finds in the data of its dialog what it looks up there: the   *)
(* user or userbot selected, the token, the text or the messages sent in   *)
(* an earlier window, whatever taps and messages come in whatever order.   *)
(***************************************************************************)
DataIsThere ==
    \A i \in DOMAIN stack :
        /\ stack[i].window \in WithTarget => stack[i].target # None
        /\ stack[i].window \in WithContent => stack[i].content

(***************************************************************************)
(* While the viewer waits for a verdict or a message no dialog is on the   *)
(* stack that would get it in its place.                                   *)
(***************************************************************************)
ViewerIsHeard == viewer # "none" => stack = <<>>

(***************************************************************************)
(* A tap on a role, a switch or a demotion acts on the user or userbot its *)
(* window showed, however late it comes, but for a dialog in which two     *)
(* taps have raced: the one handled second had read its context first, and *)
(* has saved it over what the other one selected.                          *)
(***************************************************************************)
TapsActOnWhatIsShown == ~ misled

(***************************************************************************)
(* Who is demoted while windows of the admin are open does nothing with    *)
(* them: all that is done there, or in the viewer, is done for an update   *)
(* whose sender was an admin when it was sent or while it was under way,   *)
(* or whose profile came from Redis and was still that of an admin.  (The  *)
(* button of the viewer itself is only hidden, and opens to whoever still  *)
(* sees it.)                                                               *)
(***************************************************************************)
OnlyAdminsAct == ~ trespass
=============================================================================
