----------------------- MODULE UserbotLifecycle_proofs -----------------------
(***************************************************************************)
(* The types of UserbotLifecycle, the limit of userbots per owner, who is  *)
(* the admin, what has a webhook and what becomes of a loss of rights, for *)
(* every number of userbots, channels and updates and every limit.         *)
(***************************************************************************)
EXTENDS UserbotLifecycle, FiniteSetTheorems, TLAPS

USE DEF rowVars, telegramVars, historyVars, TelegramUnchanged, OwnerAt, Goto, Home

Label == Waiting \union Register \union Toggle \union Change

(***************************************************************************)
(* The parts of TypeOK by who writes them.                                 *)
(***************************************************************************)
RowType ==
    /\ registered \subseteq Userbot /\ active \subseteq registered
    /\ token \in [Userbot -> Token] /\ channel \in [Userbot -> Channel \union {NoChannel}]

TelegramType ==
    /\ hook \subseteq Userbot /\ live \in [Userbot -> Token]
    /\ rights \in [Userbot -> SUBSET Channel] /\ pending \in [Userbot -> SUBSET Channel]
    /\ faults \in 0 .. MaxFaults /\ crowded \in BOOLEAN
    /\ overtaken \subseteq Userbot /\ interrupted \subseteq Userbot
    /\ orphaned \subseteq Userbot /\ missed \in [Userbot -> SUBSET (Channel \union {NoChannel})]

Working == [at : Label, bot : Userbot \union {NoBot}, row : Row]

\* Whoever is past the first window of the registration works on a userbot.
Fit(d) ==
    /\ owner[d].at \notin {"menu", "token"} => owner[d].bot \in Userbot
    /\ owner[d].at = "token" => owner[d].bot = NoBot
    /\ owner[d].at \in {"created"} \union Toggle \union Change => owner[d].bot \in registered
    /\ owner[d].at \in {"create", "created", "savechannel"} => owner[d].row.channel \in Channel

OwnerType == owner \in [Chat -> Working] /\ \A d \in Chat : Fit(d)

UpdateType ==
    /\ update \in [Update -> [at : {"none", "demoted", "deactivated", "serving", "unauthorized"},
                              bot : Userbot \union {NoBot}, token : Token]]
    /\ \A u \in Update : update[u].at # "none" => update[u].bot \in Userbot

TaskType ==
    /\ task \in [Userbot -> [at : {"none", "queued", "profile", "hook"}, token : Token]]
    /\ admin \subseteq Userbot

TypeInv == RowType /\ TelegramType /\ OwnerType /\ UpdateType /\ TaskType

LEMMA TypeInvType == TypeInv => TypeOK
  BY DEF TypeInv, RowType, TelegramType, OwnerType, Fit, UpdateType, TaskType, TypeOK, Working, Label

LEMMA TypeInit == Init => TypeInv
<1> SUFFICES ASSUME Init PROVE TypeInv
  OBVIOUS
<1>0. 0 \in Token /\ NoRow \in Row
  BY BoundAssumption DEF Token, NoRow, Row
<1>1. RowType
  BY <1>0 DEF Init, RowType
<1>2. TelegramType
  <2>1. crowded \in BOOLEAN
    BY DEF Init
  <2> QED
    BY <1>0, <2>1, BoundAssumption DEF Init, TelegramType
<1>3. OwnerType
  BY <1>0 DEF Init, OwnerType, Fit, Working, Label, Menu, Waiting, Register, Toggle, Change
<1>4. UpdateType
  BY <1>0 DEF Init, UpdateType, Idle
<1>5. TaskType
  BY <1>0 DEF Init, TaskType
<1> QED
  BY <1>1, <1>2, <1>3, <1>4, <1>5 DEF TypeInv

\* One dialog moves at a time.
LEMMA OneDialog ==
  ASSUME TypeInv, NEW d \in Chat, OwnerStep(d)
  PROVE  /\ owner' = [owner EXCEPT ![d] = owner'[d]]
         /\ \A x \in Chat \ {d} : owner'[x] = owner[x]
<1>1. owner \in [Chat -> Working]
  BY DEF TypeInv, OwnerType
<1>2. \E w : owner' = [owner EXCEPT ![d] = w]
  BY <1>1 DEF OwnerStep, StartRegistration, AlreadyExists, Create, Enqueue, Leave, GiveToken, ReadRow,
     GiveChannel, NewChannelProbe, ToggleProbe, Off, OffSave, On, OnSave, NewTokenProbe, SaveToken,
     Refresh, SaveChannel, FailOwner
<1> QED
  BY <1>1, <1>2

\* What the owner's dialog and its handlers do with the rows and the owner.
LEMMA OwnerTyped ==
  ASSUME TypeInv, NEW d \in Chat, OwnerStep(d)
  PROVE  RowType' /\ OwnerType'
<1> USE DEF Waiting, Register, Toggle, Change, Label, Working
<1> DEFINE Typed == /\ RowType' /\ registered \subseteq registered'
                    /\ owner'[d] \in Working /\ Fit(d)'
<1>0. /\ RowType /\ TelegramType /\ owner \in [Chat -> Working] /\ Fit(d)
      /\ Menu \in Working /\ Menu.at = "menu"
      /\ \A b \in Userbot : RowOf(b) \in Row /\ live[b] \in Token
      /\ NoRow \in Row
  BY BoundAssumption DEF TypeInv, RowType, TelegramType, OwnerType, Menu, NoRow, Row, RowOf, Token
<1>m. ASSUME owner'[d] = Menu, RowType', registered \subseteq registered' PROVE Typed
  BY <1>0, <1>m DEF Fit
<1>1. ASSUME StartRegistration(d) PROVE Typed
  BY <1>0, <1>1 DEF StartRegistration, RowType, Fit, Menu
<1>2. ASSUME AlreadyExists(d) PROVE Typed
  BY <1>0, <1>2, <1>m DEF AlreadyExists, RowType
<1>3. ASSUME Create(d) PROVE Typed
  BY <1>0, <1>3 DEF Create, RowType, Fit, Row
<1>4. ASSUME Enqueue(d) PROVE Typed
  BY <1>0, <1>4, <1>m DEF Enqueue, RowType
<1>5. ASSUME Leave(d) PROVE Typed
  BY <1>0, <1>5, <1>m DEF Leave, RowType
<1>6. ASSUME NEW b \in Userbot, GiveToken(d, b) PROVE Typed
  BY <1>0, <1>6 DEF GiveToken, RowType, Fit, NoRow, Row
<1>7. ASSUME NEW b \in Userbot, ReadRow(d, b) PROVE Typed
  <2>1. PICK label \in {"toggle", "newtoken", "newchannel"} :
             owner'[d] = [at |-> label, bot |-> b, row |-> RowOf(b)]
    BY <1>0, <1>7 DEF ReadRow
  <2>2. owner'[d] \in Working /\ owner'[d].bot = b
        /\ owner'[d].at \in {"toggle", "newtoken", "newchannel"}
    BY <1>0, <2>1
  <2>3. RowType' /\ registered' = registered /\ b \in registered
    BY <1>0, <1>7 DEF ReadRow, RowType
  <2> QED
    BY <2>2, <2>3 DEF Fit
<1>8. ASSUME NEW c \in Channel, GiveChannel(d, c) PROVE Typed
  BY <1>0, <1>8 DEF GiveChannel, RowType, Fit, Row
<1>9. ASSUME NEW c \in Channel, NewChannelProbe(d, c) PROVE Typed
  <2>1. CASE owner'[d] = Menu
    BY <1>0, <1>9, <1>m, <2>1 DEF NewChannelProbe, RowType
  <2>2. CASE owner'[d] = [owner[d] EXCEPT !.at = "savechannel", !.row.channel = c]
    <3>1. RowType' /\ registered' = registered /\ owner[d].bot \in registered
      BY <1>0, <1>9 DEF NewChannelProbe, RowType, Fit
    <3>2. owner[d].row \in Row /\ owner[d].bot \in Userbot
      BY <1>0, <1>9 DEF NewChannelProbe, Fit
    <3>3. /\ [owner[d].row EXCEPT !.channel = c] \in Row
          /\ [owner[d].row EXCEPT !.channel = c].channel = c
      BY <3>2 DEF Row
    <3>4. owner'[d] = [at |-> "savechannel", bot |-> owner[d].bot,
                       row |-> [owner[d].row EXCEPT !.channel = c]]
      BY <1>0, <2>2
    <3>5. PICK r \in Row : /\ r.channel = c
                           /\ owner'[d] = [at |-> "savechannel", bot |-> owner[d].bot, row |-> r]
      BY <3>3, <3>4
    <3> QED
      BY <3>1, <3>2, <3>5 DEF Fit
  <2> QED
    BY <1>0, <1>9, <2>1, <2>2 DEF NewChannelProbe
<1>10. ASSUME ToggleProbe(d) PROVE Typed
  BY <1>0, <1>10 DEF ToggleProbe, RowType, Fit
<1>11. ASSUME Off(d) PROVE Typed
  <2>1. CASE owner'[d] = Menu
    BY <1>0, <1>11, <1>m, <2>1 DEF Off, RowType
  <2>2. CASE owner'[d] = [owner[d] EXCEPT !.at = "offsave"]
    BY <1>0, <1>11, <2>2 DEF Off, RowType, Fit
  <2> QED
    BY <1>0, <1>11, <2>1, <2>2 DEF Off
<1>12. ASSUME OffSave(d) PROVE Typed
  BY <1>0, <1>12, <1>m DEF OffSave, RowType
<1>13. ASSUME On(d) PROVE Typed
  <2>1. CASE owner'[d] = Menu
    BY <1>0, <1>13, <1>m, <2>1 DEF On, RowType
  <2>2. CASE owner'[d] = [owner[d] EXCEPT !.at = "onsave"]
    BY <1>0, <1>13, <2>2 DEF On, RowType, Fit
  <2> QED
    BY <1>0, <1>13, <2>1, <2>2 DEF On
<1>14. ASSUME OnSave(d) PROVE Typed
  BY <1>0, <1>14, <1>m DEF OnSave, RowType, Fit
<1>15. ASSUME NewTokenProbe(d) PROVE Typed
  <2>1. CASE owner'[d] = Menu
    BY <1>0, <1>15, <1>m, <2>1 DEF NewTokenProbe, RowType
  <2>2. CASE owner'[d] = [owner[d] EXCEPT !.at = "savetoken", !.row.token = live[owner[d].bot]]
    BY <1>0, <1>15, <2>2 DEF NewTokenProbe, RowType, Fit, Row
  <2> QED
    BY <1>0, <1>15, <2>1, <2>2 DEF NewTokenProbe
<1>16. ASSUME SaveToken(d) PROVE Typed
  <2>1. RowType' /\ registered' = registered
    BY <1>0, <1>16 DEF SaveToken, RowType, Fit, Row
  <2>2. CASE owner'[d] = Menu
    BY <1>m, <2>1, <2>2
  <2>3. CASE owner'[d] = [owner[d] EXCEPT !.at = "refresh"]
    BY <1>0, <1>16, <2>1, <2>3 DEF SaveToken, Fit
  <2> QED
    BY <1>0, <1>16, <2>1, <2>2, <2>3 DEF SaveToken
<1>17. ASSUME Refresh(d) PROVE Typed
  BY <1>0, <1>17, <1>m DEF Refresh, RowType
<1>18. ASSUME SaveChannel(d) PROVE Typed
  BY <1>0, <1>18, <1>m DEF SaveChannel, RowType, Fit
<1>19. ASSUME FailOwner(d) PROVE Typed
  <2>1. CASE owner'[d] = Menu
    BY <1>0, <1>19, <1>m, <2>1 DEF FailOwner, RowType
  <2>2. CASE owner[d].at \in Register /\ owner'[d] = [owner[d] EXCEPT !.at = "channel"]
    BY <1>0, <1>19, <2>2 DEF FailOwner, RowType, Fit
  <2> QED
    BY <1>0, <1>19, <2>1, <2>2 DEF FailOwner
<1>20. Typed
  BY <1>1, <1>2, <1>3, <1>4, <1>5, <1>6, <1>7, <1>8, <1>9, <1>10, <1>11, <1>12, <1>13, <1>14,
     <1>15, <1>16, <1>17, <1>18, <1>19 DEF OwnerStep
<1>21. OwnerType'
  BY <1>20, OneDialog DEF TypeInv, OwnerType, Fit
<1> QED
  BY <1>20, <1>21

\* What the owner's handlers leave of Telegram, of the updates and of the task.
LEMMA OwnerLeaves ==
  ASSUME TypeInv, NEW d \in Chat, OwnerStep(d)
  PROVE  TelegramType' /\ UpdateType' /\ TaskType'
<1>0. TelegramType /\ UpdateType /\ TaskType
  BY DEF TypeInv
<1>1. owner[d].at \notin {"menu", "token"} => owner[d].bot \in Userbot
  BY DEF TypeInv, OwnerType, Fit
<1>2. update' = update /\ UpdateType'
  BY <1>0 DEF OwnerStep, StartRegistration, AlreadyExists, Create, Enqueue, Leave, GiveToken, ReadRow,
     GiveChannel, NewChannelProbe, ToggleProbe, Off, OffSave, On, OnSave, NewTokenProbe, SaveToken,
     Refresh, SaveChannel, FailOwner, UpdateType
<1>3. TaskType'
  <2>1. CASE Enqueue(d)
    BY <1>0, <1>1, <2>1, BoundAssumption DEF Enqueue, TaskType, Token
  <2>2. CASE UNCHANGED <<task, admin>>
    BY <1>0, <2>2 DEF TaskType
  <2> QED
    BY <2>1, <2>2 DEF OwnerStep, StartRegistration, AlreadyExists, Create, Leave, GiveToken, ReadRow,
       GiveChannel, NewChannelProbe, ToggleProbe, Off, OffSave, On, OnSave, NewTokenProbe, SaveToken,
       Refresh, SaveChannel, FailOwner
<1>4. TelegramType'
  <2>1. CASE TelegramUnchanged
    BY <1>0, <2>1 DEF TelegramType
  <2>2. ASSUME owner[d].bot \in Userbot, SetWebhook(owner[d].bot) PROVE TelegramType'
    BY <1>0, <2>2 DEF TelegramType, SetWebhook
  <2>3. ASSUME owner[d].bot \in Userbot, RemoveWebhook(owner[d].bot),
               overtaken' \in {overtaken, overtaken \union {owner[d].bot}}
        PROVE  TelegramType'
    BY <1>0, <2>3 DEF TelegramType, RemoveWebhook
  <2>4. CASE FailOwner(d)
    BY <1>0, <1>1, <2>4, BoundAssumption DEF TelegramType, FailOwner, Waiting
  <2>5. CASE StartRegistration(d)
    BY <1>0, <2>5 DEF StartRegistration, TelegramType
  <2>6. CASE Off(d) \/ On(d) \/ Refresh(d)
    BY <1>1, <2>1, <2>2, <2>3, <2>6 DEF Off, On, Refresh
  <2> QED
    BY <2>1, <2>4, <2>5, <2>6 DEF OwnerStep, AlreadyExists, Create, Enqueue, Leave,
       GiveToken, ReadRow, GiveChannel, NewChannelProbe, ToggleProbe, OffSave, OnSave, NewTokenProbe,
       SaveToken, SaveChannel
<1> QED
  BY <1>2, <1>3, <1>4

\* A handler of an update writes the column active, the webhook and its own state.
LEMMA UpdateTyped ==
  ASSUME TypeInv, NEW u \in Update, UpdateStep(u)
  PROVE  TypeInv'
<1>0. RowType /\ TelegramType /\ OwnerType /\ UpdateType /\ TaskType
  BY DEF TypeInv
<1>1. /\ Idle \in [at : {"none", "demoted", "deactivated", "serving", "unauthorized"},
                   bot : Userbot \union {NoBot}, token : Token]
      /\ Idle.at = "none"
  BY BoundAssumption DEF Idle, Token
<1>2. OwnerType' /\ TaskType' /\ RowType'
  BY <1>0 DEF UpdateStep, Deliver, DeliverLoss, Demote, DemoteRemoveWebhook, Serve, TokenInvalid,
     FailUpdate, OwnerType, Fit, TaskType, RowType
<1>3. UpdateType'
  <2>1. CASE End(u)
    BY <1>0, <1>1, <2>1 DEF End, UpdateType
  <2>2. ASSUME NEW l \in {"deactivated", "unauthorized"}, update[u].at # "none", Become(u, l)
        PROVE  UpdateType'
    BY <1>0, <2>2 DEF Become, UpdateType
  <2>3. ASSUME NEW b \in Userbot, NEW l \in {"demoted", "serving"}, Accept(u, b, l)
        PROVE  UpdateType'
    BY <1>0, <2>3 DEF Accept, UpdateType, RowType
  <2>4. CASE UNCHANGED update
    BY <1>0, <2>4 DEF UpdateType
  <2> QED
    BY <2>1, <2>2, <2>3, <2>4 DEF UpdateStep, Deliver, DeliverLoss, Demote, DemoteRemoveWebhook, Serve,
       TokenInvalid, FailUpdate
<1>4. TelegramType'
  <2>1. CASE TelegramUnchanged
    BY <1>0, <2>1 DEF TelegramType
  <2>2. ASSUME NEW b \in Userbot, NEW c \in Channel, DeliverLoss(u, b, c) PROVE TelegramType'
    BY <1>0, <2>2 DEF DeliverLoss, TelegramType
  <2>3. CASE DemoteRemoveWebhook(u)
    BY <1>0, <2>1, <2>3 DEF DemoteRemoveWebhook, RemoveWebhook, TelegramType, UpdateType
  <2>4. CASE FailUpdate(u)
    BY <1>0, <2>4, BoundAssumption DEF FailUpdate, TelegramType, UpdateType, RowType
  <2> QED
    BY <2>1, <2>2, <2>3, <2>4 DEF UpdateStep, Deliver, Demote, Serve, TokenInvalid
<1> QED
  BY <1>2, <1>3, <1>4 DEF TypeInv

LEMMA WorkerTyped ==
  ASSUME TypeInv, NEW b \in Userbot, TaskStep(b) \/ FailTask(b) \/ WorkerCrash(b)
  PROVE  TypeInv'
<1>0. RowType /\ TelegramType /\ OwnerType /\ UpdateType /\ TaskType /\ 0 \in Token
  BY BoundAssumption DEF TypeInv, Token
<1>1. RowType' /\ OwnerType' /\ UpdateType'
  BY <1>0 DEF TaskStep, ResolveToken, MakeAdmin, TaskSetWebhook, FailTask, WorkerCrash,
     RowType, OwnerType, Fit, UpdateType
<1>2. TaskType'
  BY <1>0 DEF TaskStep, ResolveToken, MakeAdmin, TaskSetWebhook, FailTask, WorkerCrash, RowType, TaskType
<1>3. TelegramType'
  BY <1>0, BoundAssumption DEF TaskStep, ResolveToken, MakeAdmin, TaskSetWebhook, FailTask, WorkerCrash, SetWebhook,
     TelegramType
<1> QED
  BY <1>1, <1>2, <1>3 DEF TypeInv

LEMMA TelegramTyped ==
  ASSUME TypeInv, TelegramStep
  PROVE  TypeInv'
<1>0. RowType /\ TelegramType /\ OwnerType /\ UpdateType /\ TaskType
  BY DEF TypeInv
<1>1. RowType' /\ OwnerType' /\ UpdateType' /\ TaskType'
  BY <1>0 DEF TelegramStep, ReplaceToken, LoseRights, GainRights, RowType, OwnerType, Fit,
     UpdateType, TaskType
<1>2. TelegramType'
  BY <1>0, BoundAssumption DEF TelegramStep, ReplaceToken, LoseRights, GainRights, TelegramType, Token
<1> QED
  BY <1>1, <1>2 DEF TypeInv

LEMMA TypeNext == TypeInv /\ [Next]_vars => TypeInv'
<1> SUFFICES ASSUME TypeInv, [Next]_vars PROVE TypeInv'
  OBVIOUS
<1>1. ASSUME NEW d \in Chat, OwnerStep(d) PROVE TypeInv'
  BY <1>1, OwnerTyped, OwnerLeaves DEF TypeInv
<1>2. CASE UNCHANGED vars
  BY <1>2 DEF vars, TypeInv, RowType, TelegramType, OwnerType, Fit, UpdateType, TaskType
<1> QED
  BY <1>1, <1>2, UpdateTyped, WorkerTyped, TelegramTyped DEF Next

(***************************************************************************)
(* The dialog, the updates and the task hold at every await what the await *)
(* needs: no handler works on a userbot that is not registered.            *)
(***************************************************************************)
THEOREM TypeCorrect == Spec => []TypeOK
<1>1. Spec => []TypeInv
  BY TypeInit, TypeNext, PTL DEF Spec
<1> QED
  BY <1>1, TypeInvType, PTL
-----------------------------------------------------------------------------
(***************************************************************************)
(* A registration under way has a place: there is room for one more, or    *)
(* for as many as further chats have begun one beside another.             *)
(***************************************************************************)
Room == MaxUserbots + (IF crowded THEN Cardinality(Chat) - 1 ELSE 0)

LimitInv ==
    /\ Cardinality(registered) + Cardinality(Places) <= Room
    /\ crowded \in BOOLEAN

LEMMA SetsFinite ==
  ASSUME TypeInv
  PROVE  /\ IsFiniteSet(registered) /\ Cardinality(registered) \in Nat
         /\ IsFiniteSet(Places) /\ Cardinality(Places) \in Nat
         /\ Cardinality(Places) <= Cardinality(Chat)
         /\ Cardinality(Chat) \in Nat \ {0}
         /\ Room \in Nat
<1>1. IsFiniteSet(registered) /\ Cardinality(registered) \in Nat
  BY UserbotAssumption, FS_Subset, FS_CardinalityType DEF TypeInv, RowType
<1>2. Places \subseteq Chat
  BY DEF Places
<1>3. IsFiniteSet(Places) /\ Cardinality(Places) \in Nat /\ Cardinality(Places) <= Cardinality(Chat)
  BY <1>2, ChatAssumption, FS_Subset, FS_CardinalityType
<1>4. Cardinality(Chat) \in Nat \ {0}
  BY ChatAssumption, FS_CardinalityType, FS_EmptySet
<1> QED
  BY <1>1, <1>3, <1>4, LimitAssumption DEF Room

LEMMA LimitInit == Init => LimitInv
<1> SUFFICES ASSUME Init PROVE LimitInv
  OBVIOUS
<1>1. Places = {} /\ registered = {} /\ crowded = FALSE
  BY DEF Init, Places, Menu
<1>2. Room = MaxUserbots /\ crowded \in BOOLEAN
  <2>1. ~ crowded /\ crowded \in BOOLEAN
    BY <1>1
  <2>2. Room = MaxUserbots + 0
    BY <2>1, Zenon DEF Room
  <2> QED
    BY <2>1, <2>2, LimitAssumption
<1>3. Cardinality(registered) = 0 /\ Cardinality(Places) = 0
  BY <1>1, FS_EmptySet
<1> QED
  BY <1>2, <1>3, LimitAssumption DEF LimitInv

\* What neither registers nor begins a registration leaves no more of them.
LEMMA LimitKept ==
  ASSUME TypeInv, TypeInv', LimitInv, UNCHANGED <<registered, crowded>>, Places' \subseteq Places
  PROVE  LimitInv'
<1>1. Cardinality(Places') <= Cardinality(Places) /\ Cardinality(Places') \in Nat
  BY SetsFinite, FS_Subset, FS_CardinalityType
<1>2. Room' = Room
  BY DEF Room
<1> QED
  BY <1>1, <1>2, SetsFinite DEF LimitInv

\* A dialog that was no registration under way does not become one, but by StartRegistration.
LEMMA PlacesKept ==
  ASSUME TypeInv, NEW d \in Chat, OwnerStep(d), ~ StartRegistration(d)
  PROVE  Places' \subseteq Places
<1> USE DEF Waiting, Register, Toggle, Change
<1>0. /\ owner \in [Chat -> Working] /\ Fit(d) /\ Menu.at = "menu" /\ registered \subseteq Userbot
      /\ NoBot \notin Userbot
  BY UserbotAssumption DEF TypeInv, OwnerType, RowType, Menu
<1>1. registered \subseteq registered'
  BY OwnerTyped DEF OwnerStep, StartRegistration, AlreadyExists, Create, Enqueue, Leave, GiveToken,
     ReadRow, GiveChannel, NewChannelProbe, ToggleProbe, Off, OffSave, On, OnSave, NewTokenProbe,
     SaveToken, Refresh, SaveChannel, FailOwner
<1> DEFINE Waits == {"token", "channel", "create"}
           Kept == owner'[d].at \in Waits /\ owner'[d].bot \notin registered' =>
                       owner[d].at \in Waits /\ owner[d].bot \notin registered
<1>2. ASSUME NEW b \in Userbot, GiveToken(d, b) PROVE Kept
  BY <1>0, <1>1, <1>2 DEF GiveToken, Fit
<1>3. ASSUME NEW c \in Channel, GiveChannel(d, c) PROVE Kept
  BY <1>0, <1>1, <1>3 DEF GiveChannel, Working
<1>4. ASSUME FailOwner(d) PROVE Kept
  <2>1. CASE owner' = [owner EXCEPT ![d] = Menu]
    BY <1>0, <2>1
  <2>2. CASE owner[d].at \in Register /\ owner' = [owner EXCEPT ![d].at = "channel"]
    <3>1. owner'[d].at = "channel" /\ owner'[d].bot = owner[d].bot
      BY <1>0, <2>2 DEF Working
    <3>2. owner[d].at = "create" \/ owner[d].bot \in registered
      BY <1>0, <2>2 DEF Fit
    <3> QED
      BY <1>1, <3>1, <3>2, <2>2
  <2> QED
    BY <1>4, <2>1, <2>2 DEF FailOwner
<1>5. ASSUME NEW b \in Userbot, ReadRow(d, b) PROVE Kept
  BY <1>0, <1>5 DEF ReadRow
<1>6. ASSUME NEW c \in Channel, NewChannelProbe(d, c) PROVE Kept
  BY <1>0, <1>6 DEF NewChannelProbe, Working
<1>7. ASSUME \/ Create(d) \/ ToggleProbe(d) \/ Off(d) \/ On(d) \/ NewTokenProbe(d) \/ SaveToken(d)
      PROVE  Kept
  BY <1>0, <1>7 DEF Create, ToggleProbe, Off, On, NewTokenProbe, SaveToken, Working
<1>8. ASSUME \/ AlreadyExists(d) \/ Enqueue(d) \/ Leave(d) \/ OffSave(d) \/ OnSave(d) \/ Refresh(d)
             \/ SaveChannel(d)
      PROVE  Kept
  BY <1>0, <1>8 DEF AlreadyExists, Enqueue, Leave, OffSave, OnSave, Refresh, SaveChannel
<1>9. Kept
  BY <1>2, <1>3, <1>4, <1>5, <1>6, <1>7, <1>8 DEF OwnerStep
<1> QED
  BY <1>1, <1>9, OneDialog DEF Places

\* Only Create registers, and what it registers had a place.
LEMMA LimitOwner ==
  ASSUME TypeInv, TypeInv', LimitInv, NEW d \in Chat, OwnerStep(d)
  PROVE  LimitInv'
<1>0. owner \in [Chat -> Working] /\ registered \subseteq Userbot /\ NoBot \notin Userbot
  BY UserbotAssumption DEF TypeInv, OwnerType, RowType
<1>1. CASE Create(d)
  <2>1. /\ d \in Places /\ owner[d].bot \notin registered /\ crowded' = crowded
        /\ registered' = registered \union {owner[d].bot} /\ owner'[d].at = "created"
    BY <1>0, <1>1 DEF Create, Places, Working
  <2>2. Cardinality(registered') = Cardinality(registered) + 1
    BY <2>1, SetsFinite, FS_AddElement
  <2>3. ~ StartRegistration(d)
    BY <1>1 DEF Create, StartRegistration
  <2>4. Places' \subseteq Places \ {d}
    BY <2>1, <2>3, PlacesKept DEF Places
  <2>5. /\ Cardinality(Places \ {d}) = Cardinality(Places) - 1
        /\ IsFiniteSet(Places \ {d}) /\ Cardinality(Places \ {d}) \in Nat
    BY <2>1, SetsFinite, FS_RemoveElement, FS_CardinalityType
  <2>6. Cardinality(Places') <= Cardinality(Places) - 1 /\ Cardinality(Places') \in Nat
    BY <2>4, <2>5, FS_Subset, FS_CardinalityType
  <2>7. Room' = Room
    BY <2>1 DEF Room
  <2> QED
    BY <2>1, <2>2, <2>6, <2>7, SetsFinite DEF LimitInv
<1>2. CASE StartRegistration(d)
  <2>1. /\ UnderLimit /\ registered' = registered /\ crowded' = (crowded \/ Places # {})
        /\ Places' \subseteq Places \union {d}
    BY <1>2, OneDialog DEF StartRegistration, Places
  <2>2. Cardinality(Places') <= Cardinality(Chat) /\ Cardinality(Places') \in Nat
    <3>1. Places' \subseteq Chat
      BY DEF Places
    <3> QED
      BY <3>1, ChatAssumption, FS_Subset, FS_CardinalityType
  <2>3. CASE crowded'
    BY <2>1, <2>2, <2>3, SetsFinite, LimitAssumption DEF LimitInv, Room, UnderLimit
  <2>4. CASE ~ crowded'
    <3>1. Places' \subseteq {d}
      BY <2>1, <2>4
    <3>2. Cardinality(Places') <= 1
      <4>1. IsFiniteSet({d}) /\ Cardinality({d}) = 1
        BY FS_Singleton
      <4>2. Cardinality(Places') <= Cardinality({d})
        BY <3>1, <4>1, FS_Subset
      <4> QED
        BY <4>1, <4>2
    <3>3. ~ crowded' /\ crowded' \in BOOLEAN
      BY <2>1, <2>4
    <3> QED
      BY <2>1, <2>2, <3>2, <3>3, SetsFinite, LimitAssumption DEF LimitInv, Room, UnderLimit
  <2> QED
    BY <2>3, <2>4
<1>3. CASE ~ Create(d) /\ ~ StartRegistration(d)
  <2>1. UNCHANGED <<registered, crowded>>
    BY <1>3 DEF OwnerStep, AlreadyExists, Enqueue, Leave, GiveToken, ReadRow, GiveChannel,
       NewChannelProbe, ToggleProbe, Off, OffSave, On, OnSave, NewTokenProbe, SaveToken, Refresh,
       SaveChannel, FailOwner, SetWebhook, RemoveWebhook
  <2> QED
    BY <1>3, <2>1, PlacesKept, LimitKept
<1> QED
  BY <1>1, <1>2, <1>3

LEMMA LimitNext == TypeInv /\ LimitInv /\ [Next]_vars => LimitInv'
<1> SUFFICES ASSUME TypeInv, LimitInv, [Next]_vars PROVE LimitInv'
  OBVIOUS
<1>0. TypeInv'
  BY TypeNext
<1>1. ASSUME NEW d \in Chat, OwnerStep(d) PROVE LimitInv'
  BY <1>0, <1>1, LimitOwner
<1>2. CASE ~ \E d \in Chat : OwnerStep(d)
  <2>1. UNCHANGED <<owner, registered, crowded>>
    BY <1>2 DEF Next, UpdateStep, Deliver, DeliverLoss, Demote, DemoteRemoveWebhook, RemoveWebhook,
       Serve, TokenInvalid, FailUpdate, TaskStep, ResolveToken, MakeAdmin, TaskSetWebhook, SetWebhook,
       FailTask, WorkerCrash, TelegramStep, ReplaceToken, LoseRights, GainRights, vars
  <2>2. Places' = Places
    BY <2>1 DEF Places
  <2> QED
    BY <1>0, <2>1, <2>2, LimitKept
<1> QED
  BY <1>1, <1>2

(***************************************************************************)
(* No owner has more userbots than max_userbots_per_user whose             *)
(* registrations came one after the other, and none ever has more than one *)
(* beyond it for each further chat a registration was begun in.            *)
(***************************************************************************)
THEOREM LimitHolds == Spec => []WithinLimit
<1>1. Spec => [](TypeInv /\ LimitInv)
  BY TypeInit, TypeNext, LimitInit, LimitNext, PTL DEF Spec
<1>2. TypeInv /\ LimitInv => WithinLimit
  BY SetsFinite DEF LimitInv, WithinLimit, Room
<1> QED
  BY <1>1, <1>2, PTL
-----------------------------------------------------------------------------
(***************************************************************************)
(* The task sets the webhook only after it has made the owner an admin.    *)
(***************************************************************************)
AdminInv == OwnerIsAdmin /\ \A b \in Userbot : task[b].at = "hook" => b \in admin

LEMMA AdminInit == Init => AdminInv
  BY DEF Init, AdminInv, OwnerIsAdmin

\* Create leaves the handler at "created"; from there the task is enqueued or history says so.
LEMMA AdminOwner ==
  ASSUME TypeInv, AdminInv, NEW d \in Chat, OwnerStep(d)
  PROVE  AdminInv'
<1> USE DEF Waiting, Register, Toggle, Change
<1>0. /\ owner \in [Chat -> Working] /\ Fit(d) /\ TaskType /\ registered \subseteq Userbot
      /\ \A x \in Chat \ {d} : owner'[x] = owner[x]
  BY OneDialog DEF TypeInv, OwnerType, RowType
<1>1. ASSUME NEW b \in registered, NEW x \in Chat \ {d}, OwnerAt(x, "created"), owner[x].bot = b
      PROVE  \E y \in Chat : OwnerAt(y, "created")' /\ owner'[y].bot = b
  BY <1>0, <1>1
<1>2. CASE Create(d)
  <2>1. /\ registered' = registered \union {owner[d].bot} /\ UNCHANGED <<task, admin, orphaned>>
        /\ owner'[d].at = "created" /\ owner'[d].bot = owner[d].bot /\ ~ OwnerAt(d, "created")
    BY <1>0, <1>2 DEF Create, Working
  <2> QED
    BY <1>0, <2>1 DEF AdminInv, OwnerIsAdmin
<1>3. CASE Enqueue(d)
  <2>1. /\ owner[d].bot \in Userbot /\ task'[owner[d].bot].at = "queued"
        /\ \A b \in Userbot \ {owner[d].bot} : task'[b] = task[b]
        /\ UNCHANGED <<registered, admin, orphaned>>
    BY <1>0, <1>3 DEF Enqueue, Fit, TaskType
  <2> QED
    BY <1>0, <2>1 DEF AdminInv, OwnerIsAdmin
<1>4. CASE FailOwner(d)
  <2>1. /\ UNCHANGED <<registered, task, admin>> /\ orphaned \subseteq orphaned'
        /\ OwnerAt(d, "created") => owner[d].bot \in orphaned'
    BY <1>4 DEF FailOwner
  <2> QED
    BY <1>0, <2>1 DEF AdminInv, OwnerIsAdmin
<1>5. CASE ~ Create(d) /\ ~ Enqueue(d) /\ ~ FailOwner(d)
  <2>1. ~ OwnerAt(d, "created") /\ UNCHANGED <<registered, task, admin, orphaned>>
    BY <1>0, <1>5 DEF OwnerStep, StartRegistration, AlreadyExists, Leave, GiveToken, ReadRow,
       GiveChannel, NewChannelProbe, ToggleProbe, Off, OffSave, On, OnSave, NewTokenProbe, SaveToken,
       Refresh, SaveChannel, SetWebhook, RemoveWebhook
  <2> QED
    BY <1>0, <2>1 DEF AdminInv, OwnerIsAdmin
<1> QED
  BY <1>2, <1>3, <1>4, <1>5

LEMMA AdminWorker ==
  ASSUME TypeInv, AdminInv, NEW b \in Userbot, TaskStep(b) \/ FailTask(b) \/ WorkerCrash(b)
  PROVE  AdminInv'
<1>0. TaskType /\ owner' = owner /\ registered' = registered /\ registered \subseteq Userbot
  BY DEF TypeInv, RowType, TaskStep, ResolveToken, MakeAdmin, TaskSetWebhook, FailTask, WorkerCrash
<1>1. CASE ResolveToken(b)
  BY <1>0, <1>1 DEF ResolveToken, AdminInv, OwnerIsAdmin, TaskType
<1>2. CASE MakeAdmin(b)
  BY <1>0, <1>2 DEF MakeAdmin, AdminInv, OwnerIsAdmin, TaskType
<1>3. CASE TaskSetWebhook(b)
  <2>1. orphaned' = orphaned
    BY <1>3 DEF TaskSetWebhook, SetWebhook
  <2> QED
    BY <1>0, <1>3, <2>1 DEF TaskSetWebhook, AdminInv, OwnerIsAdmin, TaskType
<1>4. CASE FailTask(b)
  BY <1>0, <1>4 DEF FailTask, AdminInv, OwnerIsAdmin, TaskType
<1>5. CASE WorkerCrash(b)
  BY <1>0, <1>5 DEF WorkerCrash, AdminInv, OwnerIsAdmin, TaskType
<1> QED
  BY <1>1, <1>2, <1>3, <1>4, <1>5 DEF TaskStep

LEMMA AdminNext == TypeInv /\ AdminInv /\ [Next]_vars => AdminInv'
<1> SUFFICES ASSUME TypeInv, AdminInv, [Next]_vars PROVE AdminInv'
  OBVIOUS
<1>1. CASE \E u \in Update : UpdateStep(u)
  <2>1. UNCHANGED <<registered, owner, task, admin, orphaned>>
    BY <1>1 DEF UpdateStep, Deliver, DeliverLoss, Demote, DemoteRemoveWebhook, RemoveWebhook, Serve,
       TokenInvalid, FailUpdate
  <2> QED
    BY <2>1 DEF AdminInv, OwnerIsAdmin
<1>2. CASE TelegramStep \/ UNCHANGED vars
  BY <1>2 DEF TelegramStep, ReplaceToken, LoseRights, GainRights, vars, AdminInv, OwnerIsAdmin
<1> QED
  BY <1>1, <1>2, AdminOwner, AdminWorker DEF Next

(***************************************************************************)
(* The owner of every registered userbot is its admin once its handler and *)
(* its task are over, unless one of the two raised.                        *)
(***************************************************************************)
THEOREM OwnersModerate == Spec => []OwnerIsAdmin
<1>1. Spec => [](TypeInv /\ AdminInv)
  BY TypeInit, TypeNext, AdminInit, AdminNext, PTL DEF Spec
<1>2. AdminInv => OwnerIsAdmin
  BY DEF AdminInv
<1> QED
  BY <1>1, <1>2, PTL
-----------------------------------------------------------------------------
(***************************************************************************)
(* An active userbot whose token is good has its webhook or an excuse, or  *)
(* somebody is about to set it or to switch the userbot off: the task,     *)
(* unless the token it holds was replaced, or a handler of the owner,      *)
(* which after a new token works with that one.                            *)
(***************************************************************************)
Excused == hook \union overtaken \union interrupted

TaskWill(b) ==
    task[b].at = "queued" \/ (task[b].at \in {"profile", "hook"} /\ task[b].token = token[b])

WillAt(d, b) ==
    /\ owner[d].bot = b
    /\ \/ owner[d].at \in {"created", "offsave"}
       \/ owner[d].at = "refresh" /\ owner[d].row.token = token[b]

OwnerWill(b) == \E d \in Chat : WillAt(d, b)

Covered(b) == b \in Excused \/ TaskWill(b) \/ OwnerWill(b)

\* Nobody needs to set the webhook of b for its token to be replaced.
Spared(b) == b \in Excused \/ \E d \in Chat : OwnerAt(d, "offsave") /\ owner[d].bot = b

HookAt(d) ==
    /\ owner[d].at = "onsave" => owner[d].bot \in Excused
    /\ owner[d].at \in {"newtoken", "savetoken"} /\ ~ owner[d].row.active =>
          owner[d].bot \notin active \/ Spared(owner[d].bot)

HookInv ==
    /\ \A b \in active : Alive(b, token[b]) => Covered(b)
    /\ \A d \in Chat : HookAt(d)

LEMMA HookInit == Init => HookInv
  BY DEF Init, HookInv, HookAt, Menu

(***************************************************************************)
(* What a step of a dialog owes to the invariant: about the userbot b it   *)
(* works on, for the dialogs in other chats go on working on b.            *)
(***************************************************************************)
LEMMA HookMoves ==
  ASSUME TypeInv, HookInv, NEW d \in Chat, OwnerStep(d), NEW b \in Userbot, owner[d].bot = b,
         live' = live,
         \A c \in Userbot \ {b} : /\ token'[c] = token[c] /\ task'[c] = task[c]
                                  /\ (c \in active' => c \in active)
                                  /\ (c \in Excused => c \in Excused'),
         b \in active' /\ Alive(b, token[b])' => Covered(b)',
         SwitchingOn(b) /\ b \in Excused => b \in Excused',
         b \in active' /\ Spared(b) => Spared(b)',
         b \in active' => b \in active \/ Spared(b)' \/ b \notin registered,
         active' \subseteq Userbot,
         HookAt(d)'
  PROVE  HookInv'
<1>1. /\ \A x \in Chat \ {d} : owner'[x] = owner[x]
      /\ \A x \in Chat : Fit(x) /\ HookAt(x)
  BY OneDialog DEF TypeInv, OwnerType, HookInv
<1>2. ASSUME NEW c \in active', Alive(c, token[c])' PROVE Covered(c)'
  <2>1. CASE c = b
    BY <1>2, <2>1
  <2>2. CASE c # b
    <3>1. c \in Userbot \ {b} /\ c \in active /\ token'[c] = token[c] /\ task'[c] = task[c]
      BY <1>2, <2>2
    <3>2. Covered(c)
      BY <1>2, <3>1 DEF HookInv, Alive
    <3>3. ASSUME NEW x \in Chat, WillAt(x, c) PROVE WillAt(x, c)'
      BY <1>1, <3>1, <3>3 DEF WillAt
    <3> QED
      BY <3>1, <3>2, <3>3 DEF Covered, TaskWill, OwnerWill
  <2> QED
    BY <2>1, <2>2
<1>3. ASSUME NEW x \in Chat \ {d} PROVE HookAt(x)'
  <2>c. PICK c : c = owner[x].bot
    OBVIOUS
  <2>1. owner'[x] = owner[x] /\ HookAt(x) /\ Fit(x) /\ owner'[x].bot = c
    BY <1>1, <2>c
  <2>2. owner[x].at = "onsave" => c \in Userbot /\ c \in Excused
    BY <2>1 DEF HookAt, Fit
  <2>3. owner[x].at = "onsave" /\ c = b => SwitchingOn(b)
    BY <2>c DEF SwitchingOn
  <2>4. owner[x].at = "onsave" => c \in Excused'
    BY <2>2, <2>3
  <2>5. ASSUME owner[x].at \in {"newtoken", "savetoken"}, ~ owner[x].row.active, c \in active'
        PROVE  Spared(c)'
    <3>1. c \in registered /\ c \in Userbot /\ (c \notin active \/ Spared(c))
      BY <2>1, <2>5, <2>c DEF HookAt, Fit, Change
    <3>2. CASE c = b
      BY <2>5, <3>1, <3>2
    <3>3. CASE c # b
      <4>1. c \in active /\ Spared(c) /\ c \in Userbot \ {b}
        BY <2>5, <3>1, <3>3
      <4>2. ASSUME NEW y \in Chat, OwnerAt(y, "offsave"), owner[y].bot = c
            PROVE  owner'[y] = owner[y]
        BY <1>1, <3>3, <4>2
      <4>3. CASE c \in Excused
        BY <4>1, <4>3 DEF Spared
      <4>4. CASE \E y \in Chat : OwnerAt(y, "offsave") /\ owner[y].bot = c
        BY <4>2, <4>4 DEF Spared
      <4> QED
        BY <4>1, <4>3, <4>4 DEF Spared
    <3> QED
      BY <3>2, <3>3
  <2> QED
    BY <2>1, <2>4, <2>5 DEF HookAt
<1> QED
  BY <1>2, <1>3 DEF HookInv

\* Steps that change neither rows nor webhooks nor tasks, of dialogs that were not about to.
LEMMA HookQuiet ==
  ASSUME TypeInv, HookInv, NEW d \in Chat, OwnerStep(d),
         UNCHANGED <<active, token, task, live, hook, overtaken, interrupted>>,
         owner[d].at \notin {"created", "offsave", "refresh"},
         HookAt(d)'
  PROVE  HookInv'
<1>1. \A x \in Chat \ {d} : owner'[x] = owner[x]
  BY OneDialog
<1>2. \A c : WillAt(d, c) => FALSE
  BY DEF WillAt
<1>3. ASSUME NEW c, Covered(c) PROVE Covered(c)'
  <2>1. ASSUME NEW x \in Chat, WillAt(x, c) PROVE WillAt(x, c)'
    BY <1>1, <1>2, <2>1 DEF WillAt
  <2> QED
    BY <1>3, <2>1 DEF Covered, TaskWill, OwnerWill, Excused
<1>4. ASSUME NEW c, Spared(c) PROVE Spared(c)'
  <2>1. ASSUME NEW x \in Chat, OwnerAt(x, "offsave") PROVE owner'[x] = owner[x]
    BY <1>1, <2>1
  <2> QED
    BY <1>4, <2>1 DEF Spared, Excused
<1>5. \A x \in Chat \ {d} : HookAt(x)'
  BY <1>1, <1>4 DEF HookInv, HookAt, Excused
<1> QED
  BY <1>3, <1>5 DEF HookInv, Alive

\* A webhook that is set covers the userbot, whatever was to excuse it.
LEMMA SetCovers ==
  ASSUME NEW b, SetWebhook(b)
  PROVE  /\ Excused \subseteq Excused' /\ b \in Excused' /\ live' = live
  BY DEF SetWebhook, Excused

\* The registration: a row is active from the first moment.
LEMMA HookRegister ==
  ASSUME TypeInv, TypeInv', HookInv, NEW d \in Chat, OwnerStep(d),
         StartRegistration(d) \/ AlreadyExists(d) \/ Create(d) \/ Enqueue(d) \/ Leave(d)
            \/ (\E b \in Userbot : GiveToken(d, b)) \/ (\E c \in Channel : GiveChannel(d, c))
  PROVE  HookInv'
<1> USE DEF Alive
<1>0. /\ owner \in [Chat -> Working] /\ Fit(d) /\ Menu.at = "menu"
      /\ registered \subseteq Userbot /\ active \subseteq registered /\ active' \subseteq Userbot
      /\ token \in [Userbot -> Token] /\ TaskType
  BY DEF TypeInv, OwnerType, RowType, Menu
<1>1. UNCHANGED <<hook, overtaken, interrupted, live>> /\ Excused' = Excused
  BY DEF StartRegistration, AlreadyExists, Create, Enqueue, Leave, GiveToken, GiveChannel, Excused
<1>2. \A x \in Chat \ {d} : owner'[x] = owner[x]
  BY OneDialog
<1>3. ASSUME owner[d].at # "offsave", NEW c, Spared(c) PROVE Spared(c)'
  BY <1>1, <1>2, <1>3 DEF Spared
<1>4. CASE Create(d)
  <2>b. PICK b \in Userbot : b = owner[d].bot
    BY <1>0, <1>4 DEF Create, Fit
  <2>1. /\ owner[d].at = "create" /\ b \notin registered
        /\ active' = active \union {b} /\ task' = task
        /\ token' = [token EXCEPT ![b] = owner[d].row.token]
        /\ owner'[d].at = "created" /\ owner'[d].bot = b
    BY <1>0, <1>4, <2>b DEF Create, Working
  <2>2. Covered(b)'
    BY <2>1 DEF Covered, OwnerWill, WillAt
  <2>3. \A c \in Userbot \ {b} : token'[c] = token[c] /\ (c \in active' => c \in active)
    BY <1>0, <2>1
  <2>4. HookAt(d)'
    BY <2>1 DEF HookAt
  <2> QED
    BY <1>0, <1>1, <1>3, <2>1, <2>2, <2>3, <2>4, <2>b, HookMoves
<1>5. CASE Enqueue(d)
  <2>b. PICK b \in Userbot : b = owner[d].bot
    BY <1>0, <1>5 DEF Enqueue, Fit
  <2>1. /\ owner[d].at = "created" /\ UNCHANGED <<active, token>>
        /\ task' = [task EXCEPT ![b] = [at |-> "queued", token |-> 0]]
        /\ owner'[d].at = "menu"
    BY <1>0, <1>5, <2>b DEF Enqueue
  <2>2. task'[b].at = "queued" /\ \A c \in Userbot \ {b} : task'[c] = task[c]
    BY <1>0, <2>1 DEF TaskType
  <2>3. Covered(b)'
    BY <2>2 DEF Covered, TaskWill
  <2>4. HookAt(d)'
    BY <2>1 DEF HookAt
  <2> QED
    BY <1>0, <1>1, <1>3, <2>1, <2>2, <2>3, <2>4, <2>b, HookMoves
<1>6. CASE ~ Create(d) /\ ~ Enqueue(d)
  <2>1. /\ UNCHANGED <<active, token, task>>
        /\ owner[d].at \notin {"created", "offsave", "refresh"}
    BY <1>0, <1>6 DEF StartRegistration, AlreadyExists, Leave, GiveToken, GiveChannel
  <2>2. owner'[d].at \notin {"onsave", "newtoken", "savetoken"}
    <3>1. CASE StartRegistration(d) \/ AlreadyExists(d) \/ Leave(d)
      BY <1>0, <3>1 DEF StartRegistration, AlreadyExists, Leave, Menu
    <3>2. ASSUME NEW b \in Userbot, GiveToken(d, b) PROVE owner'[d].at = "channel"
      BY <1>0, <3>2 DEF GiveToken
    <3>3. ASSUME NEW c \in Channel, GiveChannel(d, c) PROVE owner'[d].at = "create"
      <4>1. owner'[d] = [owner[d] EXCEPT !.at = "create", !.row.channel = c]
        BY <1>0, <3>3 DEF GiveChannel
      <4> QED
        BY <1>0, <4>1 DEF Working
    <3> QED
      BY <1>6, <3>1, <3>2, <3>3
  <2>3. HookAt(d)'
    BY <2>2 DEF HookAt
  <2> QED
    BY <1>1, <2>1, <2>3, HookQuiet
<1> QED
  BY <1>4, <1>5, <1>6

\* The switch: the webhook comes before the row and goes before it.
LEMMA HookSwitch ==
  ASSUME TypeInv, TypeInv', HookInv, NEW d \in Chat, OwnerStep(d),
         ToggleProbe(d) \/ Off(d) \/ OffSave(d) \/ On(d) \/ OnSave(d)
  PROVE  HookInv'
<1> USE DEF Alive
<1>b. PICK b \in Userbot : b = owner[d].bot
  BY DEF TypeInv, OwnerType, Fit, ToggleProbe, Off, OffSave, On, OnSave
<1>0. /\ owner \in [Chat -> Working] /\ Menu.at = "menu" /\ UNCHANGED <<token, task, live>>
      /\ active' \subseteq Userbot
      /\ \A x \in Chat \ {d} : owner'[x] = owner[x]
      /\ HookAt(d) /\ b = owner[d].bot
  BY <1>b, OneDialog DEF TypeInv, OwnerType, RowType, Menu, ToggleProbe, Off, OffSave, On, OnSave,
     SetWebhook, RemoveWebhook, HookInv
<1>1. CASE ToggleProbe(d)
  <2>1. /\ owner[d].at = "toggle" /\ owner'[d].at \in {"off", "on", "offsave"}
        /\ UNCHANGED <<active, hook, overtaken, interrupted>>
    BY <1>0, <1>1 DEF ToggleProbe, Working
  <2>2. HookAt(d)'
    BY <2>1 DEF HookAt
  <2> QED
    BY <1>0, <2>1, <2>2, HookQuiet
<1>2. CASE Off(d)
  <2>1. owner[d].at = "off" /\ active' = active
    BY <1>2 DEF Off
  <2>2. CASE Home(d) /\ UNCHANGED <<hook, overtaken, interrupted>>
    <3>1. HookAt(d)'
      BY <1>0, <2>2 DEF HookAt
    <3> QED
      BY <1>0, <2>1, <2>2, <3>1, HookQuiet
  <2>3. CASE /\ RemoveWebhook(b) /\ Goto(d, "offsave")
             /\ overtaken' = IF SwitchingOn(b) THEN overtaken \union {b} ELSE overtaken
    <3>1. owner'[d].at = "offsave" /\ owner'[d].bot = b
      BY <1>0, <2>3 DEF Working
    <3>2. Covered(b)' /\ Spared(b)'
      BY <3>1 DEF Covered, OwnerWill, WillAt, Spared
    <3>3. /\ \A c \in Userbot \ {b} : c \in Excused => c \in Excused'
          /\ SwitchingOn(b) => b \in Excused'
      BY <2>3 DEF RemoveWebhook, Excused
    <3>4. HookAt(d)'
      BY <3>1 DEF HookAt
    <3> QED
      BY <1>0, <2>1, <3>2, <3>3, <3>4, HookMoves
  <2> QED
    BY <1>0, <1>2, <2>2, <2>3 DEF Off
<1>3. CASE OffSave(d) \/ OnSave(d)
  <2>1. /\ owner'[d].at = "menu" /\ UNCHANGED <<hook, overtaken, interrupted>>
        /\ \/ active' = active \ {b}
           \/ active' = active \union {b} /\ owner[d].at = "onsave"
    BY <1>0, <1>3 DEF OffSave, OnSave
  <2>2. Excused' = Excused /\ HookAt(d)'
    BY <2>1 DEF Excused, HookAt
  <2>3. b \in active' => b \in Excused'
    BY <1>0, <2>1, <2>2 DEF HookAt
  <2> QED
    BY <1>0, <2>1, <2>2, <2>3, HookMoves DEF Covered, Spared
<1>4. CASE On(d)
  <2>1. owner[d].at = "on" /\ active' = active
    BY <1>4 DEF On
  <2>2. CASE Home(d) /\ UNCHANGED <<hook, overtaken, interrupted>>
    <3>1. HookAt(d)'
      BY <1>0, <2>2 DEF HookAt
    <3> QED
      BY <1>0, <2>1, <2>2, <3>1, HookQuiet
  <2>3. CASE SetWebhook(b) /\ Goto(d, "onsave")
    <3>1. owner'[d].at = "onsave" /\ owner'[d].bot = b
      BY <1>0, <2>3 DEF Working
    <3>2. Excused \subseteq Excused' /\ b \in Excused'
      BY <2>3, SetCovers
    <3>3. HookAt(d)'
      BY <3>1, <3>2 DEF HookAt
    <3> QED
      BY <1>0, <2>1, <3>2, <3>3, HookMoves DEF Covered, Spared
  <2> QED
    BY <1>0, <1>4, <2>2, <2>3 DEF On
<1> QED
  BY <1>1, <1>2, <1>3, <1>4

\* The token: after a save the webhook is set again, unless the userbot was, and so is, inactive.
LEMMA HookToken ==
  ASSUME TypeInv, TypeInv', HookInv, NEW d \in Chat, OwnerStep(d),
         (\E b \in Userbot : ReadRow(d, b)) \/ NewTokenProbe(d) \/ SaveToken(d) \/ Refresh(d)
  PROVE  HookInv'
<1> USE DEF Alive
<1>0. /\ owner \in [Chat -> Working] /\ Fit(d) /\ HookAt(d) /\ Menu.at = "menu"
      /\ UNCHANGED <<active, task, live>>
      /\ token \in [Userbot -> Token] /\ active' \subseteq Userbot
      /\ \A x \in Chat \ {d} : owner'[x] = owner[x]
  BY OneDialog DEF TypeInv, OwnerType, RowType, HookInv, Menu, ReadRow, NewTokenProbe, SaveToken,
     Refresh, SetWebhook
<1>1. ASSUME NEW b \in Userbot, ReadRow(d, b) PROVE HookInv'
  <2>1. /\ owner[d].at = "menu" /\ UNCHANGED <<token, hook, overtaken, interrupted>>
        /\ owner'[d].bot = b /\ owner'[d].at \in {"toggle", "newtoken", "newchannel"}
        /\ owner'[d].row.active = (b \in active)
    BY <1>0, <1>1 DEF ReadRow, RowOf
  <2>2. HookAt(d)'
    BY <1>0, <2>1 DEF HookAt
  <2> QED
    BY <1>0, <2>1, <2>2, HookQuiet
<1>2. CASE NewTokenProbe(d)
  <2>1. owner[d].at = "newtoken" /\ UNCHANGED <<token, hook, overtaken, interrupted>>
    BY <1>2 DEF NewTokenProbe
  <2>2. \/ owner'[d].at = "savetoken" /\ owner'[d].bot = owner[d].bot
           /\ owner'[d].row.active = owner[d].row.active
        \/ owner'[d].at = "menu"
    BY <1>0, <1>2 DEF NewTokenProbe, Working, Row
  <2>b. PICK b : b = owner[d].bot
    OBVIOUS
  <2>3. Spared(b) => Spared(b)'
    <3>1. \A x \in Chat : OwnerAt(x, "offsave") => owner'[x] = owner[x]
      BY <1>0, <2>1
    <3> QED
      BY <2>1, <3>1 DEF Spared, Excused
  <2>4. HookAt(d)'
    BY <1>0, <2>1, <2>2, <2>3, <2>b DEF HookAt
  <2> QED
    BY <1>0, <2>1, <2>4, HookQuiet
<1>3. CASE SaveToken(d)
  <2>b. PICK b \in Userbot : b = owner[d].bot
    BY <1>0, <1>3 DEF SaveToken, Fit
  <2>1. /\ owner[d].at = "savetoken" /\ Excused' = Excused
        /\ token'[b] = owner[d].row.token
        /\ \A c \in Userbot \ {b} : token'[c] = token[c]
    BY <1>0, <1>3, <2>b DEF SaveToken, Excused
  <2>2. Spared(b) => Spared(b)' /\ Covered(b)'
    <3>1. \A x \in Chat : OwnerAt(x, "offsave") => owner'[x] = owner[x]
      BY <1>0, <2>1
    <3> QED
      BY <2>1, <3>1 DEF Spared, Covered, OwnerWill, WillAt
  <2>3. CASE owner[d].row.active
    <3>1. owner'[d].at = "refresh" /\ owner'[d].bot = b /\ owner'[d].row = owner[d].row
      BY <1>0, <1>3, <2>3, <2>b DEF SaveToken, Working
    <3>2. Covered(b)' /\ HookAt(d)'
      BY <2>1, <3>1 DEF Covered, OwnerWill, WillAt, HookAt
    <3> QED
      BY <1>0, <2>1, <2>2, <3>2, <2>b, HookMoves
  <2>4. CASE ~ owner[d].row.active
    <3>1. owner'[d].at = "menu" /\ (b \notin active \/ Spared(b))
      BY <1>0, <1>3, <2>1, <2>4, <2>b DEF SaveToken, HookAt
    <3>2. (b \in active' => Covered(b)') /\ HookAt(d)'
      BY <1>0, <2>2, <3>1 DEF HookAt
    <3> QED
      BY <1>0, <2>1, <2>2, <3>2, <2>b, HookMoves
  <2> QED
    BY <2>3, <2>4
<1>4. CASE Refresh(d)
  <2>b. PICK b \in Userbot : b = owner[d].bot
    BY <1>0, <1>4 DEF Refresh, Fit
  <2>1. owner[d].at = "refresh" /\ owner'[d].at = "menu" /\ token' = token
    BY <1>0, <1>4 DEF Refresh
  <2>2. HookAt(d)'
    BY <2>1 DEF HookAt
  <2>3. CASE SetWebhook(b)
    <3>1. Excused \subseteq Excused' /\ b \in Excused'
      BY <2>3, SetCovers
    <3> QED
      BY <1>0, <2>1, <2>2, <3>1, <2>b, HookMoves DEF Covered, Spared
  <2>4. CASE owner[d].row.token # live[b] /\ UNCHANGED <<hook, overtaken, interrupted>>
    <3>1. Excused' = Excused /\ (Spared(b) => Spared(b)')
      <4>1. \A x \in Chat : OwnerAt(x, "offsave") => owner'[x] = owner[x]
        BY <1>0, <2>1
      <4> QED
        BY <2>4, <4>1 DEF Excused, Spared
    <3>2. b \in active' /\ Alive(b, token[b])' => Covered(b)'
      <4>1. ASSUME NEW x \in Chat, WillAt(x, b), token[b] = live[b] PROVE WillAt(x, b)'
        BY <1>0, <2>1, <2>4, <2>b, <4>1 DEF WillAt
      <4> QED
        BY <1>0, <2>1, <3>1, <4>1 DEF HookInv, Covered, OwnerWill, TaskWill
    <3> QED
      BY <1>0, <2>1, <2>2, <3>1, <3>2, <2>b, HookMoves
  <2> QED
    BY <1>4, <2>3, <2>4, <2>b DEF Refresh, Alive
<1> QED
  BY <1>1, <1>2, <1>3, <1>4

\* The channel, and failures: those that leave a webhook to set are recorded.
LEMMA HookOther ==
  ASSUME TypeInv, TypeInv', HookInv, NEW d \in Chat, OwnerStep(d),
         (\E c \in Channel : NewChannelProbe(d, c)) \/ SaveChannel(d) \/ FailOwner(d)
  PROVE  HookInv'
<1> USE DEF Alive
<1>0. /\ owner \in [Chat -> Working] /\ Fit(d) /\ Menu.at = "menu" /\ active' \subseteq Userbot
      /\ UNCHANGED <<active, token, task, live, hook, overtaken>>
      /\ \A x \in Chat \ {d} : owner'[x] = owner[x]
  BY OneDialog DEF TypeInv, OwnerType, RowType, Menu, NewChannelProbe, SaveChannel, FailOwner
<1>1. owner'[d].at \in {"savechannel", "channel", "menu"}
  BY <1>0 DEF NewChannelProbe, SaveChannel, FailOwner, Working
<1>2. HookAt(d)'
  BY <1>1 DEF HookAt
<1>3. CASE owner[d].at \in {"created", "offsave", "refresh"}
  <2>b. PICK b \in Userbot : b = owner[d].bot
    BY <1>0, <1>3 DEF Fit
  <2>1. FailOwner(d)
    BY <1>3 DEF NewChannelProbe, SaveChannel
  <2>2. Excused \subseteq Excused' /\ b \in Excused'
    BY <1>0, <1>3, <2>1, <2>b DEF FailOwner, Excused
  <2> QED
    BY <1>0, <1>2, <2>1, <2>2, <2>b, HookMoves DEF Covered, Spared
<1>4. CASE owner[d].at \notin {"created", "offsave", "refresh"}
  <2>1. interrupted' = interrupted
    BY <1>4 DEF NewChannelProbe, SaveChannel, FailOwner
  <2> QED
    BY <1>0, <1>2, <1>4, <2>1, HookQuiet
<1> QED
  BY <1>3, <1>4

LEMMA HookOwner ==
  ASSUME TypeInv, TypeInv', HookInv, NEW d \in Chat, OwnerStep(d)
  PROVE  HookInv'
  BY HookRegister, HookSwitch, HookToken, HookOther DEF OwnerStep

\* A demotion removes the webhook of what is inactive, or history says so.
LEMMA HookUpdate ==
  ASSUME TypeInv, HookInv, NEW u \in Update, UpdateStep(u)
  PROVE  HookInv'
<1> USE DEF Alive
<1>0. UNCHANGED <<token, owner, task, live, interrupted>> /\ active' \subseteq active
  BY DEF UpdateStep, Deliver, DeliverLoss, Demote, DemoteRemoveWebhook, RemoveWebhook, Serve,
     TokenInvalid, FailUpdate
<1>1. \A c : OwnerWill(c) = OwnerWill(c)' /\ TaskWill(c) = TaskWill(c)'
  BY <1>0 DEF OwnerWill, WillAt, TaskWill
<1>2. CASE UNCHANGED <<hook, overtaken>>
  BY <1>0, <1>1, <1>2 DEF HookInv, HookAt, Covered, Excused, Spared
<1>3. CASE DemoteRemoveWebhook(u) /\ ~ UNCHANGED <<hook, overtaken>>
  <2> DEFINE b == update[u].bot
  <2>1. /\ hook' = hook \ {b} /\ active' = active
        /\ overtaken' = IF b \in active \/ SwitchingOn(b) THEN overtaken \union {b} ELSE overtaken
    BY <1>3 DEF DemoteRemoveWebhook, RemoveWebhook
  <2> HIDE DEF b
  <2>2. \A c \in active : c \in Excused => c \in Excused'
    BY <1>0, <2>1 DEF Excused
  <2>3. \A d \in Chat : owner[d].at = "onsave" => owner[d].bot \in Excused'
    BY <1>0, <2>1 DEF HookInv, HookAt, SwitchingOn, Excused
  <2>4. \A c \in active : (Covered(c) => Covered(c)') /\ (Spared(c) => Spared(c)')
    BY <1>0, <1>1, <2>2 DEF Covered, Spared
  <2> QED
    BY <1>0, <2>1, <2>3, <2>4 DEF HookInv, HookAt
<1> QED
  BY <1>2, <1>3 DEF UpdateStep, Deliver, DeliverLoss, Demote, Serve, TokenInvalid, FailUpdate

LEMMA HookWorker ==
  ASSUME TypeInv, HookInv, NEW b \in Userbot, TaskStep(b) \/ FailTask(b) \/ WorkerCrash(b)
  PROVE  HookInv'
<1> USE DEF Alive
<1>0. /\ UNCHANGED <<active, token, owner, live>> /\ TaskType /\ active \subseteq Userbot
      /\ \A c : OwnerWill(c) = OwnerWill(c)'
  BY DEF TypeInv, RowType, TaskStep, ResolveToken, MakeAdmin, TaskSetWebhook, SetWebhook, FailTask,
     WorkerCrash, OwnerWill, WillAt
<1>k. ASSUME Excused \subseteq Excused',
             \A c \in Userbot \ {b} : task'[c] = task[c],
             b \in active /\ Alive(b, token[b]) /\ Covered(b) => Covered(b)'
      PROVE  HookInv'
  BY <1>0, <1>k DEF HookInv, HookAt, Covered, TaskWill, Spared
<1>1. CASE ResolveToken(b) \/ MakeAdmin(b) \/ WorkerCrash(b)
  <2>1. Excused' = Excused
    BY <1>1 DEF ResolveToken, MakeAdmin, WorkerCrash, Excused
  <2>2. /\ \A c \in Userbot \ {b} : task'[c] = task[c]
        /\ TaskWill(b) => TaskWill(b)'
    BY <1>0, <1>1 DEF ResolveToken, MakeAdmin, WorkerCrash, TaskType, TaskWill
  <2> QED
    BY <1>0, <1>k, <2>1, <2>2 DEF Covered
<1>2. CASE TaskSetWebhook(b)
  <2>1. task[b].at = "hook" /\ \A c \in Userbot \ {b} : task'[c] = task[c]
    BY <1>0, <1>2 DEF TaskSetWebhook, TaskType
  <2>2. CASE SetWebhook(b)
    BY <1>0, <1>k, <2>1, <2>2, SetCovers DEF Covered
  <2>3. CASE task[b].token # live[b] /\ UNCHANGED <<hook, overtaken, interrupted>>
    BY <1>0, <1>k, <2>1, <2>3 DEF Covered, TaskWill, Excused
  <2> QED
    BY <1>2, <2>2, <2>3 DEF TaskSetWebhook
<1>3. CASE FailTask(b)
  <2>1. /\ interrupted' = interrupted \union {b} /\ UNCHANGED <<hook, overtaken>>
        /\ \A c \in Userbot \ {b} : task'[c] = task[c]
    BY <1>0, <1>3 DEF FailTask, TaskType
  <2> QED
    BY <1>0, <1>k, <2>1 DEF Covered, Excused
<1> QED
  BY <1>1, <1>2, <1>3 DEF TaskStep

(***************************************************************************)
(* Rows and the owner's handlers have tokens that Telegram has given, so a *)
(* new one is none of theirs.                                              *)
(***************************************************************************)
GivenInv ==
    /\ \A b \in Userbot : token[b] <= live[b]
    /\ \A d \in Chat : owner[d].bot \in Userbot => owner[d].row.token <= live[owner[d].bot]

LEMMA GivenInit == Init => GivenInv
  BY BoundAssumption DEF Init, GivenInv, Menu, NoRow

\* What a dialog works on after one of the columns it holds was replaced.
WithChannel(w, l, c) == [w EXCEPT !.at = l, !.row.channel = c]
WithToken(w, l, t) == [w EXCEPT !.at = l, !.row.token = t]

LEMMA Replaced ==
  ASSUME NEW w \in Working, NEW l, NEW x
  PROVE  /\ WithChannel(w, l, x).at = l /\ WithChannel(w, l, x).bot = w.bot
         /\ WithChannel(w, l, x).row.token = w.row.token
         /\ WithChannel(w, l, x).row.channel = x
         /\ WithToken(w, l, x).bot = w.bot /\ WithToken(w, l, x).row.token = x
<1>1. w.row \in Row /\ w = [at |-> w.at, bot |-> w.bot, row |-> w.row]
  BY DEF Working
<1> QED
  BY <1>1 DEF Row, WithChannel, WithToken

LEMMA GivenOwner ==
  ASSUME TypeInv, GivenInv, NEW d \in Chat, OwnerStep(d)
  PROVE  GivenInv'
<1> USE DEF Working, Token
<1>a. live' = live
  BY DEF OwnerStep, StartRegistration, AlreadyExists, Create, Enqueue, Leave, GiveToken, ReadRow,
     GiveChannel, NewChannelProbe, ToggleProbe, Off, OffSave, On, OnSave, NewTokenProbe, SaveToken,
     Refresh, SaveChannel, FailOwner, SetWebhook, RemoveWebhook
<1>b. /\ owner \in [Chat -> Working] /\ token \in [Userbot -> Token] /\ live \in [Userbot -> Token]
      /\ Menu.row.token = 0
  BY DEF TypeInv, OwnerType, RowType, TelegramType, Menu, NoRow
<1>c. \A b \in Userbot : 0 <= live[b] /\ live[b] <= live[b]
  BY <1>b, BoundAssumption
<1>0. /\ owner \in [Chat -> Working] /\ live' = live /\ token \in [Userbot -> Token]
      /\ live \in [Userbot -> Token] /\ \A b \in Userbot : 0 <= live[b] /\ live[b] <= live[b]
      /\ Menu.row.token = 0
  BY <1>a, <1>b, <1>c
<1>1. \/ token' = token
      \/ owner[d].bot \in Userbot /\ token' = [token EXCEPT ![owner[d].bot] = owner[d].row.token]
  BY DEF TypeInv, OwnerType, Fit, OwnerStep, StartRegistration, AlreadyExists, Create, Enqueue, Leave,
     GiveToken, ReadRow, GiveChannel, NewChannelProbe, ToggleProbe, Off, OffSave, On, OnSave,
     NewTokenProbe, SaveToken, Refresh, SaveChannel, FailOwner
<1>2. \A b \in Userbot : token'[b] <= live'[b]
  BY <1>0, <1>1 DEF GivenInv
<1>3. \/ owner'[d].bot = owner[d].bot /\ owner'[d].row.token = owner[d].row.token
      \/ owner'[d].row.token = 0
      \/ \E b \in Userbot : owner'[d].bot = b /\ owner'[d].row.token \in {live[b], token[b]}
  <2>1. CASE \E b \in Userbot : GiveToken(d, b) \/ ReadRow(d, b)
    BY <1>0, <2>1 DEF GiveToken, ReadRow, RowOf, NoRow
  <2>2. CASE NewTokenProbe(d)
    <3>1. owner[d].bot \in Userbot
      BY <2>2 DEF TypeInv, OwnerType, Fit, NewTokenProbe
    <3>2. \/ owner'[d] = Menu
          \/ owner'[d] = [owner[d] EXCEPT !.at = "savetoken", !.row.token = live[owner[d].bot]]
      BY <1>0, <2>2 DEF NewTokenProbe
    <3>3. owner[d] \in Working
      BY <1>0
    <3>4. CASE owner'[d] = Menu
      BY <1>0, <3>4
    <3>5. CASE owner'[d] = [owner[d] EXCEPT !.at = "savetoken", !.row.token = live[owner[d].bot]]
      <4> HIDE DEF Working
      <4>1. owner'[d] = WithToken(owner[d], "savetoken", live[owner[d].bot])
        BY <3>5 DEF WithToken
      <4>2. owner'[d].bot = owner[d].bot /\ owner'[d].row.token = live[owner[d].bot]
        BY <3>3, <4>1, Replaced
      <4> QED
        BY <3>1, <4>2
    <3> QED
      BY <3>2, <3>4, <3>5
  <2>3. CASE StartRegistration(d)
    BY <1>0, <2>3 DEF StartRegistration, Menu, NoRow
  <2>4. ASSUME NEW c \in Channel, GiveChannel(d, c) \/ NewChannelProbe(d, c)
        PROVE  \/ owner'[d].bot = owner[d].bot /\ owner'[d].row.token = owner[d].row.token
               \/ owner'[d].row.token = 0
    <3>1. \/ owner'[d] = Menu
          \/ \E label \in {"create", "savechannel"} :
                 owner'[d] = [owner[d] EXCEPT !.at = label, !.row.channel = c]
      BY <1>0, <2>4 DEF GiveChannel, NewChannelProbe
    <3>2. owner[d] \in Working
      BY <1>0
    <3>3. CASE owner'[d] = Menu
      BY <1>0, <3>3
    <3>4. ASSUME NEW label \in {"create", "savechannel"},
                 owner'[d] = [owner[d] EXCEPT !.at = label, !.row.channel = c]
          PROVE  owner'[d].bot = owner[d].bot /\ owner'[d].row.token = owner[d].row.token
      <4> HIDE DEF Working
      <4>1. owner'[d] = WithChannel(owner[d], label, c)
        BY <3>4 DEF WithChannel
      <4> QED
        BY <3>2, <4>1, Replaced
    <3> QED
      BY <3>1, <3>3, <3>4
  <2>5. CASE \/ AlreadyExists(d) \/ Create(d) \/ Enqueue(d) \/ Leave(d) \/ ToggleProbe(d)
             \/ Off(d) \/ OffSave(d) \/ On(d) \/ OnSave(d) \/ SaveToken(d) \/ Refresh(d) \/ SaveChannel(d) \/ FailOwner(d)
    <3>1. owner'[d] = Menu \/ \E label : owner'[d] = [owner[d] EXCEPT !.at = label]
      BY <1>0, <2>5 DEF AlreadyExists, Create, Enqueue, Leave, ToggleProbe, Off, OffSave, On, OnSave,
         SaveToken, Refresh, SaveChannel, FailOwner
    <3> QED
      BY <1>0, <3>1
  <2> QED
    BY <2>1, <2>2, <2>3, <2>4, <2>5 DEF OwnerStep
<1>4. owner'[d].bot \in Userbot => owner'[d].row.token <= live'[owner'[d].bot]
  BY <1>0, <1>3 DEF GivenInv
<1>5. \A x \in Chat \ {d} : owner'[x] = owner[x]
  BY OneDialog
<1> QED
  BY <1>0, <1>2, <1>4, <1>5 DEF GivenInv

LEMMA GivenNext == TypeInv /\ GivenInv /\ [Next]_vars => GivenInv'
<1> SUFFICES ASSUME TypeInv, GivenInv, [Next]_vars PROVE GivenInv'
  OBVIOUS
<1>1. CASE TelegramStep
  <2>1. token' = token /\ owner' = owner
    BY <1>1 DEF TelegramStep, ReplaceToken, LoseRights, GainRights
  <2>2. \A b \in Userbot : live[b] <= live'[b] /\ live[b] \in Nat /\ live'[b] \in Nat
    BY <1>1 DEF TypeInv, TelegramType, TelegramStep, ReplaceToken, LoseRights, GainRights, Token
  <2>3. /\ \A b \in Userbot : token[b] \in Nat
        /\ \A d \in Chat : owner[d].row.token \in Nat
    BY DEF TypeInv, RowType, OwnerType, Working, Row, Token
  <2> QED
    BY <2>1, <2>2, <2>3 DEF GivenInv
<1>2. CASE \/ \E u \in Update : UpdateStep(u)
           \/ \E b \in Userbot : TaskStep(b) \/ FailTask(b) \/ WorkerCrash(b)
           \/ UNCHANGED vars
  <2>1. UNCHANGED <<token, live, owner>>
    BY <1>2 DEF UpdateStep, Deliver, DeliverLoss, Demote, DemoteRemoveWebhook, RemoveWebhook, Serve,
       TokenInvalid, FailUpdate, TaskStep, ResolveToken, MakeAdmin, TaskSetWebhook, SetWebhook,
       FailTask, WorkerCrash, vars
  <2> QED
    BY <2>1 DEF GivenInv
<1> QED
  BY <1>1, <1>2, GivenOwner DEF Next

\* Telegram may make a token bad, never good again.
LEMMA HookTelegram ==
  ASSUME TypeInv, HookInv, GivenInv, TelegramStep \/ UNCHANGED vars
  PROVE  HookInv'
<1>0. UNCHANGED <<active, token, owner, task, hook, overtaken, interrupted>>
  BY DEF TelegramStep, ReplaceToken, LoseRights, GainRights, vars
<1>1. \A b \in Userbot : live'[b] = live[b] \/ live'[b] = live[b] + 1
  BY DEF TypeInv, TelegramType, TelegramStep, ReplaceToken, LoseRights, GainRights, vars
<1>2. ASSUME NEW b \in Userbot, Alive(b, token[b])' PROVE Alive(b, token[b])
  <2>1. token[b] \in Nat /\ live[b] \in Nat /\ token[b] <= live[b]
    BY DEF TypeInv, RowType, TelegramType, Token, GivenInv
  <2> QED
    BY <1>0, <1>1, <1>2, <2>1 DEF Alive
<1>3. active \subseteq Userbot
  BY DEF TypeInv, RowType
<1> QED
  BY <1>0, <1>2, <1>3 DEF HookInv, HookAt, Covered, Spared, OwnerWill, WillAt, TaskWill, Excused

LEMMA HookNext == TypeInv /\ HookInv /\ GivenInv /\ [Next]_vars => HookInv'
  BY TypeNext, HookOwner, HookUpdate, HookWorker, HookTelegram DEF Next

(***************************************************************************)
(* An active userbot with a good token has its webhook once nobody works   *)
(* on it, but for a demotion that was overtaken and for failures that left *)
(* the webhook to be set.                                                  *)
(***************************************************************************)
THEOREM ActiveHooked == Spec => []ActiveHasWebhook
<1>1. Spec => [](TypeInv /\ HookInv /\ GivenInv)
  BY TypeInit, TypeNext, HookInit, HookNext, GivenInit, GivenNext, PTL DEF Spec
<1>2. HookInv => ActiveHasWebhook
  BY DEF HookInv, ActiveHasWebhook, Settled, Covered, OwnerWill, WillAt, TaskWill, Excused, Waiting
<1> QED
  BY <1>1, <1>2, PTL
-----------------------------------------------------------------------------
(***************************************************************************)
(* A channel that a userbot may not post to has been missed, unless        *)
(* Telegram has the update about it: c is safe if it was not lost while    *)
(* somebody worked on b, or the loss is on record.                         *)
(***************************************************************************)
Safe(b, c) == c \in rights[b] \union missed[b]

\* What a handler of the owner has probed stays safe while it works on the userbot, and so
\* does what another one writes meanwhile, for that was probed as well.
HeldAt(d) ==
    /\ owner[d].at \in {"create", "savechannel"} => Safe(owner[d].bot, owner[d].row.channel)
    /\ owner[d].at \in {"on", "onsave"} => Safe(owner[d].bot, channel[owner[d].bot])
    /\ owner[d].at = "toggle" => \/ owner[d].row.channel = channel[owner[d].bot]
                                 \/ Safe(owner[d].bot, channel[owner[d].bot])

HeldInv ==
    /\ \A b \in registered : channel[b] \in Channel
    /\ \A d \in Chat : HeldAt(d)

\* Somebody is about to switch b off.
LossWill(b) ==
    \/ \E u \in Update : update[u].at = "demoted" /\ update[u].bot = b
    \/ \E d \in Chat : owner[d].at = "offsave" /\ owner[d].bot = b

\* Telegram has the update, and nobody is going to drop it.
Told(b) ==
    /\ channel[b] \in pending[b] /\ b \in hook
    /\ \A u \in Update : update[u].at = "deactivated" => update[u].bot # b

Noticed(b) == Safe(b, channel[b]) \/ LossWill(b) \/ Told(b)

(***************************************************************************)
(* Webhooks are removed, and what waits is dropped with them, by those who *)
(* have switched the userbot off or will: it can be on again before they   *)
(* are done, but then its channel was probed while they were at work.      *)
(***************************************************************************)
LossInv == HeldInv /\ \A b \in active : Noticed(b)

LEMMA LossInit == Init => LossInv
  BY DEF Init, LossInv, HeldInv, HeldAt, Menu

(***************************************************************************)
(* What a step of a dialog owes to the invariant, about the userbot b it   *)
(* works on.                                                               *)
(***************************************************************************)
LEMMA LossMoves ==
  ASSUME TypeInv, LossInv, NEW d \in Chat, OwnerStep(d), NEW b \in Userbot, owner[d].bot = b,
         UNCHANGED <<rights, update>>,
         \A c \in Userbot \ {b} : /\ channel'[c] = channel[c] /\ (c \in active' => c \in active)
                                  /\ missed[c] \subseteq missed'[c] /\ pending'[c] = pending[c]
                                  /\ (c \in hook => c \in hook'),
         missed[b] \subseteq missed'[b],
         registered' \subseteq Userbot, registered' \subseteq registered \union {b},
         b \in registered' => channel'[b] \in Channel,
         active' \subseteq Userbot,
         channel'[b] = channel[b] \/ Safe(b, channel[b])',
         b \in active' => Noticed(b)',
         HeldAt(d)'
  PROVE  LossInv'
<1>1. /\ \A x \in Chat \ {d} : owner'[x] = owner[x]
      /\ \A x \in Chat : Fit(x) /\ HeldAt(x)
      /\ \A c \in Userbot : missed[c] \subseteq missed'[c]
  BY OneDialog DEF TypeInv, OwnerType, LossInv, HeldInv
<1>2. \A c \in registered' : channel'[c] \in Channel
  BY DEF LossInv, HeldInv
<1>3. \A c \in Userbot : \A x : Safe(c, x) => Safe(c, x)'
  BY <1>1 DEF Safe
<1>4. ASSUME NEW x \in Chat \ {d} PROVE HeldAt(x)'
  <2>c. PICK c : c = owner[x].bot
    OBVIOUS
  <2>1. owner'[x] = owner[x] /\ HeldAt(x) /\ Fit(x)
    BY <1>1
  <2>2. CASE owner[x].at \notin {"create", "savechannel", "toggle", "on", "onsave"}
    BY <2>1, <2>2 DEF HeldAt
  <2>3. CASE owner[x].at \in {"create", "savechannel", "toggle", "on", "onsave"}
    <3>1. c \in Userbot
      BY <2>1, <2>3, <2>c DEF Fit
    <3>2. channel'[c] = channel[c] \/ Safe(c, channel[c])'
      BY <3>1
    <3>3. \A y : Safe(c, y) => Safe(c, y)'
      BY <1>3, <3>1
    <3> QED
      BY <2>1, <2>3, <2>c, <3>2, <3>3 DEF HeldAt
  <2> QED
    BY <2>2, <2>3
<1>5. ASSUME NEW c \in active' PROVE Noticed(c)'
  <2>1. CASE c = b
    BY <2>1
  <2>2. CASE c # b
    <3>1. c \in active /\ Noticed(c) /\ channel'[c] = channel[c] /\ pending'[c] = pending[c]
          /\ (c \in hook => c \in hook')
      BY <1>5, <2>2 DEF LossInv
    <3>2. ASSUME NEW x \in Chat, owner[x].at = "offsave", owner[x].bot = c PROVE owner'[x] = owner[x]
      BY <1>1, <2>2, <3>2
    <3>3. LossWill(c) => LossWill(c)'
      BY <3>2 DEF LossWill
    <3>4. Told(c) => Told(c)'
      BY <3>1 DEF Told
    <3> QED
      BY <1>3, <3>1, <3>3, <3>4, <2>2 DEF Noticed
  <2> QED
    BY <2>1, <2>2
<1> QED
  BY <1>2, <1>4, <1>5 DEF LossInv, HeldInv

\* Steps of a dialog that change neither rows nor what Telegram holds.
LEMMA LossQuiet ==
  ASSUME TypeInv, LossInv, NEW d \in Chat, OwnerStep(d), owner[d].at # "offsave",
         UNCHANGED <<registered, active, channel, hook, pending, rights, missed, update>>,
         HeldAt(d)'
  PROVE  LossInv'
<1>1. \A x \in Chat \ {d} : owner'[x] = owner[x]
  BY OneDialog
<1>2. \A c : Noticed(c) => Noticed(c)'
  BY <1>1 DEF Noticed, Safe, LossWill, Told
<1>3. \A x \in Chat \ {d} : HeldAt(x)'
  BY <1>1 DEF LossInv, HeldInv, HeldAt, Safe
<1> QED
  BY <1>2, <1>3 DEF LossInv, HeldInv

\* A webhook that is set drops updates of a userbot that had none: they are on record.
LEMMA LossSet ==
  ASSUME TypeInv, NEW b \in Userbot, SetWebhook(b), UNCHANGED <<active, channel, update>>
  PROVE  /\ rights' = rights /\ missed' = missed /\ hook \subseteq hook'
         /\ \A c \in Userbot : c \in hook => pending'[c] = pending[c]
         /\ \A c \in Userbot \ {b} : pending'[c] = pending[c]
         /\ \A c \in Userbot : Told(c) => Told(c)'
<1>1. /\ rights' = rights /\ missed' = missed /\ hook \subseteq hook'
      /\ \A c \in Userbot : c \in hook => pending'[c] = pending[c]
      /\ \A c \in Userbot \ {b} : pending'[c] = pending[c]
  BY DEF SetWebhook, TypeInv, TelegramType
<1> QED
  BY <1>1 DEF Told

LEMMA LossMenu ==
  ASSUME TypeInv, LossInv, NEW d \in Chat, OwnerStep(d),
         \/ StartRegistration(d) \/ AlreadyExists(d) \/ Enqueue(d) \/ Leave(d)
         \/ \E b \in Userbot : GiveToken(d, b) \/ ReadRow(d, b)
         \/ \E c \in Channel : GiveChannel(d, c) \/ NewChannelProbe(d, c)
         \/ ToggleProbe(d) \/ NewTokenProbe(d) \/ SaveToken(d)
  PROVE  LossInv'
<1>0. owner \in [Chat -> Working] /\ Menu.at = "menu" /\ HeldAt(d) /\ owner[d] \in Working
  BY DEF TypeInv, OwnerType, Menu, LossInv, HeldInv
<1>1. /\ UNCHANGED <<registered, active, channel, hook, pending, rights, missed, update>>
      /\ owner[d].at # "offsave"
  BY DEF StartRegistration, AlreadyExists, Enqueue, Leave, GiveToken, ReadRow, GiveChannel,
     NewChannelProbe, ToggleProbe, NewTokenProbe, SaveToken
<1>2. CASE StartRegistration(d) \/ AlreadyExists(d) \/ Enqueue(d) \/ Leave(d)
  <2>1. owner'[d].at \in {"menu", "token"}
    BY <1>0, <1>2 DEF StartRegistration, AlreadyExists, Enqueue, Leave, Menu
  <2>2. HeldAt(d)'
    BY <2>1 DEF HeldAt
  <2> QED
    BY <1>1, <2>2, LossQuiet
<1>3. CASE NewTokenProbe(d) \/ SaveToken(d)
  <2>1. owner'[d].at \in {"menu", "savetoken", "refresh"}
    BY <1>0, <1>3 DEF NewTokenProbe, SaveToken, Working, Menu
  <2>2. HeldAt(d)'
    BY <2>1 DEF HeldAt
  <2> QED
    BY <1>1, <2>2, LossQuiet
<1>4. ASSUME NEW b \in Userbot, GiveToken(d, b) \/ ReadRow(d, b) PROVE HeldAt(d)'
  <2>1. owner'[d].at \in {"channel", "newtoken", "newchannel"}
        \/ (owner'[d].at = "toggle" /\ owner'[d].bot = b /\ owner'[d].row.channel = channel[b])
    BY <1>0, <1>4 DEF GiveToken, ReadRow, RowOf
  <2> QED
    BY <1>1, <2>1 DEF HeldAt
<1>5. ASSUME NEW c \in Channel, GiveChannel(d, c) \/ NewChannelProbe(d, c) PROVE HeldAt(d)'
  <2>1. \/ owner'[d] = Menu
        \/ \E label \in {"create", "savechannel"} :
              /\ owner'[d] = [owner[d] EXCEPT !.at = label, !.row.channel = c]
              /\ c \in rights[owner[d].bot]
    BY <1>0, <1>5 DEF GiveChannel, NewChannelProbe, ProbeOk
  <2>2. CASE owner'[d] = Menu
    BY <1>0, <2>2 DEF HeldAt
  <2>3. ASSUME NEW label \in {"create", "savechannel"}, c \in rights[owner[d].bot],
               owner'[d] = [owner[d] EXCEPT !.at = label, !.row.channel = c]
        PROVE  HeldAt(d)'
    <3>1. owner'[d] = WithChannel(owner[d], label, c)
      BY <2>3 DEF WithChannel
    <3>2. owner'[d].at = label /\ owner'[d].bot = owner[d].bot /\ owner'[d].row.channel = c
      BY <1>0, <3>1, Replaced
    <3> QED
      BY <1>1, <2>3, <3>2 DEF HeldAt, Safe
  <2> QED
    BY <2>1, <2>2, <2>3
<1>6. ASSUME ToggleProbe(d) PROVE HeldAt(d)'
  <2>1. /\ owner[d].at = "toggle" /\ owner'[d].bot = owner[d].bot
        /\ owner'[d].at \in {"off", "offsave", "on"}
        /\ owner'[d].at = "on" => owner[d].row.channel \in rights[owner[d].bot]
    BY <1>0, <1>6 DEF ToggleProbe, Working, ProbeOk
  <2> QED
    BY <1>0, <1>1, <2>1 DEF HeldAt, Safe
<1> QED
  BY <1>1, <1>2, <1>3, <1>4, <1>5, <1>6, LossQuiet

LEMMA LossWrites ==
  ASSUME TypeInv, TypeInv', LossInv, NEW d \in Chat, OwnerStep(d),
         Create(d) \/ SaveChannel(d) \/ OffSave(d) \/ OnSave(d)
  PROVE  LossInv'
<1>b. PICK b \in Userbot : b = owner[d].bot
  BY DEF TypeInv, OwnerType, Fit, Create, SaveChannel, OffSave, OnSave
<1>1. /\ owner \in [Chat -> Working] /\ Menu.at = "menu" /\ b = owner[d].bot /\ Fit(d) /\ HeldAt(d)
      /\ channel \in [Userbot -> Channel \union {NoChannel}]
      /\ UNCHANGED <<hook, pending, rights, missed, update>>
      /\ registered' \subseteq Userbot /\ active' \subseteq Userbot
      /\ \A c \in registered : channel[c] \in Channel
  BY <1>b DEF TypeInv, OwnerType, RowType, LossInv, HeldInv, Menu, Create, SaveChannel, OffSave, OnSave
<1>2. CASE Create(d) \/ SaveChannel(d)
  <2>1. /\ owner[d].at \in {"create", "savechannel"}
        /\ channel' = [channel EXCEPT ![b] = owner[d].row.channel]
        /\ active' \subseteq active \union {b} /\ registered' \subseteq registered \union {b}
        /\ owner'[d].at \in {"created", "menu"}
    BY <1>1, <1>2 DEF Create, SaveChannel, Working
  <2>2. channel'[b] = owner[d].row.channel /\ \A c \in Userbot \ {b} : channel'[c] = channel[c]
    BY <1>1, <2>1
  <2>3. owner[d].row.channel \in Channel /\ Safe(b, owner[d].row.channel)
    BY <1>1, <2>1 DEF Fit, HeldAt
  <2>4. Safe(b, channel[b])' /\ HeldAt(d)'
    BY <1>1, <2>1, <2>2, <2>3 DEF Safe, HeldAt
  <2> QED
    BY <1>1, <2>1, <2>2, <2>3, <2>4, LossMoves DEF Noticed
<1>3. CASE OffSave(d) \/ OnSave(d)
  <2>1. /\ UNCHANGED <<registered, channel>> /\ owner'[d].at = "menu"
        /\ \/ active' = active \ {b}
           \/ active' = active \union {b} /\ owner[d].at = "onsave"
    BY <1>1, <1>3 DEF OffSave, OnSave
  <2>2. b \in active' => Safe(b, channel[b])'
    BY <1>1, <2>1 DEF HeldAt, Safe
  <2>3. HeldAt(d)'
    BY <2>1 DEF HeldAt
  <2> QED
    BY <1>1, <2>1, <2>2, <2>3, LossMoves DEF Noticed
<1> QED
  BY <1>2, <1>3

LEMMA LossHooks ==
  ASSUME TypeInv, TypeInv', LossInv, NEW d \in Chat, OwnerStep(d),
         Off(d) \/ On(d) \/ Refresh(d) \/ (FailOwner(d) /\ owner[d].at = "offsave")
  PROVE  LossInv'
<1>b. PICK b \in Userbot : b = owner[d].bot
  BY DEF TypeInv, OwnerType, Fit, Off, On, Refresh
<1>1. /\ owner \in [Chat -> Working] /\ Menu.at = "menu" /\ b = owner[d].bot /\ Fit(d) /\ HeldAt(d)
      /\ UNCHANGED <<registered, active, channel, update, rights>>
      /\ registered' \subseteq Userbot /\ active' \subseteq Userbot
      /\ \A c \in registered : channel[c] \in Channel
      /\ pending \in [Userbot -> SUBSET Channel]
      /\ missed \in [Userbot -> SUBSET (Channel \union {NoChannel})]
      /\ \A c \in active : Noticed(c)
  BY <1>b DEF TypeInv, OwnerType, RowType, TelegramType, LossInv, HeldInv, Menu, Off, On, Refresh,
     FailOwner, SetWebhook, RemoveWebhook
<1>2. CASE Off(d) \/ On(d) \/ Refresh(d)
  <2>1. owner[d].at \in {"off", "on", "refresh"}
    BY <1>2 DEF Off, On, Refresh
  <2>2. CASE UNCHANGED <<hook, pending, missed>> /\ Home(d)
    <3>1. HeldAt(d)'
      BY <1>1, <2>2 DEF HeldAt
    <3> QED
      BY <1>1, <2>1, <2>2, <3>1, LossQuiet
  <2>3. CASE RemoveWebhook(b) /\ Goto(d, "offsave")
    <3>1. /\ owner'[d].at = "offsave" /\ owner'[d].bot = b /\ missed' = missed
          /\ \A c \in Userbot \ {b} : pending'[c] = pending[c] /\ (c \in hook => c \in hook')
      BY <1>1, <2>3 DEF RemoveWebhook, Working
    <3>2. LossWill(b)' /\ HeldAt(d)'
      BY <3>1 DEF LossWill, HeldAt
    <3> QED
      BY <1>1, <3>1, <3>2, LossMoves DEF Noticed
  <2>4. CASE SetWebhook(b) /\ (Home(d) \/ (owner[d].at = "on" /\ Goto(d, "onsave")))
    <3>1. owner'[d].at \in {"menu", "onsave"} /\ (owner'[d].at = "onsave" => owner[d].at = "on")
          /\ (owner'[d].at = "onsave" => owner'[d].bot = b)
      BY <1>1, <2>4 DEF Working
    <3>2. HeldAt(d)'
      BY <1>1, <2>4, <3>1, LossSet DEF HeldAt, Safe
    <3>3. b \in active' => Noticed(b)'
      <4>1. LossWill(b) => LossWill(b)'
        BY <1>1, <2>1, OneDialog DEF LossWill
      <4> QED
        BY <1>1, <2>4, <4>1, LossSet DEF Noticed, Safe
    <3> QED
      BY <1>1, <2>4, <3>2, <3>3, LossSet, LossMoves
  <2> QED
    BY <1>1, <1>2, <2>1, <2>2, <2>3, <2>4 DEF Off, On, Refresh
<1>3. CASE FailOwner(d) /\ owner[d].at = "offsave"
  <2>1. owner'[d].at = "menu" /\ UNCHANGED <<hook, pending>>
    BY <1>1, <1>3 DEF FailOwner, Working, Register
  <2>2. /\ missed'[b] = missed[b] \union (Channel \ rights[b])
        /\ \A c \in Userbot \ {b} : missed'[c] = missed[c]
    BY <1>1, <1>3 DEF FailOwner
  <2>3. b \in registered
    BY <1>1, <1>3 DEF Fit, Toggle
  <2>4. Safe(b, channel[b])' /\ HeldAt(d)'
    BY <1>1, <2>1, <2>2, <2>3 DEF Safe, HeldAt
  <2> QED
    BY <1>1, <2>1, <2>2, <2>4, LossMoves DEF Noticed
<1> QED
  BY <1>2, <1>3

LEMMA LossOwner ==
  ASSUME TypeInv, TypeInv', LossInv, NEW d \in Chat, OwnerStep(d)
  PROVE  LossInv'
<1>1. CASE FailOwner(d) /\ owner[d].at # "offsave"
  <2>1. /\ owner'[d].at \in {"channel", "menu"}
        /\ UNCHANGED <<registered, active, channel, hook, pending, rights, missed, update>>
    BY <1>1 DEF TypeInv, OwnerType, FailOwner, Working, Menu
  <2>2. HeldAt(d)'
    BY <2>1 DEF HeldAt
  <2> QED
    BY <1>1, <2>1, <2>2, LossQuiet
<1>2. CASE ~ FailOwner(d) \/ owner[d].at = "offsave"
  BY <1>2, LossMenu, LossWrites, LossHooks DEF OwnerStep
<1> QED
  BY <1>1, <1>2

\* Updates: one that is about the channel of an active userbot is going to switch it off.
LEMMA LossUpdate ==
  ASSUME TypeInv, LossInv, NEW u \in Update, UpdateStep(u)
  PROVE  LossInv'
<1> DEFINE b == update[u].bot
<1>1. /\ HeldInv /\ active \subseteq Userbot /\ active \subseteq registered
      /\ update[u].at # "none" => b \in Userbot
      /\ UNCHANGED <<registered, channel, rights, owner>>
      /\ pending \in [Userbot -> SUBSET Channel] /\ channel \in [Userbot -> Channel \union {NoChannel}]
      /\ missed \in [Userbot -> SUBSET (Channel \union {NoChannel})]
  BY DEF TypeInv, UpdateType, RowType, TelegramType, LossInv, UpdateStep, Deliver, DeliverLoss,
     Demote, DemoteRemoveWebhook, RemoveWebhook, Serve, TokenInvalid, FailUpdate
<1>2. /\ \A v \in Update \ {u} : update'[v] = update[v]
      /\ update'[u] = update[u] \/ update'[u].at \in {"none", "serving", "unauthorized"}
         \/ update[u].at \in {"none", "demoted"}
  BY DEF TypeInv, UpdateType, UpdateStep, Deliver, DeliverLoss, Demote, DemoteRemoveWebhook, Serve,
     TokenInvalid, FailUpdate, Accept, Become, End, Idle
<1> HIDE DEF b
<1>3. \A d \in active : Noticed(d)
  BY DEF LossInv
<1>4. ASSUME UNCHANGED <<active, hook, pending, missed>>,
             update[u].at \notin {"demoted"}, update'[u].at \notin {"deactivated"}
      PROVE  LossInv'
  BY <1>1, <1>2, <1>3, <1>4 DEF LossInv, HeldInv, HeldAt, Noticed, Safe, LossWill, Told
<1>5. CASE (\E d \in Userbot : Deliver(u, d)) \/ Serve(u)
  <2>1. UNCHANGED <<active, hook, pending, missed>> /\ update[u].at \in {"none", "serving"}
    BY <1>5 DEF Deliver, Serve
  <2>2. update'[u].at \in {"none", "serving", "unauthorized"}
    BY <1>5 DEF TypeInv, UpdateType, Deliver, Serve, Accept, Become, End, Idle
  <2> QED
    BY <1>4, <2>1, <2>2
<1>6. ASSUME NEW d \in Userbot, NEW c \in Channel, DeliverLoss(u, d, c) PROVE LossInv'
  <2>1. /\ UNCHANGED <<active, hook, missed>> /\ update[u].at = "none" /\ c \in pending[d]
        /\ pending'[d] = pending[d] \ {c} /\ \A e \in Userbot \ {d} : pending'[e] = pending[e]
    BY <1>1, <1>6 DEF DeliverLoss
  <2>2. \/ channel[d] # c /\ update' = update
        \/ /\ channel[d] = c /\ d \in active
           /\ update'[u].at = "demoted" /\ update'[u].bot = d
        \/ channel[d] = c /\ d \notin active /\ update' = update
    BY <1>1, <1>6 DEF TypeInv, UpdateType, DeliverLoss, Accept
  <2>3. HeldInv'
    BY <1>1, <2>1 DEF HeldInv, HeldAt, Safe
  <2>4. ASSUME NEW e \in active PROVE Noticed(e)'
    <3>1. CASE e # d
      BY <1>1, <1>2, <1>3, <2>1, <2>2, <3>1 DEF Noticed, Safe, LossWill, Told
    <3>2. CASE e = d /\ channel[d] = c
      BY <2>2, <3>2 DEF Noticed, LossWill
    <3>3. CASE e = d /\ channel[d] # c
      BY <1>1, <1>3, <2>1, <2>2, <3>3 DEF Noticed, Safe, LossWill, Told
    <3> QED
      BY <3>1, <3>2, <3>3
  <2> QED
    BY <2>1, <2>3, <2>4 DEF LossInv
<1>7. CASE Demote(u)
  <2>1. /\ UNCHANGED <<hook, pending, missed>> /\ active' = active \ {b}
        /\ update'[u].at = "deactivated" /\ update'[u].bot = b
    BY <1>7 DEF TypeInv, UpdateType, Demote, Become, b
  <2>2. HeldInv'
    BY <1>1, <2>1 DEF HeldInv, HeldAt, Safe
  <2>3. ASSUME NEW d \in active \ {b} PROVE Noticed(d)'
    BY <1>1, <1>2, <1>3, <2>1 DEF Noticed, Safe, LossWill, Told, b
  <2> QED
    BY <2>1, <2>2, <2>3 DEF LossInv
<1>8. CASE DemoteRemoveWebhook(u)
  <2>1. /\ active' = active /\ missed' = missed /\ update[u].at = "deactivated"
        /\ update'[u].at \in {"none", "unauthorized"}
        /\ \A d \in Userbot \ {b} : pending'[d] = pending[d] /\ (d \in hook => d \in hook')
    BY <1>1, <1>8 DEF TypeInv, UpdateType, DemoteRemoveWebhook, RemoveWebhook, Become, End, Idle, b
  <2>2. HeldInv'
    BY <1>1, <2>1 DEF HeldInv, HeldAt, Safe
  <2>3. ASSUME NEW d \in active PROVE Noticed(d)'
    <3>1. CASE d = b
      <4>1. ~ Told(d)
        BY <2>1, <3>1 DEF Told, b
      <4> QED
        BY <1>1, <1>2, <1>3, <2>1, <4>1 DEF Noticed, Safe, LossWill
    <3>2. CASE d # b
      BY <1>1, <1>2, <1>3, <2>1, <3>2 DEF Noticed, Safe, LossWill, Told
    <3> QED
      BY <3>1, <3>2
  <2> QED
    BY <2>1, <2>2, <2>3 DEF LossInv
<1>9. CASE TokenInvalid(u)
  <2>1. /\ UNCHANGED <<hook, pending, missed>> /\ active' \subseteq active
        /\ update[u].at = "unauthorized" /\ update'[u].at = "none"
    BY <1>9 DEF TypeInv, UpdateType, TokenInvalid, End, Idle
  <2>2. HeldInv'
    BY <1>1, <2>1 DEF HeldInv, HeldAt, Safe
  <2>3. ASSUME NEW d \in active' PROVE Noticed(d)'
    BY <1>1, <1>2, <1>3, <2>1 DEF Noticed, Safe, LossWill, Told
  <2> QED
    BY <2>2, <2>3 DEF LossInv
<1>10. CASE FailUpdate(u)
  <2>1. /\ UNCHANGED <<active, hook, pending>> /\ update'[u].at = "none" /\ b \in Userbot
        /\ missed' = IF update[u].at = "demoted"
                       THEN [missed EXCEPT ![b] = @ \union {channel[b]}] ELSE missed
    BY <1>1, <1>10 DEF TypeInv, UpdateType, FailUpdate, End, Idle, b
  <2>2. CASE update[u].at # "demoted"
    BY <1>4, <2>1, <2>2
  <2>3. CASE update[u].at = "demoted"
    <3>1. missed'[b] = missed[b] \union {channel[b]} /\ \A d \in Userbot \ {b} : missed'[d] = missed[d]
      BY <1>1, <2>1, <2>3
    <3>2. \A d \in Userbot : missed[d] \subseteq missed'[d]
      BY <3>1
    <3>3. HeldInv'
      <4>1. \A d \in Chat : owner[d].at \in {"create", "savechannel", "toggle", "on", "onsave"} =>
               owner[d].bot \in Userbot
        BY DEF TypeInv, OwnerType, Fit
      <4> QED
        BY <1>1, <2>1, <3>2, <4>1 DEF HeldInv, HeldAt, Safe
    <3>4. ASSUME NEW d \in active PROVE Noticed(d)'
      <4>1. CASE d = b
        BY <1>1, <3>1, <4>1 DEF Noticed, Safe
      <4>2. CASE d # b
        BY <1>1, <1>2, <1>3, <2>1, <3>1, <4>2 DEF Noticed, Safe, LossWill, Told, b
      <4> QED
        BY <4>1, <4>2
    <3> QED
      BY <2>1, <3>3, <3>4 DEF LossInv
  <2> QED
    BY <2>2, <2>3
<1> QED
  BY <1>5, <1>6, <1>7, <1>8, <1>9, <1>10 DEF UpdateStep

LEMMA LossWorker ==
  ASSUME TypeInv, LossInv, NEW b \in Userbot, TaskStep(b) \/ FailTask(b) \/ WorkerCrash(b)
  PROVE  LossInv'
<1>1. UNCHANGED <<registered, active, channel, update, owner, rights, missed>>
  BY DEF TaskStep, ResolveToken, MakeAdmin, TaskSetWebhook, SetWebhook, FailTask, WorkerCrash
<1>2. UNCHANGED <<hook, pending>> \/ SetWebhook(b)
  BY DEF TaskStep, ResolveToken, MakeAdmin, TaskSetWebhook, FailTask, WorkerCrash
<1>3. CASE UNCHANGED <<hook, pending>>
  BY <1>1, <1>3 DEF LossInv, HeldInv, HeldAt, Noticed, Safe, LossWill, Told
<1>4. CASE SetWebhook(b)
  <2>1. /\ hook \subseteq hook'
        /\ \A d \in Userbot : d \in hook => pending'[d] = pending[d]
    BY <1>4 DEF SetWebhook, TypeInv, TelegramType
  <2>2. active \subseteq Userbot
    BY DEF TypeInv, RowType
  <2> QED
    BY <1>1, <2>1, <2>2 DEF LossInv, HeldInv, HeldAt, Noticed, Safe, LossWill, Told
<1> QED
  BY <1>2, <1>3, <1>4

\* Telegram: a loss is on record, or the update about it waits and nobody works on the userbot.
LEMMA LossTelegram ==
  ASSUME TypeInv, LossInv, TelegramStep \/ UNCHANGED vars
  PROVE  LossInv'
<1>1. /\ UNCHANGED <<registered, active, channel, update, owner, hook>> /\ HeldInv
      /\ active \subseteq Userbot /\ rights \in [Userbot -> SUBSET Channel]
      /\ pending \in [Userbot -> SUBSET Channel]
      /\ missed \in [Userbot -> SUBSET (Channel \union {NoChannel})]
      /\ \A d \in Chat : owner[d].at \in {"create", "savechannel", "toggle", "on", "onsave"} =>
            owner[d].bot \in Userbot
  BY DEF TelegramStep, ReplaceToken, LoseRights, GainRights, vars, TypeInv, RowType, TelegramType,
     OwnerType, Fit, LossInv
<1>2. CASE UNCHANGED <<rights, pending, missed>>
  BY <1>1, <1>2 DEF LossInv, HeldInv, HeldAt, Noticed, Safe, LossWill, Told
<1>3. ASSUME NEW b \in Userbot, NEW c \in Channel, GainRights(b, c) PROVE LossInv'
  <2>1. /\ pending' = pending
        /\ \A d \in Userbot : rights[d] \union missed[d] \subseteq rights'[d] \union missed'[d]
    BY <1>1, <1>3 DEF GainRights
  <2> QED
    BY <1>1, <2>1 DEF LossInv, HeldInv, HeldAt, Noticed, Safe, LossWill, Told
<1>4. ASSUME NEW b \in Userbot, NEW c \in Channel, LoseRights(b, c) PROVE LossInv'
  <2>1. /\ rights'[b] = rights[b] \ {c} /\ pending'[b] = pending[b] \union {c}
        /\ \A d \in Userbot \ {b} : rights'[d] = rights[d] /\ pending'[d] = pending[d]
                                    /\ missed'[d] = missed[d]
        /\ missed'[b] = IF Settled(b) /\ b \in hook THEN missed[b] ELSE missed[b] \union {c}
    BY <1>1, <1>4 DEF LoseRights
  <2>2. HeldInv'
    <3>1. \A d \in Chat : owner[d].at \in {"create", "savechannel", "toggle", "on", "onsave"} =>
             ~ Settled(owner[d].bot)
      BY DEF Settled, Waiting
    <3> QED
      BY <1>1, <2>1, <3>1 DEF HeldInv, HeldAt, Safe
  <2>3. ASSUME NEW d \in active PROVE Noticed(d)'
    <3>1. Safe(d, channel[d]) \/ LossWill(d) \/ Told(d)
      BY DEF LossInv, Noticed
    <3>2. Told(d) => Told(d)'
      BY <1>1, <2>1 DEF Told
    <3>3. LossWill(d) => LossWill(d)'
      BY <1>1 DEF LossWill
    <3>4. ASSUME Safe(d, channel[d]) PROVE Safe(d, channel[d])' \/ Told(d)'
      <4>1. CASE d # b \/ channel[d] # c
        BY <1>1, <2>1, <3>4, <4>1 DEF Safe
      <4>2. CASE d = b /\ channel[d] = c /\ ~ (Settled(b) /\ b \in hook)
        BY <1>1, <2>1, <4>2 DEF Safe
      <4>3. CASE d = b /\ channel[d] = c /\ Settled(b) /\ b \in hook
        BY <1>1, <2>1, <4>3 DEF Told, Settled
      <4> QED
        BY <4>1, <4>2, <4>3
    <3> QED
      BY <3>1, <3>2, <3>3, <3>4 DEF Noticed
  <2> QED
    BY <1>1, <2>2, <2>3 DEF LossInv
<1> QED
  BY <1>2, <1>3, <1>4 DEF TelegramStep, ReplaceToken, vars

LEMMA LossNext == TypeInv /\ LossInv /\ [Next]_vars => LossInv'
  BY TypeNext, LossOwner, LossUpdate, LossWorker, LossTelegram DEF Next

(***************************************************************************)
(* An active userbot that nobody works on may post to its channel, or      *)
(* Telegram has the update that switches it off, but for a loss that came  *)
(* while somebody worked on it or while it had no webhook, and for a       *)
(* handler that failed (chat_member.py, ub_active_toggle.py).              *)
(***************************************************************************)
THEOREM LossesAreExplained == Spec => []LossExplained
<1>1. Spec => [](TypeInv /\ LossInv)
  BY TypeInit, TypeNext, LossInit, LossNext, PTL DEF Spec
<1>2. LossInv => LossExplained
  <2> SUFFICES ASSUME LossInv, NEW b \in active, Settled(b)
               PROVE  channel[b] \in rights[b] \union pending[b] \union missed[b]
    BY DEF LossExplained
  <2>1. ~ LossWill(b)
    BY DEF Settled, LossWill, Waiting
  <2> QED
    BY <2>1 DEF LossInv, Noticed, Safe, Told
<1> QED
  BY <1>1, <1>2, PTL
=============================================================================
