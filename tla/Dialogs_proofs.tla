--------------------------- MODULE Dialogs_proofs ---------------------------
(***************************************************************************)
(* For every number of updates under way and of users or userbots to       *)
(* select: the data a window works on is there, nothing takes messages     *)
(* from the viewer, a tap acts on what was shown, and only admins act.     *)
(***************************************************************************)
EXTENDS Dialogs, SequenceTheorems, TLAPS

Lists == {"user_select", "select"}

\* A context holds what its window looks up; nothing is selected while the list is shown.
Good(c) ==
    /\ c \in Context
    /\ c.window \in WithTarget => c.target # None
    /\ c.window \in WithContent => c.content
    /\ ~ c.raced /\ c.window \in Lists => c.target = None

\* A stack is a ROOT dialog with at most one dialog on top.
GoodStack(s) ==
    /\ s \in Seq(Context) /\ Len(s) <= 2
    /\ \A i \in DOMAIN s : Good(s[i]) /\ (s[i].window \in Root <=> i = 1)
    /\ \A i, j \in DOMAIN s : s[i].id = s[j].id => i = j

\* c is what a handler makes of the context d, or of one read from d before.
Follows(c, d) ==
    /\ c.id = d.id
    /\ c.window \in Root <=> d.window \in Root
    /\ ~ c.raced => ~ d.raced /\ d.target \in {None, c.target}

\* A tap, the context it is on, and the context it has read.
TapFits(t, d) ==
    /\ ~ d.raced => t.target \in {None, d.target}
    /\ t.phase = "arrived" =>
          /\ Good(t.context) /\ t.context.id = d.id
          /\ t.context.window \in Root <=> d.window \in Root

TapInv ==
    \A u \in Slot : upd[u].kind = "tap" =>
        /\ \E i \in DOMAIN stack : stack[i].id = upd[u].id
        /\ \A i \in DOMAIN stack : stack[i].id = upd[u].id => TapFits(upd[u], stack[i])
        /\ upd[u].widget \in {"change_role", "toggle", "demote_admins"} => upd[u].target # None

ScreenInv ==
    screen = Blank \/
        /\ stack # <<>>
        /\ screen = Rendering(Top, TRUE) \/ screen = Rendering(Top, FALSE)

UpdateInv ==
    /\ upd \in [Slot -> Update]
    /\ \A u \in Slot : upd[u].kind \notin {"free", "other"} =>
          /\ role = "ADMIN" => upd[u].wasAdmin
          /\ upd[u].role = "ADMIN" => upd[u].wasAdmin \/ upd[u].demoted

PlainInv ==
    /\ side \in {"main", "menu"} /\ role \in Role /\ entry \in Role \union {None}
    /\ viewer \in {"none", "in_viewer", "message_user"}
    /\ misled \in BOOLEAN /\ trespass \in BOOLEAN

StateInv == PlainInv /\ GoodStack(stack) /\ TapInv /\ ScreenInv /\ UpdateInv

IInv == StateInv /\ ViewerIsHeard /\ TapsActOnWhatIsShown /\ OnlyAdminsAct
-----------------------------------------------------------------------------
(***************************************************************************)
(* Which buttons lead where.                                               *)
(***************************************************************************)
LEMMA WindowFacts ==
  /\ Root \subseteq Window /\ WithTarget \subseteq Window /\ WithContent \subseteq Window
  /\ Lists \subseteq Window
  BY DEF Root, WithTarget, WithContent, Lists, Window, UserWindows, AdminWindows, RegistrarWindows

LEMMA SwitchFacts ==
  ASSUME NEW w \in Window, NEW x \in Switches(w)
  PROVE  /\ x \in Window /\ x \notin WithContent
         /\ x \in WithTarget => w \in WithTarget
         /\ x \in Lists => x = w
         /\ x \in Root <=> w \in Root
<1> USE DEF Root, WithTarget, WithContent, Lists, Window, UserWindows, AdminWindows, RegistrarWindows
<1>1. CASE x \in UserSwitches(w)
  BY <1>1 DEF UserSwitches
<1>2. CASE x \in AdminSwitches(w)
  BY <1>2 DEF AdminSwitches
<1>3. CASE x \in RegistrarSwitches(w)
  BY <1>3 DEF RegistrarSwitches
<1> QED
  BY <1>1, <1>2, <1>3 DEF Switches

\* What a dialog is started with, and from where.
Initial(w) == w \in Window /\ w \notin WithTarget /\ w \notin WithContent

LEMMA StartFacts ==
  ASSUME NEW w \in Window, NEW x \in Starts(w)
  PROVE  /\ Initial(x)
         /\ x \in Root \/ w \in Root
         /\ x \in AdminWindows => x = "admin" \/ w \in AdminWindows
<1> USE DEF Root, WithTarget, WithContent, Initial, Window, UserWindows, AdminWindows, RegistrarWindows
<1>1. CASE x \in UserStarts(w)
  BY <1>1 DEF UserStarts
<1>2. CASE x \in AdminStarts(w)
  BY <1>2 DEF AdminStarts
<1>3. CASE x \in RegistrarStarts(w)
  BY <1>3 DEF RegistrarStarts
<1>4. CASE x \in BackToAdmin(w)
  BY <1>4 DEF BackToAdmin
<1>5. CASE x \in BackToMenu(w)
  BY <1>5 DEF BackToMenu
<1> QED
  BY <1>1, <1>2, <1>3, <1>4, <1>5 DEF Starts

\* Buttons that are no windows.
LEMMA ButtonFacts ==
  ASSUME NEW w \in Window
  PROVE  /\ Buttons(w) \subseteq Widget
         /\ Buttons(w) \intersect Target # {} => w \in Lists
         /\ "confirm" \in Buttons(w) => w \in AdminWindows
         /\ Buttons(w) \intersect {"change_role", "toggle", "demote_admins"} # {} => w \in WithTarget
<1>1. Switches(w) \union Starts(w) \subseteq Window
  BY SwitchFacts, StartFacts DEF Initial, Starts
<1>2. Window \intersect {"confirm", "viewer", "change_role", "toggle", "demote_admins"} = {}
  BY DEF Window, UserWindows, AdminWindows, RegistrarWindows
<1>3. Items(w) \subseteq Target /\ (Items(w) # {} => w \in Lists)
  BY DEF Items, Lists
<1>4. /\ Confirmations(w) \subseteq {"confirm"}
      /\ Confirmations(w) # {} => w \in AdminWindows
  BY DEF Confirmations, AdminWindows
<1>5. /\ Actions(w) \subseteq {"viewer", "change_role", "toggle", "demote_admins"}
      /\ Actions(w) \intersect {"change_role", "toggle", "demote_admins"} # {} => w \in WithTarget
  BY DEF Actions, WithTarget
<1>6. Target \intersect Label = {}
  BY TargetAssumption
<1>7. Buttons(w) \subseteq Window \union Items(w) \union Confirmations(w) \union Actions(w)
  BY <1>1 DEF Buttons
<1>8. Target \intersect Window = {} /\ Target \intersect {"confirm", "viewer", "change_role", "toggle", "demote_admins"} = {}
  BY <1>6 DEF Label
<1> HIDE DEF Buttons, Items, Confirmations, Actions
<1>9. Buttons(w) \subseteq Widget
  BY <1>3, <1>4, <1>5, <1>7 DEF Widget, Label
<1>10. Buttons(w) \intersect Target # {} => w \in Lists
  BY <1>3, <1>4, <1>5, <1>7, <1>8
<1>11. "confirm" \in Buttons(w) => w \in AdminWindows
  BY <1>2, <1>3, <1>4, <1>5, <1>7, <1>8
<1>12. Buttons(w) \intersect {"change_role", "toggle", "demote_admins"} # {} => w \in WithTarget
  BY <1>2, <1>3, <1>4, <1>5, <1>7, <1>8
<1> QED
  BY <1>9, <1>10, <1>11, <1>12
-----------------------------------------------------------------------------
(***************************************************************************)
(* The stack.                                                              *)
(***************************************************************************)
LEMMA TopFacts ==
  ASSUME GoodStack(stack), stack # <<>>
  PROVE  /\ Len(stack) \in 1 .. 2 /\ DOMAIN stack = 1 .. Len(stack)
         /\ Top = stack[Len(stack)] /\ Good(Top)
         /\ Top.window \in Root <=> Len(stack) = 1
         /\ \A i \in DOMAIN stack : stack[i].id = Top.id => i = Len(stack)
<1>1. Len(stack) \in Nat /\ DOMAIN stack = 1 .. Len(stack) /\ Len(stack) # 0
  BY LenProperties, EmptySeq DEF GoodStack
<1>2. Len(stack) \in 1 .. 2 /\ Len(stack) \in DOMAIN stack
  BY <1>1 DEF GoodStack
<1> QED
  BY <1>1, <1>2 DEF GoodStack, Top, Last

LEMMA PutFacts ==
  ASSUME GoodStack(stack), stack # <<>>, NEW c, Good(c), Follows(c, Top)
  PROVE  /\ GoodStack(Put(c)) /\ Put(c) # <<>> /\ Last(Put(c)) = c
         /\ Len(Put(c)) = Len(stack)
         /\ \A i \in DOMAIN Put(c) : i \in DOMAIN stack /\ (Put(c)[i] = stack[i] \/ (i = Len(stack) /\ Put(c)[i] = c))
<1> DEFINE n == Len(stack)
           s == Put(c)
<1>0. /\ n \in 1 .. 2 /\ DOMAIN stack = 1 .. n /\ stack \in Seq(Context) /\ c \in Context
      /\ \A i \in 1 .. n : stack[i] \in Context
  BY TopFacts, ElementOfSeq DEF GoodStack, Good
<1>1. /\ Front(stack) \in Seq(Context) /\ Len(Front(stack)) = n - 1
      /\ \A i \in 1 .. n - 1 : Front(stack)[i] = stack[i]
  <2>1. 1 \in Int /\ n - 1 \in Int /\ \A i \in 1 .. n - 1 : stack[i] \in Context
    BY <1>0
  <2>2. /\ SubSeq(stack, 1, n - 1) \in Seq(Context)
        /\ Len(SubSeq(stack, 1, n - 1)) = IF 1 <= n - 1 THEN n - 1 - 1 + 1 ELSE 0
        /\ \A i \in 1 .. n - 1 - 1 + 1 : SubSeq(stack, 1, n - 1)[i] = stack[1 + i - 1]
    BY <2>1, SubSeqProperties
  <2> HIDE DEF n
  <2>3. Front(stack) = SubSeq(stack, 1, n - 1)
    BY DEF Front, n
  <2> QED
    BY <1>0, <2>2, <2>3
<1>2. /\ s \in Seq(Context) /\ s # <<>> /\ Len(s) = n /\ DOMAIN s = 1 .. n
      /\ \A i \in 1 .. n - 1 : s[i] = stack[i]
      /\ s[n] = c
  <2> DEFINE f == Front(stack)
  <2>1. f \in Seq(Context) /\ Len(f) = n - 1 /\ \A i \in 1 .. n - 1 : f[i] = stack[i]
    BY <1>1
  <2>2. s = Append(f, c)
    BY DEF Put
  <2>0. c \in Context
    BY <1>0
  <2> HIDE DEF f, s
  <2>3. /\ s \in Seq(Context) /\ s # <<>> /\ Len(s) = Len(f) + 1
        /\ \A i \in 1 .. Len(f) : s[i] = f[i]
        /\ s[Len(f) + 1] = c
    BY <2>0, <2>1, <2>2, AppendProperties
  <2> HIDE DEF n
  <2> QED
    BY <1>0, <2>1, <2>3, LenProperties
<1>3. Last(s) = c
  BY <1>2 DEF Last
<1> HIDE DEF s
<1>4. \A i \in 1 .. n : s[i] = stack[i] \/ (i = n /\ s[i] = c)
  <2> HIDE DEF n
  <2>1. \A i \in 1 .. n : i = n \/ i \in 1 .. n - 1
    BY <1>0
  <2> QED
    BY <1>2, <2>1
<1>5. c.id = stack[n].id /\ (c.window \in Root <=> stack[n].window \in Root)
  BY TopFacts DEF Follows
<1>6. \A i \in 1 .. n : Good(s[i]) /\ (s[i].window \in Root <=> i = 1) /\ s[i].id = stack[i].id
  <2> SUFFICES ASSUME NEW i \in 1 .. n
               PROVE  Good(s[i]) /\ (s[i].window \in Root <=> i = 1) /\ s[i].id = stack[i].id
    OBVIOUS
  <2>1. Good(stack[i]) /\ (stack[i].window \in Root <=> i = 1)
    BY <1>0 DEF GoodStack
  <2> QED
    BY <1>4, <1>5, <2>1
<1>7. \A i, j \in 1 .. n : s[i].id = s[j].id => i = j
  BY <1>0, <1>6 DEF GoodStack
<1>8. GoodStack(s)
  BY <1>0, <1>2, <1>6, <1>7 DEF GoodStack
<1> QED
  BY <1>0, <1>2, <1>3, <1>4, <1>8 DEF s

LEMMA NewFacts ==
  ASSUME GoodStack(stack), NEW w, Initial(w)
  PROVE  /\ NewContext(w) \in Context /\ NewContext(w).id \notin Ids(stack)
         /\ NewContext(w).window = w /\ Good(NewContext(w))
<1> DEFINE k == CHOOSE i \in Id : i \notin Ids(stack)
<1>1. \E i \in Id : i \notin Ids(stack)
  <2>1. Len(stack) \in 0 .. 2 /\ DOMAIN stack = 1 .. Len(stack)
    <3>1. Len(stack) \in Nat /\ DOMAIN stack = 1 .. Len(stack) /\ Len(stack) <= 2
      BY LenProperties DEF GoodStack
    <3> QED
      BY <3>1
  <2>2. CASE Len(stack) = 0
    <3>1. 1 \in Id /\ 1 \notin Ids(stack)
      BY <2>1, <2>2 DEF Id, Ids
    <3> QED
      BY <3>1
  <2>3. CASE Len(stack) = 1
    <3>1. Ids(stack) = {stack[1].id}
      BY <2>1, <2>3 DEF Ids
    <3> QED
      BY <3>1 DEF Id
  <2>4. CASE Len(stack) = 2
    <3>1. Ids(stack) = {stack[1].id, stack[2].id}
      BY <2>1, <2>4 DEF Ids
    <3> QED
      BY <3>1 DEF Id
  <2> QED
    BY <2>1, <2>2, <2>3, <2>4
<1>2. k \in Id /\ k \notin Ids(stack)
  BY <1>1
<1>3. NewContext(w) = [id |-> k, window |-> w, target |-> None, content |-> FALSE, raced |-> FALSE]
  BY DEF NewContext
<1> HIDE DEF k
<1>4. NewContext(w) \in Context
  BY <1>2, <1>3 DEF Context, Initial
<1> QED
  BY <1>2, <1>3, <1>4 DEF Good, Initial

\* What is left of the stack s was made of what was on the stack.
Kept(s) ==
    \A i \in DOMAIN s : s[i].id \in Ids(stack) =>
        \E j \in DOMAIN stack : Follows(s[i], stack[j])

LEMMA PutKept ==
  ASSUME GoodStack(stack), stack # <<>>, NEW c, Good(c), Follows(c, Top)
  PROVE  Kept(Put(c)) /\ Ids(Put(c)) \subseteq Ids(stack)
<1>1. \A i \in DOMAIN Put(c) :
          i \in DOMAIN stack /\ (Put(c)[i] = stack[i] \/ (i = Len(stack) /\ Put(c)[i] = c))
  BY PutFacts
<1>2. \A i \in DOMAIN stack : Follows(stack[i], stack[i])
  BY DEF Follows
<1>3. Top = stack[Len(stack)]
  BY TopFacts
<1>4. \A i \in DOMAIN Put(c) : Follows(Put(c)[i], stack[i])
  BY <1>1, <1>2, <1>3
<1> QED
  BY <1>1, <1>4 DEF Kept, Ids, Follows

LEMMA StartDialogFacts ==
  ASSUME GoodStack(stack), NEW below, GoodStack(below), Kept(below), Ids(below) \subseteq Ids(stack),
         NEW w, Initial(w), w \in Root \/ (below # <<>> /\ Last(below).window \in Root)
  PROVE  GoodStack(StartDialog(below, w)) /\ Kept(StartDialog(below, w)) /\ StartDialog(below, w) # <<>>
<1> DEFINE x == NewContext(w)
           s == StartDialog(below, w)
<1>1. x \in Context /\ x.id \notin Ids(stack) /\ x.window = w /\ Good(x)
  BY NewFacts
<1>2. CASE w \in Root
  <2>1. s = <<x>>
    BY <1>2 DEF StartDialog
  <2>2. s \in Seq(Context) /\ Len(s) = 1 /\ DOMAIN s = 1 .. 1 /\ s[1] = x /\ s # <<>>
    BY <1>1, <2>1
  <2> HIDE DEF s, x
  <2> QED
    BY <1>1, <1>2, <2>2 DEF GoodStack, Kept, s
<1>3. CASE w \notin Root
  <2> DEFINE n == Len(below)
  <2>0. /\ below \in Seq(Context) /\ n \in 0 .. 2 /\ DOMAIN below = 1 .. n /\ below # <<>>
        /\ \A i \in 1 .. n : Good(below[i]) /\ (below[i].window \in Root <=> i = 1)
        /\ \A i \in 1 .. n : below[i].id \in Ids(stack)
    <3>1. below \in Seq(Context) /\ n \in Nat /\ n <= 2 /\ DOMAIN below = 1 .. n
      BY LenProperties DEF GoodStack
    <3>2. below # <<>>
      BY <1>3
    <3>3. \A i \in 1 .. n : below[i].id \in Ids(below)
      BY <3>1 DEF Ids
    <3> QED
      BY <3>1, <3>2, <3>3 DEF GoodStack
  <2>1. n = 1
    <3>1. n # 0
      BY <2>0, EmptySeq
    <3>2. Last(below) = below[n]
      BY DEF Last
    <3> QED
      BY <1>3, <2>0, <3>1, <3>2
  <2>2. s = Append(below, x)
    BY <1>3 DEF StartDialog
  <2>3. /\ s \in Seq(Context) /\ s # <<>> /\ Len(s) = 2 /\ DOMAIN s = 1 .. 2
        /\ s[1] = below[1] /\ s[2] = x
    <3> HIDE DEF s, x
    <3>1. /\ s \in Seq(Context) /\ s # <<>> /\ Len(s) = n + 1
          /\ \A i \in 1 .. n : s[i] = below[i]
          /\ s[n + 1] = x
      BY <1>1, <2>0, <2>2, AppendProperties
    <3> HIDE DEF n
    <3> QED
      BY <2>1, <3>1, LenProperties
  <2> HIDE DEF s, x
  <2>4. GoodStack(s)
    BY <1>1, <1>3, <2>0, <2>1, <2>3 DEF GoodStack
  <2>5. Kept(s)
    BY <1>1, <2>0, <2>1, <2>3 DEF Kept
  <2> QED
    BY <2>3, <2>4, <2>5 DEF s
<1> QED
  BY <1>2, <1>3

LEMMA EmptyFacts == GoodStack(<<>>) /\ Kept(<<>>) /\ Ids(<<>>) = {}
  BY EmptySeq DEF GoodStack, Kept, Ids
-----------------------------------------------------------------------------
(***************************************************************************)
(* What every handler does.                                                *)
(***************************************************************************)
LEMMA FreeType == Free \in Update /\ Free.kind = "free"
  BY DEF Free, Update, Role

LEMMA ShowKeeps ==
  ASSUME StateInv, NEW u \in Slot, NEW s, GoodStack(s), Kept(s), Show(u, s)
  PROVE  /\ GoodStack(stack)' /\ TapInv' /\ ScreenInv' /\ UpdateInv'
         /\ UNCHANGED <<side, role, entry>>
<1>1. stack' = s /\ UNCHANGED <<side, role, entry>>
  BY DEF Show
<1>2. GoodStack(stack)'
  BY <1>1 DEF GoodStack, Good
<1>3. \A v \in Slot : upd'[v] = Free \/ (upd'[v] = upd[v] /\ (upd[v].kind = "tap" => upd[v].id \in Ids(s)))
  BY DEF Show
<1>4. UpdateInv'
  <2>1. upd' \in [Slot -> Update]
    BY FreeType DEF Show, StateInv, UpdateInv
  <2> QED
    BY <1>1, <1>3, <2>1, FreeType DEF StateInv, UpdateInv
<1>5. TapInv'
  <2> SUFFICES ASSUME NEW v \in Slot, upd'[v].kind = "tap"
               PROVE  /\ \E i \in DOMAIN s : s[i].id = upd'[v].id
                      /\ \A i \in DOMAIN s : s[i].id = upd'[v].id => TapFits(upd'[v], s[i])
                      /\ upd'[v].widget \in {"change_role", "toggle", "demote_admins"} => upd'[v].target # None
    BY <1>1 DEF TapInv, TapFits, Good
  <2>1. upd'[v] = upd[v] /\ upd[v].kind = "tap" /\ upd[v].id \in Ids(s)
    BY <1>3, FreeType
  <2>2. /\ \E i \in DOMAIN stack : stack[i].id = upd[v].id
        /\ \A i \in DOMAIN stack : stack[i].id = upd[v].id => TapFits(upd[v], stack[i])
        /\ upd[v].widget \in {"change_role", "toggle", "demote_admins"} => upd[v].target # None
    BY <2>1 DEF StateInv, TapInv
  <2>3. \E i \in DOMAIN s : s[i].id = upd[v].id
    BY <2>1 DEF Ids
  <2>4. ASSUME NEW i \in DOMAIN s, s[i].id = upd[v].id PROVE TapFits(upd[v], s[i])
    <3>1. s[i].id \in Ids(stack)
      BY <2>2, <2>4 DEF Ids
    <3>2. PICK j \in DOMAIN stack : Follows(s[i], stack[j])
      BY <3>1 DEF Kept
    <3>3. TapFits(upd[v], stack[j])
      BY <2>2, <2>4, <3>2 DEF Follows
    <3> QED
      BY <3>2, <3>3 DEF Follows, TapFits
  <2> QED
    BY <2>1, <2>2, <2>3, <2>4
<1>6. ScreenInv'
  <2>1. screen' = IF s = <<>> THEN Blank ELSE Rendering(Last(s), upd[u].role = "ADMIN")
    BY DEF Show
  <2>2. CASE s = <<>>
    BY <2>1, <2>2 DEF ScreenInv
  <2>3. CASE s # <<>>
    <3>1. Top' = Last(s)
      BY <1>1 DEF Top, Last
    <3>2. screen' = Rendering(Last(s), TRUE) \/ screen' = Rendering(Last(s), FALSE)
      <4>1. (upd[u].role = "ADMIN") = TRUE \/ (upd[u].role = "ADMIN") = FALSE
        OBVIOUS
      <4> QED
        BY <2>1, <2>3, <4>1
    <3> QED
      BY <1>1, <2>3, <3>1, <3>2 DEF ScreenInv, Rendering
  <2> QED
    BY <2>2, <2>3
<1> QED
  BY <1>1, <1>2, <1>4, <1>5, <1>6

\* A handler of a dialog.
LEMMA DialogKeeps ==
  ASSUME IInv, NEW u \in Slot, NEW s, GoodStack(s), Kept(s), Show(u, s), stack # <<>>,
         UNCHANGED <<viewer, misled, trespass>>
  PROVE  IInv'
<1>1. GoodStack(stack)' /\ TapInv' /\ ScreenInv' /\ UpdateInv' /\ UNCHANGED <<side, role, entry>>
  BY ShowKeeps DEF IInv
<1>2. viewer' = "none"
  BY DEF IInv, ViewerIsHeard
<1>3. PlainInv'
  BY <1>1 DEF IInv, StateInv, PlainInv
<1>4. ViewerIsHeard' /\ TapsActOnWhatIsShown' /\ OnlyAdminsAct'
  BY <1>2 DEF IInv, ViewerIsHeard, TapsActOnWhatIsShown, OnlyAdminsAct
<1> QED
  BY <1>1, <1>3, <1>4 DEF IInv, StateInv

\* An act for an update whose sender was an admin leaves no trespass.
LEMMA AdminsKeep ==
  ASSUME IInv, NEW u \in Slot, upd[u].kind \notin {"free", "other"},
         upd[u].role = "ADMIN", ForAdmins(u)
  PROVE  trespass' = trespass
  BY DEF IInv, StateInv, UpdateInv, PlainInv, OnlyAdminsAct, ForAdmins

LEMMA OwnerKeeps ==
  ASSUME IInv, NEW u \in Slot, upd[u].kind \notin {"free", "other"}, NEW w, ForOwner(u, w),
         w \in AdminWindows => upd[u].role = "ADMIN"
  PROVE  trespass' = trespass
  BY AdminsKeep DEF ForOwner

\* What the handler of a tap may have read.
LEMMA LoadedFacts ==
  ASSUME StateInv, NEW u \in Slot, NEW c \in Loaded(u)
  PROVE  /\ stack # <<>> /\ Good(c) /\ Follows(c, Top) /\ c.window \in Window
         /\ upd[u].kind = "tap" /\ upd[u].widget \in Widget \union {None}
         /\ ~ c.raced => upd[u].target \in {None, c.target}
         /\ MayUse(u, c.window)
<1>1. /\ upd[u].kind = "tap" /\ upd[u].phase = "arrived" /\ stack # <<>> /\ Top.id = upd[u].id
      /\ c \in {ReadBefore(u), Top} /\ MayUse(u, c.window)
  BY DEF Loaded, Under, IsTop
<1>2. Good(Top) /\ Top = stack[Len(stack)] /\ Len(stack) \in DOMAIN stack
  BY <1>1, TopFacts DEF StateInv
<1>3. TapFits(upd[u], Top)
  BY <1>1, <1>2 DEF StateInv, TapInv
<1>4. upd[u].widget \in Widget \union {None}
  BY DEF StateInv, UpdateInv, Update
<1>5. CASE c = Top
  BY <1>1, <1>2, <1>3, <1>4, <1>5 DEF Follows, TapFits, Good, Context
<1>6. CASE c # Top
  <2> DEFINE d == upd[u].context
  <2>1. c = [d EXCEPT !.raced = TRUE]
    BY <1>1, <1>6 DEF ReadBefore
  <2>2. Good(d) /\ d.id = Top.id /\ (d.window \in Root <=> Top.window \in Root)
    BY <1>1, <1>3 DEF TapFits
  <2> HIDE DEF d
  <2>3. /\ c.raced /\ c.id = d.id /\ c.window = d.window /\ c.target = d.target
        /\ c.content = d.content /\ c \in Context
    BY <2>1, <2>2 DEF Good, Context
  <2> QED
    BY <1>1, <1>4, <2>2, <2>3 DEF Follows, Good, Context
<1> QED
  BY <1>5, <1>6

\* Another window of the same dialog.
LEMMA MoveFacts ==
  ASSUME NEW c, Good(c), NEW d, Follows(c, d), NEW x \in Window,
         x \in WithContent => c.content, x \in WithTarget => c.target # None,
         x \in Lists => x = c.window, x \in Root <=> c.window \in Root
  PROVE  Good([c EXCEPT !.window = x]) /\ Follows([c EXCEPT !.window = x], d)
<1> DEFINE e == [c EXCEPT !.window = x]
<1>1. /\ e \in Context /\ e.window = x /\ e.id = c.id /\ e.target = c.target
      /\ e.content = c.content /\ e.raced = c.raced
  BY DEF Good, Context
<1> HIDE DEF e
<1>2. Good(e) /\ Follows(e, d)
  BY <1>1 DEF Good, Follows
<1> QED
  BY <1>2 DEF e
-----------------------------------------------------------------------------
(***************************************************************************)
(* Updates are sent and arrive.                                            *)
(***************************************************************************)
\* Steps that change nothing but the updates, and the profile in Redis.
LEMMA OnlyUpdates ==
  ASSUME IInv, UNCHANGED <<side, role, stack, viewer, screen, misled, trespass>>,
         entry' \in Role \union {None}, TapInv', UpdateInv'
  PROVE  IInv'
<1>1. PlainInv' /\ GoodStack(stack)'
  BY DEF IInv, StateInv, PlainInv, GoodStack, Good
<1>2. ScreenInv'
  BY DEF IInv, StateInv, ScreenInv, Rendering, Top, Last
<1>3. ViewerIsHeard' /\ TapsActOnWhatIsShown' /\ OnlyAdminsAct'
  BY DEF IInv, ViewerIsHeard, TapsActOnWhatIsShown, OnlyAdminsAct
<1> QED
  BY <1>1, <1>2, <1>3 DEF IInv, StateInv

\* The invariant of an update that did not change.
LEMMA OldTap ==
  ASSUME TapInv, NEW v \in Slot, upd'[v] = upd[v], stack' = stack, upd[v].kind = "tap"
  PROVE  /\ \E i \in DOMAIN stack' : stack'[i].id = upd'[v].id
         /\ \A i \in DOMAIN stack' : stack'[i].id = upd'[v].id => TapFits(upd'[v], stack'[i])
         /\ upd'[v].widget \in {"change_role", "toggle", "demote_admins"} => upd'[v].target # None
  BY DEF TapInv

LEMMA SendKeeps ==
  ASSUME IInv, NEW u \in Slot, NEW x \in Update, Send(u, x),
         x.kind \notin {"free", "other"}, x.role = "USER",
         x.kind = "tap" =>
            /\ stack # <<>> /\ x.phase = "sent" /\ x.id = Top.id /\ x.target = Top.target
            /\ x.widget \in {"change_role", "toggle", "demote_admins"} => x.target # None
  PROVE  IInv'
<1> DEFINE y == [x EXCEPT !.wasAdmin = role = "ADMIN"]
<1>1. /\ upd' = [upd EXCEPT ![u] = y]
      /\ UNCHANGED <<side, role, entry, stack, viewer, screen, misled, trespass>>
  BY DEF Send
<1>2. /\ y \in Update /\ y.kind = x.kind /\ y.phase = x.phase /\ y.id = x.id /\ y.target = x.target
      /\ y.widget = x.widget /\ y.role = x.role
      /\ y.wasAdmin = (role = "ADMIN")
  BY DEF Update
<1> HIDE DEF y
<1>3. upd \in [Slot -> Update]
  BY DEF IInv, StateInv, UpdateInv
<1>4. UpdateInv'
  BY <1>1, <1>2, <1>3 DEF IInv, StateInv, UpdateInv
<1>5. TapInv'
  <2> SUFFICES ASSUME NEW v \in Slot, upd'[v].kind = "tap"
               PROVE  /\ \E i \in DOMAIN stack' : stack'[i].id = upd'[v].id
                      /\ \A i \in DOMAIN stack' : stack'[i].id = upd'[v].id => TapFits(upd'[v], stack'[i])
                      /\ upd'[v].widget \in {"change_role", "toggle", "demote_admins"} => upd'[v].target # None
    BY DEF TapInv, TapFits, Good
  <2>1. CASE v # u
    BY <1>1, <1>3, <2>1, OldTap DEF IInv, StateInv
  <2>2. CASE v = u
    <3>1. upd'[v] = y /\ y.kind = "tap"
      BY <1>1, <1>3, <2>2
    <3>2. /\ stack # <<>> /\ y.phase = "sent" /\ y.id = Top.id /\ y.target = Top.target
          /\ y.widget \in {"change_role", "toggle", "demote_admins"} => y.target # None
      BY <1>2, <3>1
    <3>3. /\ Len(stack) \in DOMAIN stack /\ Top = stack[Len(stack)]
          /\ \A i \in DOMAIN stack : stack[i].id = Top.id => i = Len(stack)
      BY <3>2, TopFacts DEF IInv, StateInv
    <3> QED
      BY <1>1, <3>1, <3>2, <3>3 DEF TapFits
  <2> QED
    BY <2>1, <2>2
<1> QED
  BY <1>1, <1>4, <1>5, OnlyUpdates DEF IInv, StateInv, PlainInv

LEMMA TapKeeps ==
  ASSUME IInv, NEW u \in Slot, Tap(u)
  PROVE  IInv'
<1>1. PICK widget \in Buttons(screen.window) :
          Send(u, [Free EXCEPT !.kind = "tap", !.id = screen.id, !.target = screen.target, !.widget = widget])
  BY DEF Tap
<1>2. /\ stack # <<>> /\ screen.id = Top.id /\ screen.target = Top.target /\ screen.window = Top.window
  BY DEF Tap, IInv, StateInv, ScreenInv, Rendering
<1>3. Good(Top) /\ Top.window \in Window /\ Top.id \in Id /\ Top.target \in Target \union {None}
  BY <1>2, TopFacts DEF IInv, StateInv, Good, Context
<1>4. /\ widget \in Widget
      /\ widget \in {"change_role", "toggle", "demote_admins"} => Top.target # None
  BY <1>2, <1>3, ButtonFacts DEF Good
<1> DEFINE x == [Free EXCEPT !.kind = "tap", !.id = screen.id, !.target = screen.target, !.widget = widget]
<1>5. /\ x \in Update /\ x.kind = "tap" /\ x.phase = "sent" /\ x.role = "USER"
      /\ x.id = Top.id /\ x.target = Top.target /\ x.widget = widget
  BY <1>2, <1>3, <1>4, FreeType DEF Free, Update, Role
<1>6. Send(u, x)
  BY <1>1
<1> HIDE DEF x
<1> QED
  BY <1>2, <1>4, <1>5, <1>6, SendKeeps

LEMMA MessageKeeps ==
  ASSUME IInv, NEW u \in Slot, Write(u) \/ SendStart(u)
  PROVE  IInv'
<1>1. ASSUME NEW k \in {"text", "start"}, Send(u, [Free EXCEPT !.kind = k]) PROVE IInv'
  <2> DEFINE x == [Free EXCEPT !.kind = k]
  <2>1. x \in Update /\ x.kind = k /\ x.role = "USER"
    BY FreeType DEF Free, Update, Role
  <2>2. Send(u, x)
    BY <1>1
  <2> HIDE DEF x
  <2> QED
    BY <2>1, <2>2, SendKeeps
<1> QED
  BY <1>1 DEF Write, SendStart

LEMMA ChangeRoleKeeps ==
  ASSUME IInv, ChangeRole
  PROVE  IInv'
<1>1. /\ role' \in Role
      /\ UNCHANGED <<side, entry, stack, viewer, screen, misled, trespass>>
      /\ upd \in [Slot -> Update]
  BY DEF ChangeRole, IInv, StateInv, UpdateInv
<1>2. \A v \in Slot :
          upd'[v] = IF upd[v] # Free /\ role' = "ADMIN" THEN [upd[v] EXCEPT !.wasAdmin = TRUE] ELSE upd[v]
  BY DEF ChangeRole
<1>3. \A v \in Slot :
          /\ upd'[v] \in Update /\ upd'[v].kind = upd[v].kind /\ upd'[v].phase = upd[v].phase
          /\ upd'[v].role = upd[v].role /\ upd'[v].id = upd[v].id /\ upd'[v].target = upd[v].target
          /\ upd'[v].widget = upd[v].widget /\ upd'[v].context = upd[v].context
          /\ upd'[v].demoted = upd[v].demoted /\ (upd[v].wasAdmin => upd'[v].wasAdmin)
          /\ upd[v].kind # "free" /\ role' = "ADMIN" => upd'[v].wasAdmin
  <2> SUFFICES ASSUME NEW v \in Slot
               PROVE  /\ upd'[v] \in Update /\ upd'[v].kind = upd[v].kind /\ upd'[v].phase = upd[v].phase
                      /\ upd'[v].role = upd[v].role /\ upd'[v].id = upd[v].id
                      /\ upd'[v].target = upd[v].target
                      /\ upd'[v].widget = upd[v].widget /\ upd'[v].context = upd[v].context
                      /\ upd'[v].demoted = upd[v].demoted /\ (upd[v].wasAdmin => upd'[v].wasAdmin)
                      /\ upd[v].kind # "free" /\ role' = "ADMIN" => upd'[v].wasAdmin
    OBVIOUS
  <2>1. CASE upd[v] # Free /\ role' = "ADMIN"
    <3>1. upd'[v] = [upd[v] EXCEPT !.wasAdmin = TRUE]
      BY <1>2, <2>1
    <3> QED
      BY <1>1, <3>1 DEF Update
  <2>2. CASE ~ (upd[v] # Free /\ role' = "ADMIN")
    <3>1. upd'[v] = upd[v]
      BY <1>2, <2>2
    <3> QED
      BY <1>1, <2>2, <3>1, FreeType
  <2> QED
    BY <2>1, <2>2
<1>4. UpdateInv'
  <2>1. upd' \in [Slot -> Update]
    BY <1>3 DEF ChangeRole
  <2> QED
    BY <1>3, <2>1 DEF IInv, StateInv, UpdateInv
<1>5. TapInv'
  BY <1>1, <1>3 DEF IInv, StateInv, TapInv, TapFits, Good
<1>6. PlainInv' /\ GoodStack(stack)' /\ ScreenInv'
  BY <1>1 DEF IInv, StateInv, PlainInv, GoodStack, Good, ScreenInv, Rendering, Top, Last
<1>7. ViewerIsHeard' /\ TapsActOnWhatIsShown' /\ OnlyAdminsAct'
  BY <1>1 DEF IInv, ViewerIsHeard, TapsActOnWhatIsShown, OnlyAdminsAct
<1> QED
  BY <1>4, <1>5, <1>6, <1>7 DEF IInv, StateInv

\* An update is dropped.
LEMMA DropKeeps ==
  ASSUME IInv, NEW u \in Slot, upd' = [upd EXCEPT ![u] = Free],
         UNCHANGED <<side, role, stack, viewer, screen, misled, trespass>>,
         entry' \in Role \union {None}
  PROVE  IInv'
<1>1. upd \in [Slot -> Update]
  BY DEF IInv, StateInv, UpdateInv
<1>2. UpdateInv'
  BY <1>1, FreeType DEF IInv, StateInv, UpdateInv
<1>3. \A v \in Slot : upd'[v] = upd[v] \/ upd'[v].kind = "free"
  BY <1>1, FreeType
<1>4. TapInv'
  BY <1>3 DEF IInv, StateInv, TapInv, TapFits, Good
<1> QED
  BY <1>2, <1>4, OnlyUpdates

\* x is an update that goes on in the place of the one in the slot u.
GoesOn(u, x) ==
    /\ x \in Update
    /\ x.kind = upd[u].kind /\ x.id = upd[u].id /\ x.target = upd[u].target
    /\ x.widget = upd[u].widget /\ x.wasAdmin = upd[u].wasAdmin
    /\ x.role = "ADMIN" => x.kind = "other" \/ x.wasAdmin \/ x.demoted

\* An update is handed the profile, from wherever.
LEMMA ArrivesKeeps ==
  ASSUME IInv, NEW u \in Slot, upd[u].kind # "free", NEW x, GoesOn(u, x), Arrives(u, x),
         entry' \in Role \union {None}
  PROVE  IInv'
<1>0. StateInv /\ upd \in [Slot -> Update] /\ role \in Role
  BY DEF IInv, StateInv, UpdateInv, PlainInv
<1>1. UNCHANGED <<side, role, stack, viewer, screen, misled, trespass>>
  BY DEF Arrives
<1>2. CASE upd' = [upd EXCEPT ![u] = Free]
  BY <1>1, <1>2, DropKeeps
<1>3. CASE ~ (x.role = "BANNED" \/ x.kind = "other")
  <2> DEFINE c == IF x.kind = "tap" THEN Own(u) ELSE Blank
             y == [x EXCEPT !.phase = "arrived", !.context = c]
  <2>1. upd' = [upd EXCEPT ![u] = y]
    BY <1>3 DEF Arrives
  <2>2. upd[u].kind = "tap" => \E k \in DOMAIN stack :
           /\ c = stack[k] /\ stack[k].id = upd[u].id /\ Good(c)
           /\ \A i \in DOMAIN stack : stack[i].id = upd[u].id => i = k
    <3> SUFFICES ASSUME upd[u].kind = "tap"
                 PROVE  \E k \in DOMAIN stack :
                           /\ c = stack[k] /\ stack[k].id = upd[u].id /\ Good(c)
                           /\ \A i \in DOMAIN stack : stack[i].id = upd[u].id => i = k
      OBVIOUS
    <3> DEFINE k == CHOOSE i \in DOMAIN stack : stack[i].id = upd[u].id
    <3>1. k \in DOMAIN stack /\ stack[k].id = upd[u].id
      BY <1>0 DEF StateInv, TapInv
    <3>2. c = stack[k]
      BY DEF Own, GoesOn
    <3> HIDE DEF k, c
    <3> QED
      BY <1>0, <3>1, <3>2 DEF StateInv, GoodStack
  <2>3. c \in Context \union {Blank}
    BY <2>2 DEF Good, GoesOn
  <2> HIDE DEF c
  <2>4. /\ y \in Update /\ y.kind = upd[u].kind /\ y.phase = "arrived" /\ y.role = x.role /\ y.context = c
        /\ y.id = upd[u].id /\ y.target = upd[u].target /\ y.widget = upd[u].widget
        /\ y.wasAdmin = upd[u].wasAdmin /\ y.demoted = x.demoted
    BY <1>0, <2>3 DEF Update, GoesOn
  <2> HIDE DEF y
  <2>5. UpdateInv'
    BY <1>0, <1>1, <1>3, <2>1, <2>4 DEF StateInv, UpdateInv, GoesOn
  <2>6. TapInv'
    <3> SUFFICES ASSUME NEW v \in Slot, upd'[v].kind = "tap"
                 PROVE  /\ \E i \in DOMAIN stack' : stack'[i].id = upd'[v].id
                        /\ \A i \in DOMAIN stack' : stack'[i].id = upd'[v].id => TapFits(upd'[v], stack'[i])
                        /\ upd'[v].widget \in {"change_role", "toggle", "demote_admins"} => upd'[v].target # None
      BY DEF TapInv, TapFits, Good
    <3>1. CASE v # u
      BY <1>0, <1>1, <2>1, <3>1, OldTap DEF StateInv
    <3>2. CASE v = u
      <4>1. upd'[v] = y /\ upd[u].kind = "tap"
        BY <1>0, <2>1, <2>4, <3>2
      <4>2. PICK k \in DOMAIN stack :
               /\ c = stack[k] /\ stack[k].id = upd[u].id /\ Good(c)
               /\ \A i \in DOMAIN stack : stack[i].id = upd[u].id => i = k
        BY <2>2, <4>1
      <4>3. /\ TapFits(upd[u], stack[k])
            /\ upd[u].widget \in {"change_role", "toggle", "demote_admins"} => upd[u].target # None
        BY <1>0, <4>1, <4>2 DEF StateInv, TapInv
      <4>4. TapFits(y, stack[k])
        BY <2>4, <4>2, <4>3 DEF TapFits
      <4> QED
        BY <1>1, <2>4, <4>1, <4>2, <4>3, <4>4
    <3> QED
      BY <3>1, <3>2
  <2> QED
    BY <1>1, <2>5, <2>6, OnlyUpdates
<1>4. CASE x.role = "BANNED" \/ x.kind = "other"
  BY <1>2, <1>4 DEF Arrives
<1> QED
  BY <1>3, <1>4

LEMMA HitKeeps ==
  ASSUME IInv, NEW u \in Slot, Hit(u)
  PROVE  IInv'
<1>0. /\ upd[u] \in Update /\ upd[u].kind # "free" /\ entry \in Role /\ entry' = entry
      /\ upd[u].kind # "other" /\ role = "ADMIN" => upd[u].wasAdmin
  BY DEF IInv, StateInv, UpdateInv, PlainInv, Hit, Under
<1> DEFINE gone == entry = "ADMIN" /\ role # "ADMIN"
           x == [upd[u] EXCEPT !.role = entry, !.demoted = gone]
<1>1. Arrives(u, x)
  BY DEF Hit
<1>3. GoesOn(u, x)
  BY <1>0 DEF GoesOn, Update
<1> QED
  BY <1>0, <1>1, <1>3, ArrivesKeeps

LEMMA FillKeeps ==
  ASSUME IInv, NEW u \in Slot, Fill(u)
  PROVE  IInv'
<1>0. /\ upd[u] \in Update /\ upd[u].kind # "free" /\ entry' \in Role \union {None}
      /\ upd[u].role = "ADMIN" => upd[u].kind = "other" \/ upd[u].wasAdmin \/ upd[u].demoted
  BY DEF IInv, StateInv, UpdateInv, PlainInv, Fill, Under, Update
<1>1. GoesOn(u, upd[u])
  BY <1>0 DEF GoesOn
<1> QED
  BY <1>0, <1>1, ArrivesKeeps DEF Fill

\* The row is read: its role is the one that counts.
LEMMA LoadKeeps ==
  ASSUME IInv, NEW u \in Slot, Miss(u) \/ Visit(u)
  PROVE  IInv'
<1>0. StateInv /\ upd \in [Slot -> Update] /\ role \in Role
  BY DEF IInv, StateInv, UpdateInv, PlainInv
<1>1. PICK x \in Update :
         /\ Load(u, x)
         /\ x.kind = "other" \/ (x.kind # "free" /\ x = upd[u])
  <2>1. CASE Miss(u)
    BY <1>0, <2>1 DEF Miss, Under
  <2>2. CASE Visit(u)
    <3> DEFINE x == [Free EXCEPT !.kind = "other"]
    <3>1. x \in Update /\ x.kind = "other"
      BY FreeType DEF Update
    <3>2. Load(u, x)
      BY <2>2 DEF Visit
    <3> QED
      BY <3>1, <3>2
  <2> QED
    BY <2>1, <2>2
<1> DEFINE y == [x EXCEPT !.phase = "loaded", !.role = role]
<1>2. upd' = [upd EXCEPT ![u] = y] /\ UNCHANGED <<side, role, entry, stack, viewer, screen, misled, trespass>>
  BY <1>1 DEF Load
<1>3. /\ y \in Update /\ y.kind = x.kind /\ y.phase = "loaded" /\ y.role = role /\ y.id = x.id
      /\ y.target = x.target /\ y.widget = x.widget /\ y.wasAdmin = x.wasAdmin
  BY <1>0 DEF Update
<1> HIDE DEF y
<1>4. UpdateInv'
  BY <1>0, <1>1, <1>2, <1>3 DEF StateInv, UpdateInv
<1>5. TapInv'
  <2> SUFFICES ASSUME NEW v \in Slot, upd'[v].kind = "tap"
               PROVE  /\ \E i \in DOMAIN stack' : stack'[i].id = upd'[v].id
                      /\ \A i \in DOMAIN stack' : stack'[i].id = upd'[v].id => TapFits(upd'[v], stack'[i])
                      /\ upd'[v].widget \in {"change_role", "toggle", "demote_admins"} => upd'[v].target # None
    BY DEF TapInv, TapFits, Good
  <2>1. CASE v # u
    BY <1>0, <1>2, <2>1, OldTap DEF StateInv
  <2>2. CASE v = u
    <3>1. upd'[v] = y /\ x = upd[u] /\ x.kind = "tap"
      BY <1>0, <1>1, <1>2, <1>3, <2>2
    <3> QED
      BY <1>0, <1>2, <1>3, <2>2, <3>1 DEF StateInv, TapInv, TapFits
  <2> QED
    BY <2>1, <2>2
<1> QED
  BY <1>2, <1>4, <1>5, OnlyUpdates DEF IInv, StateInv, PlainInv

\* The profile goes from Redis.
LEMMA ExpiryKeeps ==
  ASSUME IInv, Drop
  PROVE  IInv'
<1>1. PlainInv' /\ GoodStack(stack)' /\ UpdateInv'
  BY DEF Drop, IInv, StateInv, PlainInv, GoodStack, Good, UpdateInv
<1>2. TapInv' /\ ScreenInv'
  BY DEF Drop, IInv, StateInv, TapInv, TapFits, Good, ScreenInv, Rendering, Top, Last
<1>3. ViewerIsHeard' /\ TapsActOnWhatIsShown' /\ OnlyAdminsAct'
  BY DEF Drop, IInv, ViewerIsHeard, TapsActOnWhatIsShown, OnlyAdminsAct
<1> QED
  BY <1>1, <1>2, <1>3 DEF IInv, StateInv

-----------------------------------------------------------------------------
(***************************************************************************)
(* The handlers of taps.                                                   *)
(***************************************************************************)
LEMMA TappedFacts ==
  ASSUME NEW u \in Slot, NEW widgets, NEW c \in Tapped(u, widgets)
  PROVE  c \in Loaded(u) /\ upd[u].widget \in widgets /\ upd[u].widget \in Buttons(c.window)
  BY DEF Tapped

\* A handler that leaves its dialog on the stack, in another window or not.
LEMMA PutKeeps ==
  ASSUME IInv, NEW u \in Slot, stack # <<>>, NEW c, Good(c), Follows(c, Top), Show(u, Put(c)),
         UNCHANGED <<viewer, misled, trespass>>
  PROVE  IInv'
<1>1. GoodStack(stack)
  BY DEF IInv, StateInv
<1>2. GoodStack(Put(c)) /\ Kept(Put(c))
  BY <1>1, PutFacts, PutKept
<1> QED
  BY <1>2, DialogKeeps

LEMMA StartDialogKeeps ==
  ASSUME IInv, NEW u \in Slot, stack # <<>>, NEW c, Good(c), Follows(c, Top),
         NEW w, Initial(w), w \in Root \/ c.window \in Root,
         Show(u, StartDialog(Put(c), w)), UNCHANGED <<viewer, misled, trespass>>
  PROVE  IInv'
<1>1. GoodStack(stack)
  BY DEF IInv, StateInv
<1>2. /\ GoodStack(Put(c)) /\ Kept(Put(c)) /\ Ids(Put(c)) \subseteq Ids(stack)
      /\ Put(c) # <<>> /\ Last(Put(c)) = c
  BY <1>1, PutFacts, PutKept
<1>3. GoodStack(StartDialog(Put(c), w)) /\ Kept(StartDialog(Put(c), w))
  BY <1>1, <1>2, StartDialogFacts
<1> QED
  BY <1>3, DialogKeeps

LEMMA SwitchToKeeps ==
  ASSUME IInv, NEW u \in Slot, SwitchTo(u)
  PROVE  IInv'
<1> DEFINE x == upd[u].widget
<1>1. PICK c \in Tapped(u, Window) : x \in Switches(c.window) /\ Show(u, Put([c EXCEPT !.window = x]))
  BY DEF SwitchTo
<1>2. /\ stack # <<>> /\ Good(c) /\ Follows(c, Top) /\ c.window \in Window
  BY TappedFacts, LoadedFacts DEF IInv
<1> HIDE DEF x
<1>3. /\ x \in Window /\ x \notin WithContent
      /\ x \in WithTarget => c.target # None
      /\ x \in Lists => x = c.window
      /\ x \in Root <=> c.window \in Root
  BY <1>1, <1>2, SwitchFacts DEF Good
<1>4. Good([c EXCEPT !.window = x]) /\ Follows([c EXCEPT !.window = x], Top)
  BY <1>2, <1>3, MoveFacts
<1> QED
  BY <1>1, <1>2, <1>4, PutKeeps DEF SwitchTo, x

LEMMA StartKeeps ==
  ASSUME IInv, NEW u \in Slot, Start(u)
  PROVE  IInv'
<1> DEFINE x == upd[u].widget
<1>1. PICK c \in Tapped(u, Window) :
          x \in Starts(c.window) /\ MayStart(u, x) /\ Show(u, StartDialog(Put(c), x))
  BY DEF Start
<1>2. /\ stack # <<>> /\ Good(c) /\ Follows(c, Top) /\ c.window \in Window
      /\ upd[u].kind = "tap" /\ MayUse(u, c.window)
  BY TappedFacts, LoadedFacts DEF IInv
<1>3. /\ Initial(x) /\ (x \in Root \/ c.window \in Root)
      /\ x \in AdminWindows => x = "admin" \/ c.window \in AdminWindows
  BY <1>1, <1>2, StartFacts
<1>4. x \in AdminWindows => upd[u].role = "ADMIN"
  BY <1>1, <1>2, <1>3 DEF MayStart, MayUse
<1>5. ForOwner(u, x) /\ UNCHANGED <<viewer, misled>>
  BY DEF Start
<1> HIDE DEF x
<1>6. trespass' = trespass
  BY <1>2, <1>4, <1>5, OwnerKeeps
<1> QED
  BY <1>1, <1>2, <1>3, <1>5, <1>6, StartDialogKeeps

LEMMA SelectKeeps ==
  ASSUME IInv, NEW u \in Slot, Select(u)
  PROVE  IInv'
<1> DEFINE x(c) == IF c.window = "user_select" THEN "user_moderation" ELSE "moderation"
           e(c) == [c EXCEPT !.window = x(c), !.target = upd[u].widget]
<1>1. PICK c \in Tapped(u, Target) : Show(u, Put(e(c)))
  BY DEF Select
<1>2. /\ stack # <<>> /\ Good(c) /\ Follows(c, Top) /\ c.window \in Window
      /\ upd[u].widget \in Target /\ upd[u].widget \in Buttons(c.window)
  BY TappedFacts, LoadedFacts DEF IInv
<1>3. c.window \in Lists /\ upd[u].widget # None
  BY <1>2, ButtonFacts, TargetAssumption DEF Widget
<1>4. /\ e(c) \in Context /\ e(c).window \in {"user_moderation", "moderation"} /\ e(c).id = c.id
      /\ e(c).target = upd[u].widget /\ e(c).raced = c.raced
  BY <1>2 DEF Good, Context, Window, AdminWindows, RegistrarWindows
<1> HIDE DEF e
<1>5. Good(e(c))
  BY <1>3, <1>4 DEF Good, WithContent, Lists
<1>6. Follows(e(c), Top)
  BY <1>2, <1>3, <1>4 DEF Follows, Good, Root, Lists
<1> QED
  BY <1>1, <1>2, <1>5, <1>6, PutKeeps DEF Select

LEMMA ActKeeps ==
  ASSUME IInv, NEW u \in Slot, Act(u)
  PROVE  IInv'
<1> DEFINE x(c) == IF c.window = "confirm_demote" THEN "moderation" ELSE c.window
<1>1. PICK c \in Tapped(u, {"change_role", "toggle", "demote_admins"}) :
          Acts(u, c) /\ ForOwner(u, c.window) /\ Show(u, Put([c EXCEPT !.window = x(c)]))
  BY DEF Act
<1>2. /\ stack # <<>> /\ Good(c) /\ Follows(c, Top) /\ c.window \in Window
      /\ upd[u].kind = "tap" /\ MayUse(u, c.window)
      /\ ~ c.raced => upd[u].target \in {None, c.target}
      /\ upd[u].widget \in {"change_role", "toggle", "demote_admins"}
      /\ upd[u].widget \in Buttons(c.window)
  BY <1>1, TappedFacts, LoadedFacts DEF IInv
<1>3. c.window \in WithTarget /\ c.target # None
  BY <1>2, ButtonFacts DEF Good
<1>4. upd[u].target # None
  BY <1>2 DEF IInv, StateInv, TapInv
<1>5. misled' = misled
  BY <1>1, <1>2, <1>4 DEF Acts, IInv, StateInv, PlainInv
<1>6. trespass' = trespass
  BY <1>1, <1>2, OwnerKeeps DEF MayUse
<1>7. /\ x(c) \in Window /\ x(c) \in WithTarget
      /\ x(c) \in WithContent => c.content
      /\ x(c) \in Lists => x(c) = c.window
      /\ x(c) \in Root <=> c.window \in Root
  BY <1>2, <1>3 DEF Good, WithTarget, WithContent, Lists, Root, Window, RegistrarWindows
<1> HIDE DEF x
<1>8. Good([c EXCEPT !.window = x(c)]) /\ Follows([c EXCEPT !.window = x(c)], Top)
  BY <1>2, <1>3, <1>7, MoveFacts
<1> QED
  BY <1>1, <1>2, <1>5, <1>6, <1>8, PutKeeps DEF Act

LEMMA ConfirmKeeps ==
  ASSUME IInv, NEW u \in Slot, Confirm(u)
  PROVE  IInv'
<1>1. PICK c \in Tapped(u, {"confirm"}) : ForAdmins(u) /\ Show(u, StartDialog(Put(c), "admin"))
  BY DEF Confirm
<1>2. /\ stack # <<>> /\ Good(c) /\ Follows(c, Top) /\ c.window \in Window
      /\ upd[u].kind = "tap" /\ MayUse(u, c.window)
      /\ "confirm" \in Buttons(c.window)
  BY TappedFacts, LoadedFacts DEF IInv
<1>3. upd[u].role = "ADMIN"
  BY <1>2, ButtonFacts DEF MayUse
<1>4. trespass' = trespass
  BY <1>1, <1>2, <1>3, AdminsKeep
<1>5. Initial("admin") /\ "admin" \in Root
  BY DEF Initial, Root, Window, AdminWindows, WithTarget, WithContent
<1> QED
  BY <1>1, <1>2, <1>4, <1>5, StartDialogKeeps DEF Confirm

LEMMA AnswerKeeps ==
  ASSUME IInv, NEW u \in Slot, Answer(u)
  PROVE  IInv'
<1>1. PICK c \in Loaded(u) : Show(u, Put(c))
  BY DEF Answer
<1>2. stack # <<>> /\ Good(c) /\ Follows(c, Top)
  BY LoadedFacts DEF IInv
<1> QED
  BY <1>1, <1>2, PutKeeps DEF Answer

\* A handler that empties the stack, or finds it empty.
LEMMA EmptyKeeps ==
  ASSUME IInv, NEW u \in Slot, Show(u, <<>>), viewer' \in {"none", "in_viewer", "message_user"},
         UNCHANGED <<misled, trespass>>
  PROVE  IInv'
<1>1. GoodStack(stack)' /\ TapInv' /\ ScreenInv' /\ UpdateInv' /\ UNCHANGED <<side, role, entry>>
  BY EmptyFacts, ShowKeeps DEF IInv
<1>2. stack' = <<>>
  BY DEF Show
<1>3. PlainInv'
  BY <1>1 DEF IInv, StateInv, PlainInv
<1>4. ViewerIsHeard' /\ TapsActOnWhatIsShown' /\ OnlyAdminsAct'
  BY <1>2 DEF IInv, ViewerIsHeard, TapsActOnWhatIsShown, OnlyAdminsAct
<1> QED
  BY <1>1, <1>3, <1>4 DEF IInv, StateInv

LEMMA EnterViewerKeeps ==
  ASSUME IInv, NEW u \in Slot, EnterViewer(u)
  PROVE  IInv'
  BY EmptyKeeps DEF EnterViewer

LEMMA HandleTapKeeps ==
  ASSUME IInv, NEW u \in Slot, HandleTap(u)
  PROVE  IInv'
<1>1. CASE Refuse(u)
  BY <1>1, DropKeeps DEF IInv, StateInv, PlainInv, Refuse
<1> QED
  BY <1>1, SwitchToKeeps, StartKeeps, SelectKeeps, ActKeeps, ConfirmKeeps, EnterViewerKeeps, AnswerKeeps
     DEF HandleTap
-----------------------------------------------------------------------------
(***************************************************************************)
(* The handlers of messages.                                               *)
(***************************************************************************)
LEMMA WrittenFacts ==
  ASSUME IInv, NEW u \in Slot, NEW w, Written(u, w)
  PROVE  /\ stack # <<>> /\ Good(Top) /\ Follows(Top, Top) /\ Top.window = w /\ w \in Window
         /\ upd[u].kind = "text"
         /\ w \in AdminWindows => upd[u].role = "ADMIN"
<1>1. stack # <<>> /\ Top.window = w /\ upd[u].kind = "text" /\ (w \in AdminWindows => upd[u].role = "ADMIN")
  BY DEF Written, MayUse
<1>2. Good(Top)
  BY <1>1, TopFacts DEF IInv, StateInv
<1> QED
  BY <1>1, <1>2 DEF Follows, Good, Context

LEMMA StartAgainKeeps ==
  ASSUME IInv, NEW u \in Slot, NEW w \in {"main", "menu"}, Show(u, StartDialog(<<>>, w)),
         viewer' = "none", UNCHANGED <<misled, trespass>>
  PROVE  IInv'
<1>1. Initial(w) /\ w \in Root
  BY DEF Initial, Root, Window, UserWindows, RegistrarWindows, WithTarget, WithContent
<1>2. GoodStack(StartDialog(<<>>, w)) /\ Kept(StartDialog(<<>>, w))
  BY <1>1, EmptyFacts, StartDialogFacts DEF IInv, StateInv
<1>3. GoodStack(stack)' /\ TapInv' /\ ScreenInv' /\ UpdateInv' /\ UNCHANGED <<side, role, entry>>
  BY <1>2, ShowKeeps DEF IInv
<1>4. PlainInv'
  BY <1>3 DEF IInv, StateInv, PlainInv
<1>5. ViewerIsHeard' /\ TapsActOnWhatIsShown' /\ OnlyAdminsAct'
  BY DEF IInv, ViewerIsHeard, TapsActOnWhatIsShown, OnlyAdminsAct
<1> QED
  BY <1>3, <1>4, <1>5 DEF IInv, StateInv

LEMMA StartMenuKeeps ==
  ASSUME IInv, NEW u \in Slot, StartMenu(u)
  PROVE  IInv'
<1>1. side \in {"main", "menu"}
  BY DEF IInv, StateInv, PlainInv
<1> QED
  BY <1>1, StartAgainKeeps DEF StartMenu

LEMMA SelectUserKeeps ==
  ASSUME IInv, NEW u \in Slot, SelectUser(u)
  PROVE  IInv'
<1>1. PICK t \in Target : Show(u, Put([Top EXCEPT !.target = t, !.window = "user_moderation"]))
  BY DEF SelectUser
<1>2. /\ stack # <<>> /\ Good(Top) /\ Follows(Top, Top) /\ Top.window = "user_select"
      /\ upd[u].kind = "text" /\ upd[u].role = "ADMIN"
  BY WrittenFacts DEF SelectUser, AdminWindows
<1>3. trespass' = trespass
  BY <1>2, AdminsKeep DEF SelectUser
<1> DEFINE e == [Top EXCEPT !.target = t, !.window = "user_moderation"]
<1>4. /\ e \in Context /\ e.window = "user_moderation" /\ e.id = Top.id
      /\ e.target = t /\ e.raced = Top.raced /\ t # None
  BY <1>2, TargetAssumption DEF Good, Context, Window, AdminWindows, Widget
<1>5. Show(u, Put(e))
  BY <1>1
<1> HIDE DEF e
<1>6. Good(e)
  BY <1>4 DEF Good, WithContent, Lists
<1>7. Follows(e, Top)
  BY <1>2, <1>4 DEF Follows, Good, Root, Lists
<1> QED
  BY <1>2, <1>3, <1>5, <1>6, <1>7, PutKeeps DEF SelectUser

LEMMA MessageToUserKeeps ==
  ASSUME IInv, NEW u \in Slot, MessageToUser(u)
  PROVE  IInv'
<1>1. Show(u, Put([Top EXCEPT !.window = "user_moderation"]))
  BY DEF MessageToUser
<1>2. /\ stack # <<>> /\ Good(Top) /\ Follows(Top, Top) /\ Top.window = "user_message"
      /\ upd[u].kind = "text" /\ upd[u].role = "ADMIN"
  BY WrittenFacts DEF MessageToUser, AdminWindows
<1>3. trespass' = trespass
  BY <1>2, AdminsKeep DEF MessageToUser
<1>4. /\ Top.target # None /\ "user_moderation" \in Window /\ "user_moderation" \notin WithContent \union Lists
      /\ "user_moderation" \notin Root /\ Top.window \notin Root
  BY <1>2 DEF Good, WithTarget, WithContent, Lists, Root, Window, AdminWindows
<1>5. Good([Top EXCEPT !.window = "user_moderation"]) /\ Follows([Top EXCEPT !.window = "user_moderation"], Top)
  BY <1>2, <1>4, MoveFacts
<1> QED
  BY <1>1, <1>2, <1>3, <1>5, PutKeeps DEF MessageToUser

LEMMA PrepareKeeps ==
  ASSUME IInv, NEW u \in Slot, Prepare(u)
  PROVE  IInv'
<1> DEFINE x(w) == CASE w = "prepare_banner" -> "confirm_banner"
                     [] w = "wait_broadcast" -> "broadcast_confirm"
                     [] w = "wait_token" -> "wait_channel_id"
           e(w) == [Top EXCEPT !.content = TRUE, !.window = x(w)]
<1>1. PICK w \in {"prepare_banner", "wait_broadcast", "wait_token"} :
          Written(u, w) /\ Show(u, Put(e(w))) /\ ForOwner(u, w)
  BY DEF Prepare
<1>2. /\ stack # <<>> /\ Good(Top) /\ Top.window = w
      /\ upd[u].kind = "text" /\ (w \in AdminWindows => upd[u].role = "ADMIN")
  BY <1>1, WrittenFacts
<1>3. trespass' = trespass
  BY <1>1, <1>2, OwnerKeeps
<1>4. /\ x(w) \in Window /\ x(w) \notin WithTarget /\ x(w) \notin Lists
      /\ x(w) \in Root <=> w \in Root
  BY DEF WithTarget, Lists, Root, Window, AdminWindows, RegistrarWindows
<1> HIDE DEF x
<1>5. /\ e(w) \in Context /\ e(w).window = x(w) /\ e(w).id = Top.id
      /\ e(w).target = Top.target /\ e(w).raced = Top.raced /\ e(w).content
  BY <1>2, <1>4 DEF Good, Context
<1> HIDE DEF e
<1>6. Good(e(w)) /\ Follows(e(w), Top)
  BY <1>2, <1>4, <1>5 DEF Good, Follows
<1> QED
  BY <1>1, <1>2, <1>3, <1>6, PutKeeps DEF Prepare

LEMMA RegisterKeeps ==
  ASSUME IInv, NEW u \in Slot, Register(u)
  PROVE  IInv'
<1>1. stack # <<>> /\ Show(u, StartDialog(stack, "menu"))
  BY WrittenFacts DEF Register
<1>2. GoodStack(stack) /\ Kept(stack)
  BY DEF IInv, StateInv, Kept, Follows
<1>3. Initial("menu") /\ "menu" \in Root
  BY DEF Initial, Root, Window, RegistrarWindows, WithTarget, WithContent
<1>4. GoodStack(StartDialog(stack, "menu")) /\ Kept(StartDialog(stack, "menu"))
  BY <1>2, <1>3, StartDialogFacts
<1> QED
  BY <1>1, <1>4, DialogKeeps DEF Register

LEMMA UpdateUserbotKeeps ==
  ASSUME IInv, NEW u \in Slot, UpdateUserbot(u)
  PROVE  IInv'
<1>1. PICK w \in {"update_token", "update_channel"} : Written(u, w)
  BY DEF UpdateUserbot
<1>2. stack # <<>> /\ Good(Top) /\ Follows(Top, Top) /\ Top.window = w
  BY <1>1, WrittenFacts
<1>3. /\ Top.target # None /\ "moderation" \in Window /\ "moderation" \notin WithContent \union Lists
      /\ "moderation" \notin Root /\ Top.window \notin Root
  BY <1>2 DEF Good, WithTarget, WithContent, Lists, Root, Window, RegistrarWindows
<1>4. Good([Top EXCEPT !.window = "moderation"]) /\ Follows([Top EXCEPT !.window = "moderation"], Top)
  BY <1>2, <1>3, MoveFacts
<1> QED
  BY <1>2, <1>4, PutKeeps DEF UpdateUserbot

LEMMA StayKeeps ==
  ASSUME IInv, NEW u \in Slot, Stay(u)
  PROVE  IInv'
<1>1. stack # <<>> /\ Show(u, stack)
  BY WrittenFacts DEF Stay
<1>2. GoodStack(stack) /\ Kept(stack)
  BY DEF IInv, StateInv, Kept, Follows
<1> QED
  BY <1>1, <1>2, DialogKeeps DEF Stay

LEMMA ViewerKeeps ==
  ASSUME IInv, NEW u \in Slot, ViewerStays(u) \/ ReturnToMenu(u)
  PROVE  IInv'
<1>1. ViewerText(u) /\ misled' = misled
  BY DEF ViewerStays, ReturnToMenu, ViewerText
<1>2. trespass' = trespass
  BY <1>1, AdminsKeep DEF ViewerText, Under
<1>3. CASE ViewerStays(u)
  <2>1. viewer' \in {"none", "in_viewer", "message_user"} /\ Show(u, <<>>)
    BY <1>3 DEF ViewerStays
  <2> QED
    BY <1>1, <1>2, <2>1, EmptyKeeps
<1>4. CASE ReturnToMenu(u)
  BY <1>1, <1>2, <1>4, StartAgainKeeps DEF ReturnToMenu
<1> QED
  BY <1>3, <1>4

LEMMA HandleMessageKeeps ==
  ASSUME IInv, NEW u \in Slot, HandleMessage(u)
  PROVE  IInv'
<1>1. CASE RefuseText(u)
  BY <1>1, DropKeeps DEF IInv, StateInv, PlainInv, RefuseText
<1> QED
  BY <1>1, StartMenuKeeps, SelectUserKeeps, MessageToUserKeeps, PrepareKeeps, RegisterKeeps,
     UpdateUserbotKeeps, StayKeeps, ViewerKeeps DEF HandleMessage
-----------------------------------------------------------------------------
LEMMA InitInv == Init => IInv
<1> SUFFICES ASSUME Init PROVE IInv
  OBVIOUS
<1>1. PlainInv
  BY DEF Init, PlainInv, Role
<1>2. GoodStack(stack) /\ ScreenInv
  BY EmptyFacts DEF Init, ScreenInv
<1>3. TapInv /\ UpdateInv
  BY FreeType DEF Init, TapInv, UpdateInv
<1>4. ViewerIsHeard /\ TapsActOnWhatIsShown /\ OnlyAdminsAct
  BY DEF Init, ViewerIsHeard, TapsActOnWhatIsShown, OnlyAdminsAct
<1> QED
  BY <1>1, <1>2, <1>3, <1>4 DEF IInv, StateInv

LEMMA StutterKeeps ==
  ASSUME IInv, UNCHANGED vars
  PROVE  IInv'
<1>1. TapInv' /\ UpdateInv'
  BY DEF vars, IInv, StateInv, TapInv, TapFits, Good, UpdateInv
<1> QED
  BY <1>1, OnlyUpdates DEF vars, IInv, StateInv, PlainInv

LEMMA NextInv == IInv /\ [Next]_vars => IInv'
<1> SUFFICES ASSUME IInv, [Next]_vars PROVE IInv'
  OBVIOUS
<1>1. CASE ChangeRole \/ Drop
  BY <1>1, ChangeRoleKeeps, ExpiryKeeps
<1>2. CASE \E u \in Slot : \/ Tap(u) \/ Write(u) \/ SendStart(u)
                          \/ Hit(u) \/ Miss(u) \/ Visit(u) \/ Fill(u)
  BY <1>2, TapKeeps, MessageKeeps, HitKeeps, LoadKeeps, FillKeeps
<1>3. CASE \E u \in Slot : HandleTap(u) \/ HandleMessage(u)
  BY <1>3, HandleTapKeeps, HandleMessageKeeps
<1>4. CASE UNCHANGED vars
  BY <1>4, StutterKeeps
<1> QED
  BY <1>1, <1>2, <1>3, <1>4 DEF Next

\* The invariant holds in every state that is reached.
THEOREM Invariance == Spec => []IInv
<1>1. Init => IInv
  BY InitInv
<1>2. IInv /\ [Next]_vars => IInv'
  BY NextInv
<1> QED
  BY <1>1, <1>2, PTL DEF Spec
-----------------------------------------------------------------------------
LEMMA TypeInvType == StateInv => TypeOK
<1> SUFFICES ASSUME StateInv PROVE TypeOK
  OBVIOUS
<1>1. screen = Blank \/ screen \in
          [id : Id, window : Window, target : Target \union {None}, admin : BOOLEAN]
  <2>1. CASE screen = Blank
    BY <2>1
  <2>2. CASE screen # Blank
    <3>1. stack # <<>> /\ (screen = Rendering(Top, TRUE) \/ screen = Rendering(Top, FALSE))
      BY <2>2 DEF StateInv, ScreenInv
    <3>2. Top \in Context
      BY <3>1, TopFacts DEF StateInv, Good
    <3>3. Top.id \in Id /\ Top.window \in Window /\ Top.target \in Target \union {None}
      BY <3>2 DEF Context
    <3>4. PICK admin \in BOOLEAN : screen = [id |-> Top.id, window |-> Top.window, target |-> Top.target, admin |-> admin]
      <4>1. (TRUE /\ Top.window = "main") \in BOOLEAN /\ (FALSE /\ Top.window = "main") \in BOOLEAN
        OBVIOUS
      <4> QED
        BY <3>1, <4>1 DEF Rendering
    <3> QED
      BY <3>3, <3>4
  <2> QED
    BY <2>1, <2>2
<1> QED
  BY <1>1 DEF StateInv, PlainInv, GoodStack, UpdateInv, TypeOK

\* Every variable keeps its type; the stack is never deeper than a menu and a dialog.
THEOREM Typed == Spec => []TypeOK
<1>1. IInv => TypeOK
  BY TypeInvType DEF IInv
<1> QED
  BY <1>1, Invariance, PTL

\* A handler finds in the data of its dialog what it looks up there.
THEOREM DataFound == Spec => []DataIsThere
<1>1. IInv => DataIsThere
  BY DEF IInv, StateInv, GoodStack, Good, DataIsThere
<1> QED
  BY <1>1, Invariance, PTL

\* While the viewer waits no dialog is on the stack (enter_suggestion_viewer).
THEOREM ViewerHeard == Spec => []ViewerIsHeard
<1>1. IInv => ViewerIsHeard
  BY DEF IInv
<1> QED
  BY <1>1, Invariance, PTL

\* A tap acts on the user or userbot its window showed, but for taps that have raced.
THEOREM TapsAreTrue == Spec => []TapsActOnWhatIsShown
<1>1. IInv => TapsActOnWhatIsShown
  BY DEF IInv
<1> QED
  BY <1>1, Invariance, PTL

\* What admins do is done for an update whose sender was an admin, or whose profile came
\* from Redis and was still that of one (UserMiddleware, AdminMiddleware, ProtectedStart).
THEOREM AdminsAct == Spec => []OnlyAdminsAct
<1>1. IInv => OnlyAdminsAct
  BY DEF IInv
<1> QED
  BY <1>1, Invariance, PTL
=============================================================================
