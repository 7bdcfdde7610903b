---------------------- MODULE SuggestionPipeline_proofs ----------------------
(***************************************************************************)
(* The handlers and the channel, for every number of handlers, users,      *)
(* suggestions and redeliveries and every page size.                       *)
(*                                                                         *)
(* First the handlers alone (Moderation), with an inductive invariant in   *)
(* four parts: the types, what the row locks of a transaction stand for,   *)
(* what has been shown to whom, and which rows an open ban has still to    *)
(* decline.  Then the pipeline: a step of it is a step of Moderation or    *)
(* changes nothing of it, so that invariant holds there too, and the       *)
(* worker is counted against what was dispatched.                          *)
(***************************************************************************)
EXTENDS SuggestionPipeline, TLAPS


(***************************************************************************)
(* A transaction holds rows only between its UPDATE and its end, no two    *)
(* hold the same row, and a row held has no verdict yet.                   *)
(***************************************************************************)
LockInv ==
    /\ \A h \in Handler :
          /\ job[h].at = "created" => held[h] = {job[h].on} /\ status[job[h].on] = "inserting"
          /\ job[h].at = "judged" => held[h] = {job[h].on} /\ status[job[h].on] = "pending"
          /\ job[h].at = "rows" => \A x \in held[h] : status[x] = "pending"
          /\ job[h].at \notin {"created", "judged", "rows"} => held[h] = {}
    /\ \A g, h \in Handler : g # h => held[g] \intersect held[h] = {}

(***************************************************************************)
(* A publication is due for one handler, which has accepted it, or it has  *)
(* been enqueued, or neither.                                              *)
(***************************************************************************)
DispatchInv ==
    /\ \A x \in Suggestion : dispatched[x] # 0 => status[x] = "accepted"
    /\ \A h \in Handler : job[h].at = "dispatch" =>
          status[job[h].on] = "accepted" /\ dispatched[job[h].on] = 0
    /\ \A g, h \in Handler : 
          g # h /\ job[g].at = "dispatch" /\ job[h].at = "dispatch" => job[g].on # job[h].on

(***************************************************************************)
(* What is current for an admin, in Redis or in the copy of an update_data *)
(* in progress, has been sent to that admin.                               *)
(***************************************************************************)
ShownInv ==
    /\ \A u \in User : data[u].current # NoSuggestion => data[u].current \in shown[u]
    /\ \A h \in Handler :
          /\ job[h].copy.current # NoSuggestion =>
                job[h].user \in User /\ job[h].copy.current \in shown[job[h].user]
          /\ job[h].at \in {"judge", "judged", "show", "showing"} =>
                job[h].on \in shown[job[h].user]
    /\ JudgedWasShown

(***************************************************************************)
(* While a ban declines, each pending row of its target is still to come,  *)
(* already locked, or a submission that was too late.                      *)
(***************************************************************************)
BanInv ==
    /\ \A h \in Handler : job[h].at = "rows" =>
          \A x \in Pending(job[h].target) : x \in job[h].batch \union held[h] \union raced
    /\ BannedHasNothingPending

IInv == TypeOK /\ LockInv /\ DispatchInv /\ ShownInv /\ BanInv

USE DEF Verdict, Role

-----------------------------------------------------------------------------
(***************************************************************************)
(* Types.  Each step leaves a well-typed job behind.                       *)
(***************************************************************************)
LEMMA IdleJob == Idle \in Job /\ Idle.copy.current = NoSuggestion
  BY UserAssumption, SuggestionAssumption
  DEF Idle, Job, JobRecord, Label, NoData, FsmData, WithSuggestion, WithProfile

LEMMA TypeInit == Init => TypeOK
  BY IdleJob, SuggestionAssumption, UserAssumption DEF Init, TypeOK, Status, NoData, FsmData

LEMMA ReceiveType ==
  ASSUME TypeOK, NEW h \in Handler, NEW u \in User, Receive(h, u)
  PROVE  TypeOK'
<1>1. ASSUME NEW op, NEW label, NEW target, Start(h, u, op, label, target),
             [Idle EXCEPT !.at = label, !.op = op, !.user = u, !.target = target] \in Job
      PROVE  TypeOK'
  BY <1>1 DEF Start, TypeOK, database, fsm, history
<1>2. CASE ReceiveSubmission(h, u)
  <2>1. [Idle EXCEPT !.at = "submit", !.op = "submit", !.user = u, !.target = NoUser] \in Job
    BY IdleJob DEF Idle, Job, JobRecord, Label, WithSuggestion, WithProfile
  <2> QED
    BY <1>1, <1>2, <2>1 DEF ReceiveSubmission
<1>3. CASE ReceiveEnter(h, u)
  <2>1. [Idle EXCEPT !.at = "enter", !.op = "enter", !.user = u, !.target = NoUser] \in Job
    BY IdleJob DEF Idle, Job, JobRecord, Label, WithSuggestion, WithProfile
  <2> QED
    BY <1>1, <1>3, <2>1 DEF ReceiveEnter
<1>4. CASE ReceiveVerdict(h, u)
  <2>1. PICK op \in Verdict \union {"ban"} : Start(h, u, op, "current", NoUser)
    BY <1>4 DEF ReceiveVerdict
  <2>2. [Idle EXCEPT !.at = "current", !.op = op, !.user = u, !.target = NoUser] \in Job
    BY IdleJob DEF Idle, Job, JobRecord, Label, WithSuggestion, WithProfile
  <2> QED
    BY <1>1, <2>1, <2>2
<1>5. CASE ReceiveRoleChange(h, u)
  <2>1. PICK op \in Role, target \in User : Start(h, u, op, "role", target)
    BY <1>5, RoleAssumption DEF ReceiveRoleChange
  <2>2. [Idle EXCEPT !.at = "role", !.op = op, !.user = u, !.target = target] \in Job
    BY IdleJob DEF Idle, Job, JobRecord, Label, WithSuggestion, WithProfile
  <2> QED
    BY <1>1, <2>1, <2>2
<1>6. CASE ReceiveMessage(h, u)
  <2>1. \A op \in {"message", "back"} :
           [Idle EXCEPT !.at = "viewer", !.op = op, !.user = u, !.target = NoUser] \in Job
    BY IdleJob DEF Idle, Job, JobRecord, Label, WithSuggestion, WithProfile
  <2> QED
    BY <1>1, <1>6, <2>1 DEF ReceiveMessage
<1>7. CASE ReceiveStart(h, u)
  <2>1. [Idle EXCEPT !.at = "menu", !.op = "none", !.user = u, !.target = NoUser] \in Job
    BY IdleJob DEF Idle, Job, JobRecord, Label, WithSuggestion, WithProfile
  <2> QED
    BY <1>1, <1>7, <2>1 DEF ReceiveStart
<1> QED
  BY <1>2, <1>3, <1>4, <1>5, <1>6, <1>7 DEF Receive

(***************************************************************************)
(* The three ways a step moves its job on.                                 *)
(***************************************************************************)
LEMMA GotoType ==
  ASSUME TypeOK, NEW h \in Handler, NEW label, Goto(h, label),
         [job[h] EXCEPT !.at = label] \in Job
  PROVE  job' \in [Handler -> Job]
  BY DEF TypeOK, Goto

LEMMA EndType ==
  ASSUME TypeOK, NEW h \in Handler, End(h)
  PROVE  job' \in [Handler -> Job]
  BY IdleJob DEF TypeOK, End

LEMMA AdvanceType ==
  ASSUME TypeOK, NEW h \in Handler, job[h].at # "idle", Advance(h)
  PROVE  job' \in [Handler -> Job]
<1>1. job[h].user \in User
  BY DEF TypeOK, Job
<1>2. ASSUME NEW u \in User, NEW op \in {"enter", "none"}
      PROVE  [Idle EXCEPT !.at = "advance", !.user = u, !.op = op] \in Job
  BY IdleJob DEF Idle, Job, JobRecord, Label, WithSuggestion, WithProfile
<1> QED
  BY <1>1, <1>2 DEF TypeOK, Advance

LEMMA StepJob ==
  ASSUME TypeOK, NEW h \in Handler, Step(h)
  PROVE  job' \in [Handler -> Job]
<1> USE UserAssumption, SuggestionAssumption
<1>j. job[h] \in Job /\ job \in [Handler -> Job]
  BY DEF TypeOK
<1>1. ASSUME NEW x \in Suggestion, Create(h, x) PROVE job' \in [Handler -> Job]
  <2>1. [job[h] EXCEPT !.at = "created", !.on = x] \in Job
    BY <1>1, <1>j DEF Create, Job, JobRecord, Label, WithSuggestion, WithProfile
  <2> QED
    BY <1>1, <1>j, <2>1 DEF Create
<1>2. ASSUME NEW x \in Suggestion, DeclineRow(h, x) PROVE job' \in [Handler -> Job]
  <2>1. [job[h] EXCEPT !.batch = @ \ {x}] \in Job
    BY <1>2, <1>j DEF DeclineRow, Job, JobRecord, Label, WithSuggestion, WithProfile
  <2> QED
    BY <1>2, <1>j, <2>1 DEF DeclineRow
<1>3. CASE End(h)
  BY <1>3, EndType
<1>4. CASE job[h].at # "idle" /\ Advance(h)
  BY <1>4, AdvanceType
<1>5. CASE GetCurrent(h)
  <2> DEFINE x == data[job[h].user].current
  <2>1. x \in Suggestion \union {NoSuggestion}
    BY <1>5, <1>j DEF GetCurrent, TypeOK, FsmData, Job, JobRecord, Label, WithSuggestion, WithProfile
  <2>2. CASE Goto(h, "menu") /\ job[h].op \in Verdict
    <3>1. [job[h] EXCEPT !.at = "menu"] \in Job
      BY <1>5, <1>j, <2>2 DEF GetCurrent, Job, JobRecord, Label, WithSuggestion, WithProfile
    <3> QED
      BY <2>2, <3>1, GotoType
  <2>3. CASE /\ x # NoSuggestion /\ job[h].op \in Verdict
             /\ job' = [job EXCEPT ![h].at = "judge", ![h].on = x]
    <3>1. [job[h] EXCEPT !.at = "judge", !.on = x] \in Job
      BY <1>5, <1>j, <2>1, <2>3 DEF GetCurrent, Job, JobRecord, Label, WithSuggestion, WithProfile
    <3> QED
      BY <1>j, <2>3, <3>1
  <2>4. CASE /\ x # NoSuggestion /\ job[h].op = "ban"
             /\ job' = [job EXCEPT ![h].at = "role", ![h].target = AuthorOf[x]]
    <3>1. [job[h] EXCEPT !.at = "role", !.target = AuthorOf[x]] \in Job
      BY <1>5, <1>j, <2>1, <2>4 DEF GetCurrent, Job, JobRecord, Label, WithSuggestion, WithProfile
    <3> QED
      BY <1>j, <2>4, <3>1
  <2> QED
    BY <1>3, <1>5, <2>2, <2>3, <2>4 DEF GetCurrent
<1>6. CASE Judge(h)
  <2>1. [job[h] EXCEPT !.at = "judged"] \in Job
    BY <1>6, <1>j DEF Judge, Job, JobRecord, Label, WithSuggestion, WithProfile
  <2> QED
    BY <1>3, <1>6, <2>1, GotoType DEF Judge
<1>7. CASE CommitVerdict(h)
  <2>1. [job[h] EXCEPT !.at = "dispatch"] \in Job
    BY <1>7, <1>j DEF CommitVerdict, Job, JobRecord, Label, WithSuggestion, WithProfile
  <2> QED
    BY <1>4, <1>7, <2>1, GotoType DEF CommitVerdict
<1>8. CASE ChangeRole(h)
  <2>1. job[h].at = "role" /\ job[h].target \in User /\ job[h].op \in Role \union {"ban"}
    BY <1>8, <1>j DEF ChangeRole, Job, JobRecord, Label, WithSuggestion, WithProfile
  <2>2. CASE job[h].op \in {"ban", "banned"} /\ Goto(h, "decline")
    <3>1. [job[h] EXCEPT !.at = "decline"] \in Job
      BY <1>j, <2>1, <2>2 DEF Job, JobRecord, Label, WithSuggestion, WithProfile
    <3> QED
      BY <2>2, <3>1, GotoType
  <2>3. CASE job[h].op \notin {"ban", "banned"} /\ Goto(h, "roled")
    <3>1. [job[h] EXCEPT !.at = "roled"] \in Job
      BY <1>j, <2>1, <2>3 DEF Job, JobRecord, Label, WithSuggestion, WithProfile
    <3> QED
      BY <2>3, <3>1, GotoType
  <2> QED
    BY <1>3, <1>8, <2>2, <2>3 DEF ChangeRole
<1>9. CASE DeclineSuggestion(h)
  <2>1. [job[h] EXCEPT !.at = "rows", !.batch = Pending(job[h].target)] \in Job
    BY <1>9, <1>j DEF DeclineSuggestion, Pending, Job, JobRecord, Label, WithSuggestion, WithProfile
  <2> QED
    BY <1>9, <1>j, <2>1 DEF DeclineSuggestion
<1>10. CASE Enter(h)
  <2>1. [job[h] EXCEPT !.at = "entered", !.batch = ActivePage] \in Job
    BY <1>10, <1>j DEF Enter, ActivePage, Job, JobRecord, Label, WithSuggestion, WithProfile
  <2> QED
    BY <1>3, <1>10, <1>j, <2>1 DEF Enter
<1>11. CASE GetQueue(h)
  <2> DEFINE queue == data[job[h].user].queue
  <2>1. queue \in SUBSET Suggestion
    BY <1>11, <1>j DEF GetQueue, TypeOK, FsmData, Job, JobRecord, Label, WithSuggestion, WithProfile
  <2>2. [job[h] EXCEPT !.at = "pop", !.op = "none", !.batch = queue] \in Job
    BY <1>11, <1>j, <2>1 DEF GetQueue, Job, JobRecord, Label, WithSuggestion, WithProfile
  <2>3. [job[h] EXCEPT !.at = "refetch"] \in Job
    BY <1>11, <1>j DEF GetQueue, Job, JobRecord, Label, WithSuggestion, WithProfile
  <2> QED
    BY <1>11, <1>j, <2>2, <2>3 DEF GetQueue
<1>12. CASE Refetch(h)
  <2>1. [job[h] EXCEPT !.at = "reseed", !.op = "none", !.batch = ActivePage] \in Job
    BY <1>12, <1>j DEF Refetch, ActivePage, Job, JobRecord, Label, WithSuggestion, WithProfile
  <2>2. [job[h] EXCEPT !.at = "menu"] \in Job
    BY <1>12, <1>j DEF Refetch, Job, JobRecord, Label, WithSuggestion, WithProfile
  <2> QED
    BY <1>3, <1>12, <1>j, <2>1, <2>2, GotoType DEF Refetch
<1>13. CASE Load(h)
  <2>1. ButQueue(job[h].user) \in FsmData /\ ButCurrent(job[h].user) \in FsmData
    <3>1. data[job[h].user] \in FsmData
      BY <1>13, <1>j DEF Load, TypeOK, Job, JobRecord, Label, WithSuggestion, WithProfile
    <3> QED
      BY <3>1 DEF ButQueue, ButCurrent, FsmData
  <2>2. \A l \in {"seeding", "reseeding"} :
           [job[h] EXCEPT !.at = l, !.copy = ButQueue(job[h].user)] \in Job
    BY <1>13, <1>j, <2>1 DEF Load, Job, JobRecord, Label, WithSuggestion, WithProfile
  <2>3. job[h].at = "show" =>
           [job[h] EXCEPT !.at = "showing", !.copy = ButCurrent(job[h].user)] \in Job
    BY <1>13, <1>j, <2>1 DEF Load, Job, JobRecord, Label, WithSuggestion, WithProfile
  <2> QED
    BY <1>13, <1>j, <2>2, <2>3 DEF Load
<1>14. CASE SeedQueue(h)
  <2>1. [job[h] EXCEPT !.at = "pop", !.copy = NoData] \in Job
    <3> DEFINE r == [job[h] EXCEPT !.at = "pop", !.copy = NoData]
    <3>1. job[h].at \in {"seeding", "reseeding"}
      BY <1>14 DEF SeedQueue
    <3>2. job[h].user \in User
      BY <3>1, <1>j DEF Job, WithSuggestion
    <3>3. job[h] \in JobRecord
      BY <1>j DEF Job
    <3>4. NoData \in FsmData
      BY DEF NoData, FsmData
    <3>5. /\ r \in JobRecord
          /\ r.at = "pop" /\ r.user = job[h].user /\ r.on = job[h].on
      BY <3>3, <3>4 DEF JobRecord, Label
    <3> HIDE DEF r
    <3>6. r \in Job
      BY <3>2, <3>5 DEF Job, WithSuggestion, WithProfile
    <3> QED
      BY <3>6 DEF r
  <2> QED
    BY <1>4, <1>14, <1>j, <2>1 DEF SeedQueue
<1>15. CASE Pop(h)
  <2>1. ButQueue(job[h].user) \in FsmData
    <3>1. data[job[h].user] \in FsmData
      BY <1>15, <1>j DEF Pop, TypeOK, Job, JobRecord, Label, WithSuggestion, WithProfile
    <3> QED
      BY <3>1 DEF ButQueue, FsmData
  <2>2. PICK x \in job[h].batch :
             job' = [job EXCEPT ![h].at = "popping", ![h].on = x, ![h].batch = @ \ {x},
                                ![h].copy = ButQueue(job[h].user)]
    BY <1>15 DEF Pop
  <2>3. [job[h] EXCEPT !.at = "popping", !.on = x, !.batch = @ \ {x},
                       !.copy = ButQueue(job[h].user)] \in Job
    BY <1>15, <1>j, <2>1 DEF Pop, Job, JobRecord, Label, WithSuggestion, WithProfile
  <2> QED
    BY <1>j, <2>2, <2>3
<1>16. CASE FromQueue(h)
  <2>1. [job[h] EXCEPT !.at = "send", !.batch = {}, !.copy = NoData] \in Job
    <3> DEFINE r == [job[h] EXCEPT !.at = "send", !.batch = {}, !.copy = NoData]
    <3>1. job[h].at = "popping"
      BY <1>16 DEF FromQueue
    <3>2. job[h].user \in User /\ job[h].on \in Suggestion
      BY <3>1, <1>j DEF Job, WithSuggestion
    <3>3. job[h] \in JobRecord
      BY <1>j DEF Job
    <3>4. NoData \in FsmData
      BY DEF NoData, FsmData
    <3>5. /\ r \in JobRecord
          /\ r.at = "send" /\ r.user = job[h].user /\ r.on = job[h].on
      BY <3>3, <3>4 DEF JobRecord, Label
    <3> HIDE DEF r
    <3>6. r \in Job
      BY <3>2, <3>5 DEF Job, WithSuggestion, WithProfile
    <3> QED
      BY <3>6 DEF r
  <2> QED
    BY <1>16, <1>j, <2>1 DEF FromQueue
<1>17. CASE SendToAdmin(h)
  <2>1. [job[h] EXCEPT !.at = "show"] \in Job
    BY <1>17, <1>j DEF SendToAdmin, Job, JobRecord, Label, WithSuggestion, WithProfile
  <2> QED
    BY <1>3, <1>17, <2>1, GotoType DEF SendToAdmin
<1>18. CASE CommitRole(h)
  BY <1>3, <1>4, <1>18 DEF CommitRole
<1>19. CASE ReturnToMenu(h)
  <2>1. [job[h] EXCEPT !.at = "clear"] \in Job
    BY <1>19, <1>j DEF ReturnToMenu, Job, JobRecord, Label, WithSuggestion, WithProfile
  <2> QED
    BY <1>19, <2>1, GotoType DEF ReturnToMenu
<1>20. CASE SetInViewer(h)
  <2>1. [job[h] EXCEPT !.at = "seed"] \in Job
    BY <1>20, <1>j DEF SetInViewer, Job, JobRecord, Label, WithSuggestion, WithProfile
  <2> QED
    BY <1>20, <2>1, GotoType DEF SetInViewer
<1> QED
  BY <1>1, <1>2, <1>3, <1>4, <1>5, <1>6, <1>7, <1>8, <1>9, <1>10, <1>11, <1>12, <1>13,
     <1>14, <1>15, <1>16, <1>17, <1>18, <1>19, <1>20
  DEF Step, Reject, CommitSubmission, Dispatch, SetCurrent, SetViewerState, ClearData

LEMMA DispatchType ==
  ASSUME dispatched \in [Suggestion -> Nat], NEW h \in Handler, Dispatch(h),
         job[h].on \in Suggestion
  PROVE  dispatched' \in [Suggestion -> Nat]
  BY DEF Dispatch

LEMMA StepType ==
  ASSUME TypeOK, NEW h \in Handler, Step(h)
  PROVE  TypeOK'
<1> USE StepJob, UserAssumption, SuggestionAssumption DEF TypeOK, database, fsm, history
<1>j. /\ job[h].at # "idle" => job[h].user \in User
      /\ job[h].at \in WithSuggestion => job[h].on \in Suggestion
      /\ job[h].at \in WithProfile => job[h].target \in User
      /\ job[h].at \in {"judge", "judged"} => job[h].op \in Verdict
      /\ job[h].at \in {"decline", "rows"} => job[h].op \in {"ban", "banned"}
      /\ job[h].at = "roled" => job[h].op \in {"user", "admin"}
      /\ job[h].batch \in SUBSET Suggestion /\ job[h].copy \in FsmData
  BY DEF Job, JobRecord
<1>1. ASSUME NEW x \in Suggestion, Create(h, x) PROVE TypeOK'
  BY <1>1 DEF Create, Status
<1>2. ASSUME NEW x \in Suggestion, DeclineRow(h, x) PROVE TypeOK'
  BY <1>2 DEF DeclineRow
<1>3. CASE CommitSubmission(h)
  BY <1>j, <1>3 DEF CommitSubmission, Status, WithSuggestion
<1>4. CASE Reject(h)
  BY <1>j, <1>4 DEF Reject
<1>5. CASE GetCurrent(h)
  BY <1>j, <1>5 DEF GetCurrent
<1>6. CASE Judge(h)
  BY <1>j, <1>6 DEF Judge, WithSuggestion
<1>7. CASE CommitVerdict(h)
  BY <1>j, <1>7 DEF CommitVerdict, Status, WithSuggestion
<1>8. CASE Dispatch(h)
  <2>1. job[h].on \in Suggestion
    BY <1>j, <1>8 DEF Dispatch, WithSuggestion
  <2>2. dispatched' \in [Suggestion -> Nat]
    BY <1>8, <2>1, DispatchType
  <2> QED
    BY <1>8, <2>2 DEF Dispatch
<1>9. CASE ChangeRole(h)
  BY <1>j, <1>9 DEF ChangeRole
<1>10. CASE DeclineSuggestion(h)
  BY <1>j, <1>10 DEF DeclineSuggestion
<1>11. CASE CommitRole(h)
  BY <1>j, <1>11 DEF CommitRole, Status, WithProfile
<1>12. CASE Enter(h) \/ SetInViewer(h)
  BY <1>j, <1>12 DEF Enter, SetInViewer
<1>13. CASE GetQueue(h)
  BY <1>j, <1>13 DEF GetQueue
<1>14. CASE Refetch(h)
  BY <1>j, <1>14 DEF Refetch
<1>15. CASE Load(h)
  BY <1>j, <1>15 DEF Load
<1>16. CASE SeedQueue(h)
  BY <1>j, <1>16 DEF SeedQueue, FsmData
<1>17. CASE Pop(h)
  BY <1>j, <1>17 DEF Pop
<1>18. CASE FromQueue(h)
  BY <1>j, <1>18 DEF FromQueue, FsmData
<1>19. CASE SendToAdmin(h)
  BY <1>j, <1>19 DEF SendToAdmin, WithSuggestion
<1>20. CASE SetCurrent(h)
  BY <1>j, <1>20 DEF SetCurrent, FsmData, WithSuggestion
<1>21. CASE ReturnToMenu(h)
  BY <1>j, <1>21 DEF ReturnToMenu
<1>22. CASE SetViewerState(h)
  BY <1>j, <1>22 DEF SetViewerState
<1>23. CASE ClearData(h)
  BY <1>j, <1>23 DEF ClearData, FsmData, NoData
<1> QED
  BY <1>1, <1>2, <1>3, <1>4, <1>5, <1>6, <1>7, <1>8, <1>9, <1>10, <1>11, <1>12,
     <1>13, <1>14, <1>15, <1>16, <1>17, <1>18, <1>19, <1>20, <1>21,
     <1>22, <1>23 DEF Step

LEMMA TypeStep == TypeOK /\ [Next]_vars => TypeOK'
<1> SUFFICES ASSUME TypeOK, [Next]_vars PROVE TypeOK'
  OBVIOUS
<1>1. CASE DemoteAdmins
  BY <1>1 DEF DemoteAdmins, TypeOK, fsm, history
<1>2. ASSUME NEW h \in Handler, Fail(h) PROVE TypeOK'
  <2>1. job' \in [Handler -> Job]
    BY <1>2, EndType DEF Fail
  <2>2. lost' \subseteq Suggestion
    BY <1>2 DEF Fail, TypeOK, Job, WithSuggestion
  <2> QED
    BY <1>2, <2>1, <2>2 DEF Fail, TypeOK, fsm, Status
<1> QED
  BY <1>1, <1>2, StepType, ReceiveType DEF Next, vars, TypeOK

\* Type correctness: every handler only ever holds what the await it is at
\* needs, whatever fails and however the handlers interleave.
THEOREM TypeCorrect == Spec => []TypeOK
  BY TypeInit, TypeStep, PTL DEF Spec

LEMMA JobFields ==
  TypeOK => /\ job \in [Handler -> JobRecord]
            /\ \A h \in Handler : job[h].at \in WithSuggestion => job[h].on \in Suggestion
  BY DEF TypeOK, Job

LEMMA IdleFields == Idle.at = "idle" /\ Idle.copy.current = NoSuggestion
  BY DEF Idle, NoData

\* What a job is after Start and after Advance.
LEMMA StartFields ==
  ASSUME NEW h \in Handler, NEW u, NEW op, NEW label, NEW target,
         job \in [Handler -> JobRecord], Start(h, u, op, label, target)
  PROVE  /\ job[h].at = "idle" /\ job'[h].at = label /\ job'[h].copy.current = NoSuggestion
         /\ \A g \in Handler \ {h} : job'[g] = job[g]
         /\ UNCHANGED <<status, role, held, state, data, dispatched, lost, shown, judge, raced, everAdmin>>
  BY DEF Start, Idle, NoData, database, fsm, history

LEMMA AdvanceFields ==
  ASSUME NEW h \in Handler, job \in [Handler -> JobRecord], Advance(h)
  PROVE  /\ job'[h].at = "advance" /\ job'[h].copy.current = NoSuggestion
         /\ \A g \in Handler \ {h} : job'[g] = job[g]
  BY DEF Advance, Idle, NoData

\* An update that arrives starts a job and touches nothing else.
LEMMA ReceiveFields ==
  ASSUME NEW h \in Handler, NEW u \in User, job \in [Handler -> JobRecord], Receive(h, u)
  PROVE  /\ job[h].at = "idle" /\ job'[h].copy.current = NoSuggestion
         /\ job'[h].at \in {"submit", "enter", "current", "role", "viewer", "menu"}
         /\ \A g \in Handler \ {h} : job'[g] = job[g]
         /\ UNCHANGED <<status, role, held, state, data, dispatched, lost, shown, judge, raced, everAdmin>>
<1>1. CASE ReceiveSubmission(h, u)
  BY <1>1, StartFields DEF ReceiveSubmission
<1>2. CASE ReceiveEnter(h, u)
  BY <1>2, StartFields DEF ReceiveEnter
<1>3. CASE ReceiveVerdict(h, u)
  <2>1. PICK op : Start(h, u, op, "current", NoUser)
    BY <1>3 DEF ReceiveVerdict
  <2> QED
    BY <2>1, StartFields
<1>4. CASE ReceiveRoleChange(h, u)
  <2>1. PICK op, target : Start(h, u, op, "role", target)
    BY <1>4 DEF ReceiveRoleChange
  <2> QED
    BY <2>1, StartFields
<1>5. CASE ReceiveMessage(h, u)
  BY <1>5, StartFields DEF ReceiveMessage
<1>6. CASE ReceiveStart(h, u)
  BY <1>6, StartFields DEF ReceiveStart
<1> QED
  BY <1>1, <1>2, <1>3, <1>4, <1>5, <1>6 DEF Receive

(***************************************************************************)
(* The rows a transaction holds.                                           *)
(***************************************************************************)
LEMMA LockStep ==
  ASSUME TypeOK, LockInv, [Next]_vars
  PROVE  LockInv'
<1> USE JobFields, IdleFields DEF LockInv, database, fsm, history, JobRecord, WithSuggestion
<1>1. ASSUME NEW h \in Handler, NEW u \in User, Receive(h, u) PROVE LockInv'
  BY <1>1, ReceiveFields
<1>2. ASSUME NEW h \in Handler, SetViewerState(h) \/ ClearData(h) PROVE LockInv'
  BY <1>2 DEF SetViewerState, ClearData, End
<1>3. CASE DemoteAdmins
  BY <1>3 DEF DemoteAdmins
<1>4. ASSUME NEW h \in Handler, Fail(h) PROVE LockInv'
  <2>1. job'[h].at = "idle" /\ held'[h] = {}
    BY <1>4 DEF Fail, End, TypeOK
  <2>2. \A g \in Handler \ {h} : job'[g] = job[g] /\ held'[g] = held[g]
    BY <1>4 DEF Fail, End, TypeOK
  <2>3. \A g \in Handler \ {h} : \A x \in held[g] : x \in Suggestion /\ status'[x] = status[x]
    BY <1>4 DEF Fail, TypeOK
  <2> QED
    BY <2>1, <2>2, <2>3
<1>5. ASSUME NEW h \in Handler, NEW x \in Suggestion, Create(h, x) PROVE LockInv'
  <2>1. job'[h].at = "created" /\ job'[h].on = x /\ held'[h] = {x}
    BY <1>5 DEF Create, TypeOK
  <2>2. \A g \in Handler \ {h} : job'[g] = job[g] /\ held'[g] = held[g]
    BY <1>5 DEF Create, TypeOK
  <2>3. status'[x] = "inserting" /\ \A y \in Suggestion \ {x} : status'[y] = status[y]
    BY <1>5 DEF Create, TypeOK
  <2>4. \A g \in Handler : x \notin held[g] /\ held[g] \subseteq Suggestion
    BY <1>5 DEF Create, TypeOK
  <2> QED
    BY <2>1, <2>2, <2>3, <2>4
<1>6. ASSUME NEW h \in Handler, NEW x \in Suggestion, DeclineRow(h, x) PROVE LockInv'
  <2>1. /\ job'[h].at = "rows" /\ held'[h] \subseteq held[h] \union {x}
        /\ x \in held'[h] => x \in held[h] \/ status[x] = "pending"
    BY <1>6 DEF DeclineRow, TypeOK
  <2>2. \A g \in Handler \ {h} : job'[g] = job[g] /\ held'[g] = held[g] /\ x \notin held[g]
    BY <1>6 DEF DeclineRow, RowLocked, TypeOK
  <2>3. status' = status /\ job[h].at = "rows"
    BY <1>6 DEF DeclineRow
  <2> QED
    BY <2>1, <2>2, <2>3
<1>7. ASSUME NEW h \in Handler, CommitSubmission(h) PROVE LockInv'
  <2>1. job'[h].at = "idle" /\ held'[h] = {} /\ held[h] = {job[h].on}
    BY <1>7 DEF CommitSubmission, End, TypeOK
  <2>2. \A g \in Handler \ {h} : job'[g] = job[g] /\ held'[g] = held[g]
    BY <1>7 DEF CommitSubmission, End, TypeOK
  <2>3. \A x \in Suggestion : x # job[h].on => status'[x] = status[x]
    BY <1>7 DEF CommitSubmission, TypeOK
  <2>4. \A g \in Handler : held[g] \subseteq Suggestion
    BY DEF TypeOK
  <2> QED
    BY <2>1, <2>2, <2>3, <2>4
<1>8. ASSUME NEW h \in Handler, Reject(h) PROVE LockInv'
  BY <1>8 DEF Reject, Goto, End, Advance
<1>9. ASSUME NEW h \in Handler, GetCurrent(h) PROVE LockInv'
  BY <1>9 DEF GetCurrent, Goto, End, Advance
<1>10. ASSUME NEW h \in Handler, Judge(h) PROVE LockInv'
  <2>1. \/ job'[h].at = "idle" /\ held'[h] = {}
        \/ /\ job'[h].at = "judged" /\ job'[h].on = job[h].on
           /\ held'[h] = {job[h].on} /\ status[job[h].on] = "pending"
    BY <1>10 DEF Judge, Goto, End, TypeOK
  <2>2. \A g \in Handler \ {h} :
           job'[g] = job[g] /\ held'[g] = held[g] /\ job[h].on \notin held[g]
    BY <1>10 DEF Judge, Goto, End, RowLocked, TypeOK
  <2>3. status' = status
    BY <1>10 DEF Judge
  <2> QED
    BY <2>1, <2>2, <2>3
<1>11. ASSUME NEW h \in Handler, CommitVerdict(h) PROVE LockInv'
  <2>1. /\ job'[h].at \in {"dispatch", "advance"}
        /\ held'[h] = {} /\ held[h] = {job[h].on}
    BY <1>11, AdvanceFields DEF CommitVerdict, Goto, TypeOK
  <2>2. \A g \in Handler \ {h} : job'[g] = job[g] /\ held'[g] = held[g]
    BY <1>11 DEF CommitVerdict, Goto, Advance, TypeOK
  <2>3. \A x \in Suggestion : x # job[h].on => status'[x] = status[x]
    BY <1>11 DEF CommitVerdict, TypeOK
  <2>4. \A g \in Handler : held[g] \subseteq Suggestion
    BY DEF TypeOK
  <2> QED
    BY <2>1, <2>2, <2>3, <2>4
<1>12. ASSUME NEW h \in Handler, Dispatch(h) PROVE LockInv'
  BY <1>12 DEF Dispatch, Goto, End, Advance
<1>13. ASSUME NEW h \in Handler, ChangeRole(h) PROVE LockInv'
  BY <1>13 DEF ChangeRole, Goto, End, Advance
<1>14. ASSUME NEW h \in Handler, DeclineSuggestion(h) PROVE LockInv'
  BY <1>14 DEF DeclineSuggestion, Goto, End, Advance
<1>15. ASSUME NEW h \in Handler, CommitRole(h) PROVE LockInv'
  <2>1. job'[h].at \in {"idle", "advance"} /\ held'[h] = {}
    BY <1>15, AdvanceFields DEF CommitRole, End, TypeOK
  <2>2. \A g \in Handler \ {h} : job'[g] = job[g] /\ held'[g] = held[g]
    BY <1>15 DEF CommitRole, End, Advance, TypeOK
  <2>3. \A x \in Suggestion \ held[h] : status'[x] = status[x]
    BY <1>15 DEF CommitRole
  <2>4. \A g \in Handler : held[g] \subseteq Suggestion
    BY DEF TypeOK
  <2> QED
    BY <2>1, <2>2, <2>3, <2>4
<1>16. ASSUME NEW h \in Handler, Enter(h) \/ SetInViewer(h) PROVE LockInv'
  BY <1>16 DEF Enter, SetInViewer, Goto, End, Advance
<1>17. ASSUME NEW h \in Handler, GetQueue(h) PROVE LockInv'
  BY <1>17 DEF GetQueue, Goto, End, Advance
<1>18. ASSUME NEW h \in Handler, Refetch(h) PROVE LockInv'
  BY <1>18 DEF Refetch, Goto, End, Advance
<1>19. ASSUME NEW h \in Handler, Load(h) PROVE LockInv'
  BY <1>19 DEF Load, Goto, End, Advance
<1>20. ASSUME NEW h \in Handler, SeedQueue(h) PROVE LockInv'
  <2>1. job'[h].at \in {"pop", "advance"}
    BY <1>20, AdvanceFields DEF SeedQueue
  <2>2. \A g \in Handler \ {h} : job'[g] = job[g]
    BY <1>20 DEF SeedQueue, Advance
  <2>3. UNCHANGED <<held, status>> /\ job[h].at \in {"seeding", "reseeding"}
    BY <1>20 DEF SeedQueue
  <2> QED
    BY <2>1, <2>2, <2>3
<1>21. ASSUME NEW h \in Handler, Pop(h) PROVE LockInv'
  BY <1>21 DEF Pop, Goto, End, Advance
<1>22. ASSUME NEW h \in Handler, FromQueue(h) PROVE LockInv'
  BY <1>22 DEF FromQueue, Goto, End, Advance
<1>23. ASSUME NEW h \in Handler, SendToAdmin(h) PROVE LockInv'
  BY <1>23 DEF SendToAdmin, Goto, End, Advance
<1>24. ASSUME NEW h \in Handler, SetCurrent(h) PROVE LockInv'
  BY <1>24 DEF SetCurrent, Goto, End, Advance
<1>25. ASSUME NEW h \in Handler, ReturnToMenu(h) PROVE LockInv'
  BY <1>25 DEF ReturnToMenu, Goto, End, Advance
<1>26. CASE UNCHANGED vars
  BY <1>26 DEF vars, Pending
<1> QED
  BY <1>1, <1>2, <1>3, <1>4, <1>5, <1>6, <1>7, <1>8, <1>9, <1>10, <1>11, <1>12,
     <1>13, <1>14, <1>15, <1>16, <1>17, <1>18, <1>19, <1>20, <1>21, <1>22, <1>23,
     <1>24, <1>25, <1>26 DEF Next, Step

\* One publication task per acceptance.
LEMMA DispatchStep ==
  ASSUME TypeOK, LockInv, DispatchInv, [Next]_vars
  PROVE  DispatchInv'
<1> USE JobFields, IdleFields DEF DispatchInv, database, fsm, history, JobRecord, WithSuggestion
<1>1. ASSUME NEW h \in Handler, NEW u \in User, Receive(h, u) PROVE DispatchInv'
  BY <1>1, ReceiveFields
<1>2. ASSUME NEW h \in Handler, SetViewerState(h) \/ ClearData(h) PROVE DispatchInv'
  BY <1>2 DEF SetViewerState, ClearData, End
<1>3. CASE DemoteAdmins
  BY <1>3 DEF DemoteAdmins
<1>4. ASSUME NEW h \in Handler, Fail(h) PROVE DispatchInv'
  BY <1>4 DEF Fail, End
<1>5. ASSUME NEW h \in Handler, NEW x \in Suggestion, Create(h, x) PROVE DispatchInv'
  BY <1>5 DEF Create
<1>6. ASSUME NEW h \in Handler, NEW x \in Suggestion, DeclineRow(h, x) PROVE DispatchInv'
  BY <1>6 DEF DeclineRow
<1>7. ASSUME NEW h \in Handler, CommitSubmission(h) PROVE DispatchInv'
  <2>1. job[h].on \in Suggestion /\ status[job[h].on] = "inserting"
    BY <1>7 DEF CommitSubmission, LockInv
  <2>2. \A x \in Suggestion : x # job[h].on => status'[x] = status[x]
    BY <1>7 DEF CommitSubmission, TypeOK
  <2>3. job'[h].at = "idle" /\ \A g \in Handler \ {h} : job'[g] = job[g]
    BY <1>7 DEF CommitSubmission, End
  <2>4. dispatched' = dispatched
    BY <1>7 DEF CommitSubmission
  <2> QED
    BY <2>1, <2>2, <2>3, <2>4
<1>8. ASSUME NEW h \in Handler, Reject(h) PROVE DispatchInv'
  BY <1>8 DEF Reject, Goto, End
<1>9. ASSUME NEW h \in Handler, GetCurrent(h) PROVE DispatchInv'
  BY <1>9 DEF GetCurrent, Goto, End
<1>10. ASSUME NEW h \in Handler, Judge(h) PROVE DispatchInv'
  BY <1>10 DEF Judge, Goto, End
<1>11. ASSUME NEW h \in Handler, CommitVerdict(h) PROVE DispatchInv'
  <2>1. job[h].on \in Suggestion /\ status[job[h].on] = "pending"
    BY <1>11 DEF CommitVerdict, LockInv
  <2>2. \A x \in Suggestion : x # job[h].on => status'[x] = status[x]
    BY <1>11 DEF CommitVerdict, TypeOK
  <2>3. /\ job'[h].at = "dispatch" =>
              job'[h].on = job[h].on /\ status'[job[h].on] = "accepted"
        /\ \A g \in Handler \ {h} : job'[g] = job[g]
    BY <1>11, <2>1, AdvanceFields DEF CommitVerdict, Goto, TypeOK
  <2>4. dispatched' = dispatched
    BY <1>11 DEF CommitVerdict
  <2> QED
    BY <2>1, <2>2, <2>3, <2>4
<1>12. ASSUME NEW h \in Handler, Dispatch(h) PROVE DispatchInv'
  BY <1>12, AdvanceFields DEF Dispatch, Goto, End
<1>13. ASSUME NEW h \in Handler, ChangeRole(h) PROVE DispatchInv'
  BY <1>13 DEF ChangeRole, Goto, End
<1>14. ASSUME NEW h \in Handler, DeclineSuggestion(h) PROVE DispatchInv'
  BY <1>14 DEF DeclineSuggestion, Goto, End
<1>15. ASSUME NEW h \in Handler, CommitRole(h) PROVE DispatchInv'
  <2>1. \A x \in Suggestion : status[x] = "accepted" => status'[x] = "accepted"
    <3>1. \A x \in held[h] : status[x] # "accepted"
      BY <1>15 DEF CommitRole, LockInv
    <3> QED
      BY <1>15, <3>1 DEF CommitRole
  <2>2. job'[h].at # "dispatch" /\ \A g \in Handler \ {h} : job'[g] = job[g]
    BY <1>15, AdvanceFields DEF CommitRole, End
  <2>3. dispatched' = dispatched
    BY <1>15 DEF CommitRole
  <2> QED
    BY <2>1, <2>2, <2>3
<1>16. ASSUME NEW h \in Handler, Enter(h) \/ SetInViewer(h) PROVE DispatchInv'
  BY <1>16 DEF Enter, SetInViewer, Goto, End
<1>17. ASSUME NEW h \in Handler, GetQueue(h) PROVE DispatchInv'
  BY <1>17 DEF GetQueue, Goto, End
<1>18. ASSUME NEW h \in Handler, Refetch(h) PROVE DispatchInv'
  BY <1>18 DEF Refetch, Goto, End
<1>19. ASSUME NEW h \in Handler, Load(h) PROVE DispatchInv'
  BY <1>19 DEF Load, Goto, End
<1>20. ASSUME NEW h \in Handler, SeedQueue(h) PROVE DispatchInv'
  BY <1>20, AdvanceFields DEF SeedQueue, Goto, End
<1>21. ASSUME NEW h \in Handler, Pop(h) PROVE DispatchInv'
  BY <1>21 DEF Pop, Goto, End
<1>22. ASSUME NEW h \in Handler, FromQueue(h) PROVE DispatchInv'
  BY <1>22 DEF FromQueue, Goto, End
<1>23. ASSUME NEW h \in Handler, SendToAdmin(h) PROVE DispatchInv'
  BY <1>23 DEF SendToAdmin, Goto, End
<1>24. ASSUME NEW h \in Handler, SetCurrent(h) PROVE DispatchInv'
  BY <1>24 DEF SetCurrent, Goto, End
<1>25. ASSUME NEW h \in Handler, ReturnToMenu(h) PROVE DispatchInv'
  BY <1>25 DEF ReturnToMenu, Goto, End
<1>26. CASE UNCHANGED vars
  BY <1>26 DEF vars, Pending
<1> QED
  BY <1>1, <1>2, <1>3, <1>4, <1>5, <1>6, <1>7, <1>8, <1>9, <1>10, <1>11, <1>12,
     <1>13, <1>14, <1>15, <1>16, <1>17, <1>18, <1>19, <1>20, <1>21, <1>22, <1>23,
     <1>24, <1>25, <1>26 DEF Next, Step

\* What an admin judges, that admin was sent.
LEMMA ShownStep ==
  ASSUME TypeOK, ShownInv, [Next]_vars
  PROVE  ShownInv'
<1> USE JobFields, IdleFields DEF ShownInv, JudgedWasShown, database, fsm, history, JobRecord, WithSuggestion
<1>1. ASSUME NEW h \in Handler, NEW u \in User, Receive(h, u) PROVE ShownInv'
  BY <1>1, ReceiveFields
<1>2. ASSUME NEW h \in Handler, SetViewerState(h) \/ ClearData(h) PROVE ShownInv'
  <2>1. \A v \in User : data'[v].current \in {data[v].current, NoSuggestion}
    BY <1>2 DEF SetViewerState, ClearData, TypeOK, NoData
  <2>2. job'[h] = Idle /\ \A g \in Handler \ {h} : job'[g] = job[g]
    BY <1>2 DEF SetViewerState, ClearData, End
  <2>3. UNCHANGED <<shown, judge>>
    BY <1>2 DEF SetViewerState, ClearData
  <2> QED
    BY <2>1, <2>2, <2>3
<1>3. CASE DemoteAdmins
  BY <1>3 DEF DemoteAdmins
<1>4. ASSUME NEW h \in Handler, Fail(h) PROVE ShownInv'
  BY <1>4 DEF Fail, End
<1>5. ASSUME NEW h \in Handler, NEW x \in Suggestion, Create(h, x) PROVE ShownInv'
  BY <1>5 DEF Create
<1>6. ASSUME NEW h \in Handler, NEW x \in Suggestion, DeclineRow(h, x) PROVE ShownInv'
  BY <1>6 DEF DeclineRow
<1>7. ASSUME NEW h \in Handler, CommitSubmission(h) PROVE ShownInv'
  BY <1>7 DEF CommitSubmission, Goto, End
<1>8. ASSUME NEW h \in Handler, Reject(h) PROVE ShownInv'
  BY <1>8 DEF Reject, Goto, End
<1>9. ASSUME NEW h \in Handler, GetCurrent(h) PROVE ShownInv'
  <2>1. job[h].user \in User
    BY <1>9 DEF GetCurrent, TypeOK, Job
  <2>2. /\ job'[h].at \in {"judge", "judged", "show", "showing"} =>
              /\ job'[h].on = data[job[h].user].current /\ job'[h].user = job[h].user
              /\ data[job[h].user].current # NoSuggestion
        /\ \/ job'[h].copy.current = NoSuggestion
           \/ job'[h].copy = job[h].copy /\ job'[h].user = job[h].user
    BY <1>9 DEF GetCurrent, Goto, End
  <2>3. \A g \in Handler \ {h} : job'[g] = job[g]
    BY <1>9 DEF GetCurrent, Goto, End
  <2>4. UNCHANGED <<data, shown, judge>>
    BY <1>9 DEF GetCurrent
  <2> QED
    BY <2>1, <2>2, <2>3, <2>4
<1>10. ASSUME NEW h \in Handler, Judge(h) PROVE ShownInv'
  BY <1>10 DEF Judge, Goto, End
<1>11. ASSUME NEW h \in Handler, CommitVerdict(h) PROVE ShownInv'
  BY <1>11, AdvanceFields DEF CommitVerdict, Goto, End
<1>12. ASSUME NEW h \in Handler, Dispatch(h) PROVE ShownInv'
  BY <1>12, AdvanceFields DEF Dispatch, Goto, End
<1>13. ASSUME NEW h \in Handler, ChangeRole(h) PROVE ShownInv'
  BY <1>13 DEF ChangeRole, Goto, End
<1>14. ASSUME NEW h \in Handler, DeclineSuggestion(h) PROVE ShownInv'
  BY <1>14 DEF DeclineSuggestion, Goto, End
<1>15. ASSUME NEW h \in Handler, CommitRole(h) PROVE ShownInv'
  BY <1>15, AdvanceFields DEF CommitRole, Goto, End
<1>16. ASSUME NEW h \in Handler, Enter(h) \/ SetInViewer(h) PROVE ShownInv'
  BY <1>16 DEF Enter, SetInViewer, Goto, End
<1>17. ASSUME NEW h \in Handler, GetQueue(h) PROVE ShownInv'
  BY <1>17 DEF GetQueue, Goto, End
<1>18. ASSUME NEW h \in Handler, Refetch(h) PROVE ShownInv'
  BY <1>18 DEF Refetch, Goto, End
<1>19. ASSUME NEW h \in Handler, Load(h) PROVE ShownInv'
  BY <1>19 DEF Load, ButQueue, ButCurrent, Goto, End
<1>20. ASSUME NEW h \in Handler, SeedQueue(h) PROVE ShownInv'
  BY <1>20, AdvanceFields DEF SeedQueue, Goto, End
<1>21. ASSUME NEW h \in Handler, Pop(h) PROVE ShownInv'
  BY <1>21 DEF Pop, ButQueue, Goto, End
<1>22. ASSUME NEW h \in Handler, FromQueue(h) PROVE ShownInv'
  BY <1>22 DEF FromQueue, Goto, End
<1>23. ASSUME NEW h \in Handler, SendToAdmin(h) PROVE ShownInv'
  <2>1. job[h].user \in User
    BY <1>23 DEF SendToAdmin, TypeOK, Job
  <2>2. \A u \in User : shown[u] \subseteq shown'[u]
    BY <1>23 DEF SendToAdmin, TypeOK
  <2>3. job[h].on \in shown'[job[h].user]
    BY <1>23, <2>1 DEF SendToAdmin, TypeOK
  <2>4. \/ job'[h].at = "idle" /\ job'[h].copy.current = NoSuggestion
        \/ /\ job'[h].at = "show" /\ job'[h].on = job[h].on
           /\ job'[h].user = job[h].user /\ job'[h].copy = job[h].copy
    BY <1>23 DEF SendToAdmin, Goto, End
  <2>5. \A g \in Handler \ {h} : job'[g] = job[g]
    BY <1>23 DEF SendToAdmin, Goto, End
  <2>6. UNCHANGED <<data, judge>>
    BY <1>23 DEF SendToAdmin
  <2>7. \A g \in Handler : job[g].at # "idle" => job[g].user \in User
    BY DEF TypeOK, Job
  <2>8. judge \in [Suggestion -> User \union {NoUser}]
    BY DEF TypeOK
  <2> QED
    BY <2>1, <2>2, <2>3, <2>4, <2>5, <2>6, <2>7, <2>8
<1>24. ASSUME NEW h \in Handler, SetCurrent(h) PROVE ShownInv'
  BY <1>24 DEF SetCurrent, Goto, End
<1>25. ASSUME NEW h \in Handler, ReturnToMenu(h) PROVE ShownInv'
  BY <1>25 DEF ReturnToMenu, Goto, End
<1>26. CASE UNCHANGED vars
  BY <1>26 DEF vars, Pending
<1> QED
  BY <1>1, <1>2, <1>3, <1>4, <1>5, <1>6, <1>7, <1>8, <1>9, <1>10, <1>11, <1>12,
     <1>13, <1>14, <1>15, <1>16, <1>17, <1>18, <1>19, <1>20, <1>21, <1>22, <1>23,
     <1>24, <1>25, <1>26 DEF Next, Step

\* What a ban has still to decline.
LEMMA BanStep ==
  ASSUME TypeOK, LockInv, BanInv, [Next]_vars
  PROVE  BanInv'
<1> USE JobFields, IdleFields DEF BanInv, BannedHasNothingPending, Pending, database, fsm, history, JobRecord, WithSuggestion
<1>1. ASSUME NEW h \in Handler, NEW u \in User, Receive(h, u) PROVE BanInv'
  BY <1>1, ReceiveFields
<1>2. ASSUME NEW h \in Handler, SetViewerState(h) \/ ClearData(h) PROVE BanInv'
  BY <1>2 DEF SetViewerState, ClearData, End
<1>3. CASE DemoteAdmins
  <2>1. \A u \in User : role'[u] = "banned" => role[u] = "banned"
    BY <1>3 DEF DemoteAdmins, TypeOK
  <2>2. UNCHANGED <<job, held, status, raced>>
    BY <1>3 DEF DemoteAdmins
  <2> QED
    BY <2>1, <2>2, SuggestionAssumption
<1>4. ASSUME NEW h \in Handler, Fail(h) PROVE BanInv'
  BY <1>4 DEF Fail, End
<1>5. ASSUME NEW h \in Handler, NEW x \in Suggestion, Create(h, x) PROVE BanInv'
  BY <1>5 DEF Create
<1>6. ASSUME NEW h \in Handler, NEW x \in Suggestion, DeclineRow(h, x) PROVE BanInv'
  <2>1. /\ job'[h].target = job[h].target /\ job'[h].batch = job[h].batch \ {x}
        /\ \A g \in Handler \ {h} : job'[g] = job[g]
    BY <1>6 DEF DeclineRow
  <2>2. \A g \in Handler : held[g] \subseteq held'[g]
    BY <1>6 DEF DeclineRow, TypeOK
  <2>3. status[x] = "pending" => x \in held'[h]
    BY <1>6 DEF DeclineRow, TypeOK
  <2>4. UNCHANGED <<status, role, raced>> /\ job[h].at = "rows"
    BY <1>6 DEF DeclineRow
  <2> QED
    BY <2>1, <2>2, <2>3, <2>4
<1>7. ASSUME NEW h \in Handler, CommitSubmission(h) PROVE BanInv'
  BY <1>7 DEF CommitSubmission, Goto, End
<1>8. ASSUME NEW h \in Handler, Reject(h) PROVE BanInv'
  BY <1>8 DEF Reject, Goto, End
<1>9. ASSUME NEW h \in Handler, GetCurrent(h) PROVE BanInv'
  BY <1>9 DEF GetCurrent, Goto, End
<1>10. ASSUME NEW h \in Handler, Judge(h) PROVE BanInv'
  <2>1. job'[h].at # "rows" /\ \A g \in Handler \ {h} : job'[g] = job[g] /\ held'[g] = held[g]
    BY <1>10 DEF Judge, Goto, End, TypeOK
  <2>2. UNCHANGED <<status, role, raced>>
    BY <1>10 DEF Judge
  <2> QED
    BY <2>1, <2>2
<1>11. ASSUME NEW h \in Handler, CommitVerdict(h) PROVE BanInv'
  BY <1>11, AdvanceFields DEF CommitVerdict, Goto, End
<1>12. ASSUME NEW h \in Handler, Dispatch(h) PROVE BanInv'
  BY <1>12, AdvanceFields DEF Dispatch, Goto, End
<1>13. ASSUME NEW h \in Handler, ChangeRole(h) PROVE BanInv'
  BY <1>13 DEF ChangeRole, Goto, End
<1>14. ASSUME NEW h \in Handler, DeclineSuggestion(h) PROVE BanInv'
  BY <1>14 DEF DeclineSuggestion, Goto, End
<1>15. ASSUME NEW h \in Handler, CommitRole(h) PROVE BanInv'
  <2>1. job'[h].at # "rows" /\ \A g \in Handler \ {h} : job'[g] = job[g] /\ held'[g] = held[g]
    BY <1>15, AdvanceFields DEF CommitRole, End, TypeOK
  <2>2. \A x \in Suggestion : status'[x] = "pending" => status[x] = "pending" /\ x \notin held[h]
    BY <1>15 DEF CommitRole
  <2>3. raced' = raced
    BY <1>15 DEF CommitRole
  <2>4. ASSUME NEW x \in Suggestion, role'[AuthorOf[x]] = "banned", status'[x] = "pending"
        PROVE  x \in raced
    <3>1. CASE AuthorOf[x] = job[h].target /\ job[h].at = "rows"
      BY <1>15, <2>2, <2>4, <3>1 DEF CommitRole
    <3>2. CASE AuthorOf[x] = job[h].target /\ job[h].at = "roled"
      <4>1. job[h].op \in {"user", "admin"}
        BY <3>2 DEF TypeOK, Job
      <4> QED
        BY <1>15, <2>4, <3>2, <4>1, SuggestionAssumption DEF CommitRole, TypeOK
    <3>3. CASE AuthorOf[x] # job[h].target
      <4>1. role[AuthorOf[x]] = "banned"
        BY <1>15, <2>4, <3>3, SuggestionAssumption DEF CommitRole, TypeOK
      <4> QED
        BY <2>2, <2>4, <4>1
    <3> QED
      BY <1>15, <3>1, <3>2, <3>3 DEF CommitRole
  <2> QED
    BY <2>1, <2>2, <2>3, <2>4
<1>16. ASSUME NEW h \in Handler, Enter(h) \/ SetInViewer(h) PROVE BanInv'
  BY <1>16 DEF Enter, SetInViewer, Goto, End
<1>17. ASSUME NEW h \in Handler, GetQueue(h) PROVE BanInv'
  BY <1>17 DEF GetQueue, Goto, End
<1>18. ASSUME NEW h \in Handler, Refetch(h) PROVE BanInv'
  BY <1>18 DEF Refetch, Goto, End
<1>19. ASSUME NEW h \in Handler, Load(h) PROVE BanInv'
  BY <1>19 DEF Load, Goto, End
<1>20. ASSUME NEW h \in Handler, SeedQueue(h) PROVE BanInv'
  BY <1>20, AdvanceFields DEF SeedQueue, Goto, End
<1>21. ASSUME NEW h \in Handler, Pop(h) PROVE BanInv'
  BY <1>21 DEF Pop, Goto, End
<1>22. ASSUME NEW h \in Handler, FromQueue(h) PROVE BanInv'
  BY <1>22 DEF FromQueue, Goto, End
<1>23. ASSUME NEW h \in Handler, SendToAdmin(h) PROVE BanInv'
  BY <1>23 DEF SendToAdmin, Goto, End
<1>24. ASSUME NEW h \in Handler, SetCurrent(h) PROVE BanInv'
  BY <1>24 DEF SetCurrent, Goto, End
<1>25. ASSUME NEW h \in Handler, ReturnToMenu(h) PROVE BanInv'
  BY <1>25 DEF ReturnToMenu, Goto, End
<1>26. CASE UNCHANGED vars
  BY <1>26 DEF vars, Pending
<1> QED
  BY <1>1, <1>2, <1>3, <1>4, <1>5, <1>6, <1>7, <1>8, <1>9, <1>10, <1>11, <1>12,
     <1>13, <1>14, <1>15, <1>16, <1>17, <1>18, <1>19, <1>20, <1>21, <1>22, <1>23,
     <1>24, <1>25, <1>26 DEF Next, Step

-----------------------------------------------------------------------------
LEMMA InvInit == Init => IInv
<1> SUFFICES ASSUME Init PROVE IInv
  OBVIOUS
<1>1. TypeOK
  BY TypeInit
<1>2. LockInv
  BY IdleFields DEF Init, LockInv
<1>3. DispatchInv
  BY IdleFields DEF Init, DispatchInv
<1>4. ShownInv
  BY IdleFields DEF Init, ShownInv, JudgedWasShown, NoData
<1>5. BanInv
  BY IdleFields DEF Init, BanInv, BannedHasNothingPending, Pending
<1> QED
  BY <1>1, <1>2, <1>3, <1>4, <1>5 DEF IInv

LEMMA InvStep == IInv /\ [Next]_vars => IInv'
  BY TypeStep, LockStep, DispatchStep, ShownStep, BanStep DEF IInv

LEMMA Inductive == Spec => []IInv
  BY InvInit, InvStep, PTL DEF Spec

\* Whatever double taps, refills, failed sends and lost FSM writes do, an admin's
\* verdict is on a suggestion this bot has sent to that admin.
THEOREM VerdictsOnWhatWasShown == Spec => []JudgedWasShown
<1>1. IInv => JudgedWasShown
  BY DEF IInv, ShownInv
<1> QED
  BY <1>1, Inductive, PTL

\* A ban leaves nothing of its author in the queue, submissions apart that were
\* under way when it was committed.
THEOREM BanEmptiesTheQueue == Spec => []BannedHasNothingPending
<1>1. IInv => BannedHasNothingPending
  BY DEF IInv, BanInv
<1> QED
  BY <1>1, Inductive, PTL

-----------------------------------------------------------------------------
(***************************************************************************)
(* Refinement: one step of a handler is one step of the lifecycle, or      *)
(* changes nothing of it.                                                  *)
(***************************************************************************)
LEMMA RefineInit == Init => Lifecycle!Init
  BY DEF Init, Lifecycle!Init, Committed

LEMMA RefineStep == IInv /\ [Next]_vars => [Lifecycle!Next]_(Lifecycle!vars)
<1> SUFFICES ASSUME IInv, [Next]_vars
             PROVE  Lifecycle!Next \/ UNCHANGED <<Committed, dispatched>>
  BY DEF Lifecycle!vars
<1> USE DEF database, fsm, history
<1>t. /\ status \in [Suggestion -> Status] /\ dispatched \in [Suggestion -> Nat]
      /\ TypeOK /\ LockInv /\ DispatchInv
  BY DEF IInv, TypeOK
<1>1. CASE UNCHANGED <<status, dispatched>>
  BY <1>1 DEF Committed
<1>2. ASSUME NEW h \in Handler, NEW x \in Suggestion, Create(h, x)
      PROVE  UNCHANGED <<Committed, dispatched>>
  BY <1>2, <1>t DEF Create, Committed
<1>3. ASSUME NEW h \in Handler, CommitSubmission(h) PROVE Lifecycle!Next
  <2>1. job[h].on \in Suggestion /\ status[job[h].on] = "inserting"
    BY <1>3, <1>t, JobFields DEF CommitSubmission, LockInv, WithSuggestion
  <2>2. Lifecycle!Submit(job[h].on)
    BY <1>3, <1>t, <2>1 DEF CommitSubmission, Lifecycle!Submit, Committed
  <2> QED
    BY <2>1, <2>2 DEF Lifecycle!Next
<1>4. ASSUME NEW h \in Handler, CommitVerdict(h) PROVE Lifecycle!Next
  <2>1. /\ job[h].on \in Suggestion /\ status[job[h].on] = "pending"
        /\ job[h].op \in Verdict
    BY <1>4, <1>t, JobFields DEF CommitVerdict, LockInv, WithSuggestion, TypeOK, Job
  <2>2. CASE job[h].op = "accepted"
    <3>1. Lifecycle!Accept(job[h].on)
      BY <1>4, <1>t, <2>1, <2>2 DEF CommitVerdict, Lifecycle!Accept, Committed
    <3> QED
      BY <2>1, <3>1 DEF Lifecycle!Next
  <2>3. CASE job[h].op = "declined"
    <3>1. Lifecycle!Decline({job[h].on})
      BY <1>4, <1>t, <2>1, <2>3 DEF CommitVerdict, Lifecycle!Decline, Committed
    <3> QED
      BY <2>1, <3>1 DEF Lifecycle!Next
  <2> QED
    BY <2>1, <2>2, <2>3
<1>5. ASSUME NEW h \in Handler, CommitRole(h) PROVE Lifecycle!Next
  <2>1. held[h] \subseteq Suggestion /\ \A x \in held[h] : status[x] = "pending"
    BY <1>5, <1>t DEF CommitRole, LockInv, TypeOK
  <2>2. Lifecycle!Decline(held[h])
    BY <1>5, <1>t, <2>1 DEF CommitRole, Lifecycle!Decline, Committed
  <2> QED
    BY <2>1, <2>2 DEF Lifecycle!Next
<1>6. ASSUME NEW h \in Handler, Dispatch(h) PROVE Lifecycle!Next
  <2>1. /\ job[h].on \in Suggestion /\ status[job[h].on] = "accepted"
        /\ dispatched[job[h].on] = 0
    BY <1>6, <1>t, JobFields DEF Dispatch, DispatchInv, WithSuggestion
  <2>2. Lifecycle!Dispatch(job[h].on)
    BY <1>6, <1>t, <2>1 DEF Dispatch, Lifecycle!Dispatch, Committed
  <2> QED
    BY <2>1, <2>2 DEF Lifecycle!Next
<1>7. ASSUME NEW h \in Handler, Fail(h) PROVE UNCHANGED <<Committed, dispatched>>
  BY <1>7, <1>t DEF Fail, Committed
<1>8. ASSUME NEW h \in Handler, Step(h), ~UNCHANGED <<status, dispatched>>
      PROVE  Lifecycle!Next \/ UNCHANGED <<Committed, dispatched>>
  BY <1>2, <1>3, <1>4, <1>5, <1>6, <1>8
  DEF Step, DeclineRow, Reject, GetCurrent, Judge, ChangeRole, DeclineSuggestion, Enter,
      SetInViewer, GetQueue, Refetch, Load, SeedQueue, Pop, FromQueue, SendToAdmin, SetCurrent,
      SetViewerState, ReturnToMenu, ClearData
<1>9. ASSUME NEW h \in Handler, NEW u \in User, Receive(h, u)
      PROVE  UNCHANGED <<status, dispatched>>
  BY <1>9, <1>t, JobFields, ReceiveFields
<1> QED
  BY <1>1, <1>7, <1>8, <1>9
  DEF Next, DemoteAdmins, vars

\* Seen from outside its transactions moderation is the lifecycle of a suggestion:
\* at most one verdict, never revised, and at most one publication task, after it.
THEOREM ModerationImplementsLifecycle == Spec => ImplementsLifecycle
<1>1. Init => Lifecycle!Init
  BY RefineInit
<1>2. IInv /\ [Next]_vars => [Lifecycle!Next]_(Lifecycle!vars)
  BY RefineStep
<1> QED
  BY <1>1, <1>2, Inductive, PTL DEF Spec, ImplementsLifecycle, Lifecycle!Spec

-----------------------------------------------------------------------------
(***************************************************************************)
(* The pipeline.                                                           *)
(***************************************************************************)
TaskType ==
    /\ ready \in [Suggestion -> Nat] /\ unacked \in [Suggestion -> Nat]
    /\ running \in [Suggestion -> Nat] /\ sent \in [Suggestion -> Nat]
    /\ ended \in [Suggestion -> Nat] /\ posts \in [Suggestion -> Nat]
    /\ redelivered \in [Suggestion -> Nat] /\ failed \subseteq Suggestion

\* Each message and each execution before its post stems from a dispatch or a redelivery.
Counted(x) ==
    /\ dispatched[x] \in {0, 1}
    /\ ready[x] + running[x] + posts[x] <= dispatched[x] + redelivered[x]
    /\ dispatched[x] = 0 => ready[x] = 0 /\ running[x] = 0 /\ posts[x] = 0 /\ unacked[x] = 0

CountInv == TaskType /\ \A x \in Suggestion : Counted(x)

LEMMA CountInit == PipelineInit => IInv /\ CountInv
<1> SUFFICES ASSUME PipelineInit PROVE IInv /\ CountInv
  OBVIOUS
<1>1. IInv
  BY InvInit DEF PipelineInit
<1>2. CountInv
  BY TaskAssumption DEF PipelineInit, Init, TaskInit, Zero, CountInv, TaskType, Counted
<1> QED
  BY <1>1, <1>2

\* The worker does nothing to the moderation.
LEMMA WorkCounts ==
  ASSUME CountInv, Work
  PROVE  CountInv'
<1> USE DEF Inc, Dec
<1>1. PICK x \in Suggestion : WorkerStep(x) \/ Redeliver(x) \/ WorkerCrash(x)
  BY TaskAssumption DEF Work, TaskNext
<1>2. dispatched' = dispatched
  BY DEF Work, vars, history
<1>3. TaskType /\ \A y \in Suggestion : Counted(y)
  BY DEF CountInv
<1>4. ASSUME TaskType', Counted(x)',
             \A y \in Suggestion \ {x} :
                 ready'[y] = ready[y] /\ running'[y] = running[y] /\ posts'[y] = posts[y]
                 /\ unacked'[y] = unacked[y] /\ redelivered'[y] = redelivered[y]
      PROVE  CountInv'
  BY <1>2, <1>3, <1>4 DEF CountInv, Counted
<1> USE DEF TaskType
<1>5. CASE Deliver(x)
  <2>1. TaskType' /\ Counted(x)'
    BY <1>2, <1>3, <1>5 DEF Deliver, Counted
  <2> QED
    BY <1>3, <1>4, <1>5, <2>1 DEF Deliver
<1>6. CASE Post(x)
  <2>1. TaskType' /\ Counted(x)'
    BY <1>2, <1>3, <1>6 DEF Post, Counted
  <2> QED
    BY <1>3, <1>4, <1>6, <2>1 DEF Post
<1>7. CASE NotifyAuthor(x)
  <2>1. TaskType'
    BY <1>3, <1>7 DEF NotifyAuthor
  <2>2. Counted(x)'
    BY <1>2, <1>3, <1>7 DEF NotifyAuthor, Counted
  <2> QED
    BY <1>3, <1>4, <1>7, <2>1, <2>2 DEF NotifyAuthor
<1>8. CASE Ack(x)
  <2>1. TaskType' /\ Counted(x)'
    BY <1>2, <1>3, <1>8 DEF Ack, Counted
  <2> QED
    BY <1>3, <1>4, <1>8, <2>1 DEF Ack
<1>9. CASE Redeliver(x)
  <2>1. TaskType' /\ Counted(x)'
    BY <1>2, <1>3, <1>9 DEF Redeliver, Counted
  <2> QED
    BY <1>3, <1>4, <1>9, <2>1 DEF Redeliver
<1>10. CASE WorkerCrash(x)
  <2>1. TaskType' /\ Counted(x)'
    BY <1>2, <1>3, <1>10 DEF WorkerCrash, Counted
  <2> QED
    BY <1>3, <1>4, <1>10, <2>1 DEF WorkerCrash
<1> QED
  BY <1>1, <1>5, <1>6, <1>7, <1>8, <1>9, <1>10 DEF WorkerStep

\* A dispatch is the first one of its suggestion, and enqueues one message.
LEMMA DispatchCounts ==
  ASSUME IInv, CountInv, NEW h \in Handler, Dispatch(h), Enqueue(job[h].on)
  PROVE  CountInv'
<1> DEFINE x == job[h].on
<1>1. x \in Suggestion /\ dispatched[x] = 0 /\ dispatched \in [Suggestion -> Nat]
  BY JobFields DEF IInv, TypeOK, DispatchInv, Dispatch, WithSuggestion
<1>2. dispatched' = [dispatched EXCEPT ![x] = @ + 1]
  BY DEF Dispatch
<1>3. /\ ready' = [ready EXCEPT ![x] = @ + 1]
      /\ UNCHANGED <<unacked, running, sent, ended, posts, redelivered, failed>>
  BY DEF Enqueue, Inc
<1> HIDE DEF x
<1>4. TaskType'
  BY <1>1, <1>3 DEF CountInv, TaskType
<1>5. ASSUME NEW y \in Suggestion PROVE Counted(y)'
  BY <1>1, <1>2, <1>3 DEF CountInv, TaskType, Counted
<1> QED
  BY <1>4, <1>5 DEF CountInv

LEMMA PipelineStep == IInv /\ CountInv /\ [PipelineNext]_pipelineVars => IInv' /\ CountInv'
<1> SUFFICES ASSUME IInv, CountInv, [PipelineNext]_pipelineVars PROVE IInv' /\ CountInv'
  OBVIOUS
<1>1. [Next]_vars
  BY DEF PipelineNext, Moderate, Work, pipelineVars, Next, Step
<1>2. IInv'
  BY <1>1, InvStep
<1>3. CASE UNCHANGED <<dispatched, taskVars>>
  BY <1>2, <1>3 DEF CountInv, TaskType, Counted, taskVars
<1>4. CASE \E h \in Handler : Dispatch(h) /\ Enqueue(job[h].on)
  BY <1>2, <1>4, DispatchCounts
<1>5. CASE Work
  BY <1>2, <1>5, WorkCounts
<1>6. CountInv'
  <2>1. UNCHANGED pipelineVars => UNCHANGED <<dispatched, taskVars>>
    BY DEF pipelineVars, vars, history
  <2> QED
    BY <1>3, <1>4, <1>5, <2>1 DEF PipelineNext, Moderate
<1> QED
  BY <1>2, <1>6

\* All that is proved of the handlers alone is true of them beside the worker.
THEOREM PipelineModerates == PipelineSpec => Spec
<1>1. PipelineInit => Init
  BY DEF PipelineInit
<1>2. [PipelineNext]_pipelineVars => [Next]_vars
  BY DEF PipelineNext, Moderate, Work, pipelineVars, Next, Step
<1> QED
  BY <1>1, <1>2, PTL DEF PipelineSpec, Spec

LEMMA PipelineInductive == PipelineSpec => [](IInv /\ CountInv)
  BY CountInit, PipelineStep, PTL DEF PipelineSpec

\* Whatever handlers, redeliveries and crashes do, the channel only shows accepted
\* suggestions, each at most once and once more for each redelivery.
THEOREM ChannelShowsAccepted == PipelineSpec => []PostsAreAccepted
<1>1. IInv /\ CountInv => PostsAreAccepted
  <2> SUFFICES ASSUME IInv, CountInv, NEW x \in Suggestion
               PROVE  (posts[x] > 0 => status[x] = "accepted") /\ posts[x] <= 1 + redelivered[x]
    BY DEF PostsAreAccepted
  <2>1. Counted(x) /\ ready[x] \in Nat /\ running[x] \in Nat /\ posts[x] \in Nat /\ redelivered[x] \in Nat
    BY DEF CountInv, TaskType
  <2>2. posts[x] > 0 => dispatched[x] # 0
    BY <2>1 DEF Counted
  <2>3. dispatched[x] # 0 => status[x] = "accepted"
    BY DEF IInv, DispatchInv
  <2>4. posts[x] <= 1 + redelivered[x]
    BY <2>1 DEF Counted
  <2> QED
    BY <2>2, <2>3, <2>4
<1> QED
  BY <1>1, PipelineInductive, PTL
=============================================================================
