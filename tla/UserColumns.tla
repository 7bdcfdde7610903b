---------------------------- MODULE UserColumns ----------------------------
(***************************************************************************)
(* The columns of one user's rows: user(name, language) and, in a userbot, *)
(* user_profile(role, blocked, anonymous).  Who writes them: every update  *)
(* of the user, in UserMiddleware and once more in the handler of a tap    *)
(* on a setting; the update about a blocked bot; an admin.                 *)
(*                                                                         *)
(* All work on DTOs, copies of a row or of its cached entry.  A save       *)
(* writes the columns that were assigned since the DTO was made, and the   *)
(* same DTO is saved twice in an update: before the handler, and by it.    *)
(* UserMiddleware reads before the lock of the dialog's stack is taken, so *)
(* taps that come together read together and then write one by one.        *)
(*                                                                         *)
(* A transaction that only reads fills the cache when it is over, with     *)
(* what it has read (CacheCoherence has the other ways to be stale).       *)
(***************************************************************************)
EXTENDS Naturals, FiniteSets

CONSTANTS
    Request,     \* updates of the user being handled at a time
    Name,
    Language,
    DefaultLanguage,
    MaxUpdates,  \* bound: updates of the user
    MaxEvents,   \* bound: blocks of the bot and changes of role, each
    NoRow,
    NoEntry

ASSUME LanguageAssumption ==
    DefaultLanguage \in Language /\ Language \intersect {"none", "toggle"} = {}
ASSUME NameAssumption == Name # {}
ASSUME RowAssumption ==
    /\ NoRow \notin [name : Name, language : Language, role : {"user", "banned"},
                     blocked : BOOLEAN, anonymous : BOOLEAN]
    /\ NoEntry \notin [name : Name, language : Language]
    /\ NoEntry \notin [role : {"user", "banned"}, blocked : BOOLEAN, anonymous : BOOLEAN]
ASSUME BoundAssumption == MaxUpdates \in Nat /\ MaxEvents \in Nat

VARIABLES
    row,          \* both rows as one, joined as UserProfileRepository.get_by_id does
    userEntry, profileEntry, \* the cached DTOs
    request,
    blocking,     \* my_chat_member updates about a blocked bot, being handled
    said,         \* history: the name and the state of the block the user was last heard with
    decided,      \* history: role, anonymity and language as last decided
    excused,      \* history: columns that may differ from what was said, see Arrive
    late,         \* history: columns of the entries that were stored after the row had changed
    updates, blocks, changes \* history: their numbers

cache == <<userEntry, profileEntry, late>>
history == <<said, decided, excused, updates, blocks, changes>>
vars == <<row, cache, request, blocking, history>>

Role == {"user", "banned"}
Row == [name : Name, language : Language, role : Role, blocked : BOOLEAN, anonymous : BOOLEAN]
Columns == [user |-> {"name", "language"}, profile |-> {"role", "blocked", "anonymous"}]
Acts == {"none", "toggle"} \union Language

\* Mutant: the cached form of a user is without the language.
MutUserPart(r) == [name |-> r.name]

UserPart(r) == [name |-> r.name, language |-> r.language]
ProfilePart(r) == [role |-> r.role, blocked |-> r.blocked, anonymous |-> r.anonymous]

NewRow(n) == [name |-> n, language |-> DefaultLanguage, role |-> "user",
              blocked |-> FALSE, anonymous |-> FALSE]
Blank == NewRow(CHOOSE n \in Name : TRUE)

(***************************************************************************)
(* An update: its name and what the handler is asked to do, the DTOs, the  *)
(* columns assigned, and the journalled operation on each entry.  barred:  *)
(* it came when a ban stood that no copy of the row denied.  clean: no     *)
(* other tap is or was being handled, and no copy of the row is stale.     *)
(***************************************************************************)
Table == {"user", "profile"}
NoOps == [t \in Table |-> "none"]
Drops == [t \in Table |-> "delete"]

Idle == [at |-> "idle", act |-> "none", dto |-> Blank, changed |-> {}, journal |-> NoOps,
         barred |-> FALSE, clean |-> FALSE]

Init ==
    /\ row \in {NoRow, Blank} /\ userEntry = NoEntry /\ profileEntry = NoEntry
    /\ request = [r \in Request |-> Idle]
    /\ blocking = 0
    /\ said = [name |-> Blank.name, blocked |-> FALSE]
    /\ decided = [role |-> "user", anonymous |-> FALSE, language |-> DefaultLanguage]
    /\ excused = {} /\ late = {}
    /\ updates = 0 /\ blocks = 0 /\ changes = 0

InFlight == {r \in Request : request[r].at # "idle"}
Taps(r) == request[r].act # "none"

-----------------------------------------------------------------------------
(***************************************************************************)
(* A save, and what is left of the cache: the columns that were assigned,  *)
(* and the entries the journal of the transaction deletes or sets.         *)
(***************************************************************************)
\* Mutant: the whole DTO is written.
MutWrite(dto, changed) ==
    row' = IF changed = {} THEN row ELSE dto

Write(dto, changed) ==
    row' = [c \in DOMAIN row |-> IF c \in changed THEN dto[c] ELSE row[c]]

\* Mutant: a table that was written keeps its entry.
MutJournal(ops, changed) == ops

Journal(ops, changed) ==
    [t \in Table |-> IF changed \intersect Columns[t] # {} THEN "delete" ELSE ops[t]]

Flush(ops, dto) ==
    /\ userEntry' = CASE ops["user"] = "delete" -> NoEntry
                      [] ops["user"] = "set" -> UserPart(dto)
                      [] OTHER -> userEntry
    /\ profileEntry' = CASE ops["profile"] = "delete" -> NoEntry
                         [] ops["profile"] = "set" -> ProfilePart(dto)
                         [] OTHER -> profileEntry
    /\ late' = {c \in late : \A t \in Table : ops[t] # "none" => c \notin Columns[t]}
               \union {c \in DOMAIN dto : /\ \E t \in Table : c \in Columns[t] /\ ops[t] = "set"
                                          /\ dto[c] # row'[c]}
-----------------------------------------------------------------------------
(***************************************************************************)
(* A copy of column c is out of date: an entry that was stored late, or    *)
(* the DTO of an update that is going to store it late.                    *)
(***************************************************************************)
StaleIn(c) ==
    \/ c \in late
    \/ \E r \in Request, t \in Table :
          c \in Columns[t] /\ request[r].journal[t] = "set" /\ request[r].dto[c] # row[c]

(***************************************************************************)
(* An update of the user arrives, with the name the user has now.  The     *)
(* stored name or block may come to differ from what the user was last     *)
(* heard with only if updates that say different things are handled at the *)
(* same time, or if a copy is stale: excused.                              *)
(***************************************************************************)
Excused(n) ==
    {c \in {"name", "blocked"} :
        \/ c = "name" /\ \E q \in InFlight : request[q].dto.name # n
        \/ c = "blocked" /\ blocking > 0
        \/ c \in excused /\ InFlight # {}
        \/ row # NoRow /\ StaleIn(c)}

Arrive(r, n, act) ==
    /\ request[r].at = "idle" /\ updates < MaxUpdates
    /\ updates' = updates + 1
    /\ excused' = Excused(n)
    /\ request' = [q \in Request |->
          IF q = r
          THEN [Idle EXCEPT !.at = "arrived", !.act = act, !.dto.name = n,
                            !.barred = row # NoRow /\ row.role = "banned" /\ ~ StaleIn("role"),
                            !.clean = /\ \A p \in InFlight : ~ Taps(p)
                                      /\ row # NoRow
                                      /\ ~ StaleIn("anonymous") /\ ~ StaleIn("language")]
          ELSE [request[q] EXCEPT !.clean = @ /\ act = "none"]]
    /\ said' = [name |-> n, blocked |-> FALSE]
    /\ UNCHANGED <<row, cache, blocking, decided, blocks, changes>>

(***************************************************************************)
(* UserRegisterOrUpdateUseCase, in the transaction of UserMiddleware: the  *)
(* DTOs come from the cache or from the rows, then the name is compared    *)
(* and the block undone.                                                   *)
(***************************************************************************)
Loaded ==
    [c \in DOMAIN row |->
        IF c \in Columns["user"] THEN IF userEntry # NoEntry THEN userEntry[c] ELSE row[c]
        ELSE IF profileEntry # NoEntry THEN profileEntry[c] ELSE row[c]]

Misses ==
    [t \in Table |-> IF (IF t = "user" THEN userEntry ELSE profileEntry) = NoEntry
                     THEN "set" ELSE "none"]

\* Mutant: an update does not undo the block.
MutKeepsBlock(n, dto) == {c \in {"name"} : dto.name # n}

Updated(n, dto) ==
    {c \in {"name", "blocked"} : IF c = "name" THEN dto.name # n ELSE dto.blocked}

TakeDto(r, dto, ops) ==
    LET n == request[r].dto.name
        changed == Updated(n, dto)
    IN  /\ request' = [request EXCEPT
              ![r].at = "read", ![r].changed = changed, ![r].journal = Journal(ops, changed),
              ![r].dto = [dto EXCEPT !.name = n,
                                     !.blocked = @ /\ "blocked" \notin changed]]
        /\ UNCHANGED <<row, cache, blocking, history>>

Read(r) ==
    /\ request[r].at = "arrived" /\ row # NoRow
    /\ TakeDto(r, Loaded, Misses)

(***************************************************************************)
(* No row: get_or_create inserts it, or waits for an insert that is under  *)
(* way and then takes the user's row; the profile is there by then.  Both  *)
(* rows are inserted or neither: a user who comes from another userbot,    *)
(* with a row of the user and none of the profile, is left out.            *)
(***************************************************************************)
Inserting == \E q \in Request : request[q].at = "insert"

Insert(r) ==
    /\ request[r].at \in {"arrived", "waits"} /\ row = NoRow
    /\ request' = IF Inserting
                  THEN [request EXCEPT ![r].at = "waits"]
                  ELSE [request EXCEPT ![r].at = "insert", ![r].journal = Drops,
                                       ![r].dto = NewRow(request[r].dto.name)]
    /\ UNCHANGED <<row, cache, blocking, history>>

ReadAfterInsert(r) ==
    /\ request[r].at = "waits" /\ row # NoRow
    /\ TakeDto(r, [Loaded EXCEPT !.name = row.name, !.language = row.language],
                  [Misses EXCEPT !["user"] = "delete"])

(***************************************************************************)
(* The transaction commits; BanCheckMiddleware stops who is banned.        *)
(***************************************************************************)
\* Mutant: BanCheckMiddleware is not registered.
MutPassesBanCheck(dto) == TRUE

PassesBanCheck(dto) == dto.role # "banned"

Commit(r) ==
    LET q == request[r]
    IN  /\ q.at \in {"read", "insert"}
        /\ IF q.at = "insert" THEN row' = q.dto ELSE Write(q.dto, q.changed)
        /\ Flush(q.journal, q.dto)
        /\ request' = [request EXCEPT
              ![r] = IF PassesBanCheck(q.dto) THEN [q EXCEPT !.at = "act", !.journal = NoOps]
                                              ELSE Idle]
        /\ UNCHANGED <<blocking, history>>

(***************************************************************************)
(* The handler: nothing that is about these columns, or a setting.  It     *)
(* assigns the DTO of the middleware and saves it: what the middleware     *)
(* had assigned is written again.                                          *)
(***************************************************************************)
Save(r, c, value) ==
    LET dto == [request[r].dto EXCEPT ![c] = value]
        ofTable == IF c = "language" THEN Columns["user"] ELSE Columns["profile"]
        changed == (request[r].changed \intersect ofTable) \union {c}
    IN  /\ Write(dto, changed)
        /\ Flush(Journal(NoOps, changed), dto)
        /\ decided' = [decided EXCEPT ![c] = value]

Nothing(r) ==
    /\ request[r].at = "act"
    /\ \/ ~ Taps(r)
       \/ request[r].act = request[r].dto.language
    /\ request' = [request EXCEPT ![r] = Idle]
    /\ UNCHANGED <<row, cache, blocking, history>>

PreferAnonToggle(r) ==
    /\ request[r].at = "act" /\ request[r].act = "toggle"
    /\ Save(r, "anonymous", ~ request[r].dto.anonymous)
    /\ request' = [request EXCEPT ![r] = Idle]
    /\ UNCHANGED <<blocking, said, excused, updates, blocks, changes>>

LanguageSelected(r) ==
    /\ request[r].at = "act" /\ request[r].act \in Language \ {request[r].dto.language}
    /\ Save(r, "language", request[r].act)
    /\ request' = [request EXCEPT ![r] = Idle]
    /\ UNCHANGED <<blocking, said, excused, updates, blocks, changes>>

(***************************************************************************)
(* A handler fails: its transaction is rolled back.                        *)
(***************************************************************************)
Fail(r) ==
    /\ request[r].at # "idle"
    /\ request' = [request EXCEPT ![r] = Idle]
    /\ excused' = IF request[r].at = "act" THEN excused ELSE {"name", "blocked"}
    /\ UNCHANGED <<row, cache, blocking, said, decided,
                   updates, blocks, changes>>

(***************************************************************************)
(* The user blocks the bot: an update matches no row before the first one. *)
(***************************************************************************)
BlockArrive ==
    /\ blocks < MaxEvents
    /\ blocks' = blocks + 1
    /\ blocking' = blocking + 1
    /\ said' = [said EXCEPT !.blocked = TRUE]
    /\ excused' = IF InFlight # {} THEN excused \union {"blocked"}
                                   ELSE excused \ {"blocked"}
    /\ UNCHANGED <<row, cache, request, decided, updates, changes>>

OnUserBlockBot ==
    /\ blocking > 0
    /\ blocking' = blocking - 1
    /\ IF row = NoRow THEN row' = row ELSE Write([row EXCEPT !.blocked = TRUE], {"blocked"})
    /\ Flush(Journal(NoOps, {"blocked"}), Blank)
    /\ UNCHANGED <<request, history>>

(***************************************************************************)
(* An admin bans or unbans: the DTO is read, its role assigned and saved.  *)
(***************************************************************************)
ChangeRole(role) ==
    /\ changes < MaxEvents /\ row # NoRow
    /\ changes' = changes + 1
    /\ Write([Loaded EXCEPT !.role = role], {"role"})
    /\ Flush(Journal(NoOps, {"role"}), Blank)
    /\ decided' = [decided EXCEPT !.role = role]
    /\ request' = [r \in Request |-> [request[r] EXCEPT !.barred = @ /\ role = "banned"]]
    /\ UNCHANGED <<blocking, said, excused, updates, blocks>>

Expire ==
    \E t \in Table :
        /\ UNCHANGED <<row, request, blocking, history>>
        /\ Flush([NoOps EXCEPT ![t] = "delete"], Blank)
-----------------------------------------------------------------------------
RequestStep(r) ==
    \/ \E n \in Name, act \in Acts : Arrive(r, n, act)
    \/ Read(r) \/ Insert(r) \/ ReadAfterInsert(r)
    \/ Commit(r)
    \/ Nothing(r) \/ PreferAnonToggle(r) \/ LanguageSelected(r)
    \/ Fail(r)

Next ==
    \/ \E r \in Request : RequestStep(r)
    \/ BlockArrive \/ OnUserBlockBot
    \/ \E role \in Role : ChangeRole(role)
    \/ Expire

Spec == Init /\ [][Next]_vars
-----------------------------------------------------------------------------
CachedUser == [name : Name, language : Language]
CachedProfile == [role : Role, blocked : BOOLEAN, anonymous : BOOLEAN]

Update ==
    [at : {"idle", "arrived", "waits", "read", "insert", "act"}, act : Acts, dto : Row,
     changed : SUBSET {"name", "blocked"}, journal : [Table -> {"none", "set", "delete"}],
     barred : BOOLEAN, clean : BOOLEAN]

TypeOK ==
    /\ row \in Row \union {NoRow}
    /\ userEntry \in CachedUser \union {NoEntry}
    /\ profileEntry \in CachedProfile \union {NoEntry}
    /\ request \in [Request -> Update]
    /\ late \subseteq Columns["user"] \union Columns["profile"]
    /\ said \in [name : Name, blocked : BOOLEAN]
    /\ decided \in [role : Role, anonymous : BOOLEAN, language : Language]
    /\ excused \subseteq {"name", "blocked"}
    /\ blocking \in Nat
    /\ updates \in 0 .. MaxUpdates /\ blocks \in 0 .. MaxEvents /\ changes \in 0 .. MaxEvents

(***************************************************************************)
(* No save undoes what another update or an admin decided about a column   *)
(* it did not assign itself: a ban survives the user's own saves, and a    *)
(* setting survives the saves of updates that hold an older copy.          *)
(***************************************************************************)
NothingClobbered ==
    row # NoRow =>
        /\ row.role = decided.role
        /\ row.anonymous = decided.anonymous
        /\ row.language = decided.language

(***************************************************************************)
(* When all has been handled, the row says whether the user blocked the    *)
(* bot, so that broadcasts go to those who can be reached, and has the     *)
(* name the user was last seen with; unless updates that said different    *)
(* things were handled at the same time or a copy was stale.               *)
(***************************************************************************)
Quiet == InFlight = {} /\ blocking = 0

RowFollows ==
    (Quiet /\ row # NoRow) =>
        /\ row.blocked = said.blocked \/ "blocked" \in excused
        /\ row.name = said.name \/ "name" \in excused

(***************************************************************************)
(* A tap on a setting that no other tap overlaps does what the user meant: *)
(* the stored flag flips, although the handler flips the copy the          *)
(* middleware read, and the stored language is the one of the button.      *)
(***************************************************************************)
TapsApply ==
    [][\A r \in Request : request[r].clean =>
          /\ PreferAnonToggle(r) => row'.anonymous = ~ row.anonymous
          /\ (Nothing(r) /\ Taps(r)) => row.language = request[r].act]_vars

(***************************************************************************)
(* A user whose ban was committed, with no stale copy about, when the      *)
(* update came is stopped before any handler, unless unbanned meanwhile.   *)
(***************************************************************************)
BannedIsStopped == \A r \in Request : request[r].barred => request[r].at # "act"
=============================================================================
