------------------------- MODULE UserColumns_proofs -------------------------
(***************************************************************************)
(* For every number of updates in flight and every set of names and        *)
(* languages: what was decided about a user is never undone by a save of   *)
(* another copy, the row follows what the user was heard with, whoever is  *)
(* banned is stopped, and a tap does what was meant.  The inductive        *)
(* invariant relates each DTO to the row it was made from: whether a       *)
(* column of a copy can be out of date (StaleIn), and who is still going   *)
(* to write it.                                                            *)
(***************************************************************************)
EXTENDS UserColumns, TLAPS

Column == {"name", "language", "role", "blocked", "anonymous"}
\* The table a column is in.
TableOf(c) == IF c \in {"name", "language"} THEN "user" ELSE "profile"

(***************************************************************************)
(* What an update holds on its way through UserMiddleware: columns are     *)
(* assigned and operations journalled between the read and the commit      *)
(* only, an operation on a table that is written is a deletion, one update *)
(* inserts at a time, and the DTO never says `blocked`.                    *)
(***************************************************************************)
RequestInv(r) ==
    LET q == request[r]
    IN  /\ q.at \in {"idle", "arrived", "waits"} => q.changed = {}
        /\ q.at \in {"idle", "arrived", "waits", "act"} => q.journal = NoOps
        /\ q.at = "read" => \A t \in Table :
              q.changed \intersect Columns[t] # {} => q.journal[t] = "delete"
        /\ q.at = "insert" => /\ q.changed = {} /\ q.journal = Drops
                              /\ q.dto = NewRow(q.dto.name) /\ row = NoRow
                              /\ \A p \in Request : request[p].at = "insert" => p = r
        /\ q.at \in {"read", "act"} => row # NoRow
        /\ q.dto.blocked = FALSE

(***************************************************************************)
(* The cached entries of user and profile agree with the rows, but for the *)
(* columns that are known to be late; before the first row there is        *)
(* neither an entry nor a decision.                                        *)
(***************************************************************************)
EntryInv ==
    /\ row = NoRow => /\ userEntry = NoEntry /\ profileEntry = NoEntry /\ late = {}
                      /\ decided = [role |-> "user", anonymous |-> FALSE,
                                    language |-> DefaultLanguage]
    /\ userEntry # NoEntry => \A c \in Columns["user"] \ late : userEntry[c] = row[c]
    /\ profileEntry # NoEntry => \A c \in Columns["profile"] \ late : profileEntry[c] = row[c]

(***************************************************************************)
(* A ban that no copy denied when the update came: no copy denies it       *)
(* since, so the DTO that BanCheckMiddleware looks at says it.             *)
(***************************************************************************)
BarredInv(r) ==
    request[r].barred =>
        /\ row # NoRow /\ row.role = "banned" /\ ~ StaleIn("role")
        /\ request[r].at \in {"arrived", "read"}
        /\ request[r].at = "read" => request[r].dto.role = "banned"

(***************************************************************************)
(* A tap that is alone: no copy of the settings is stale since, and from   *)
(* the read to the save its DTO has them as the row has.                   *)
(***************************************************************************)
CleanInv(r) ==
    request[r].clean =>
        /\ row # NoRow /\ ~ StaleIn("anonymous") /\ ~ StaleIn("language")
        /\ \A q \in InFlight : q # r => ~ Taps(q)
        /\ request[r].at \in {"arrived", "read", "act"}
        /\ request[r].at \in {"read", "act"} =>
              /\ request[r].dto.anonymous = row.anonymous
              /\ request[r].dto.language = row.language

(***************************************************************************)
(* An update that has not read yet, or has assigned the column, is going   *)
(* to write it.                                                            *)
(***************************************************************************)
WillWrite(q, c) ==
    \/ request[q].at \in {"arrived", "waits"}
    \/ request[q].at = "read" /\ c \in request[q].changed

(***************************************************************************)
(* Unless the column is excused, the updates in flight all bring what the  *)
(* user was last heard with, and the row has it or one of them is going to *)
(* write it.  After a block this is left to BlockInv.                      *)
(***************************************************************************)
HeardInv(c) ==
    c \notin excused /\ (c = "blocked" => ~ said.blocked) =>
        /\ \A q \in InFlight : request[q].dto[c] = said[c]
        /\ row # NoRow => /\ ~ StaleIn(c)
                          /\ row[c] = said[c] \/ \E q \in Request : WillWrite(q, c)

(***************************************************************************)
(* Unless the block is excused, it was heard when no update was in flight  *)
(* and is being handled, or was; after an update no block is being         *)
(* handled.                                                                *)
(***************************************************************************)
BlockInv ==
    "blocked" \notin excused =>
        IF said.blocked THEN InFlight = {} /\ (blocking = 0 /\ row # NoRow => row.blocked)
                        ELSE blocking = 0

IInv ==
    /\ TypeOK /\ NothingClobbered /\ EntryInv /\ BlockInv
    /\ \A r \in Request : RequestInv(r) /\ BarredInv(r) /\ CleanInv(r)
    /\ HeardInv("name") /\ HeardInv("blocked")
-----------------------------------------------------------------------------
LEMMA RowFields ==
    ASSUME NEW v \in Row
    PROVE  /\ DOMAIN v = Column
           /\ v["name"] \in Name /\ v["language"] \in Language /\ v["role"] \in Role
           /\ v["blocked"] \in BOOLEAN /\ v["anonymous"] \in BOOLEAN
  BY DEF Row, Column

LEMMA RowOf ==
    ASSUME NEW f, f = [c \in Column |-> f[c]],
           f["name"] \in Name, f["language"] \in Language, f["role"] \in Role,
           f["blocked"] \in BOOLEAN, f["anonymous"] \in BOOLEAN
    PROVE  f \in Row
  BY DEF Row, Column

LEMMA Nobody ==
    /\ NoRow \notin Row /\ NoEntry \notin CachedUser /\ NoEntry \notin CachedProfile
    /\ Blank \in Row /\ Blank.blocked = FALSE /\ \A n \in Name : NewRow(n) \in Row
  <1>1. NoRow \notin Row /\ NoEntry \notin CachedUser /\ NoEntry \notin CachedProfile
    BY RowAssumption DEF Row, CachedUser, CachedProfile, Role
  <1>2. ASSUME NEW n \in Name PROVE NewRow(n) \in Row /\ NewRow(n).blocked = FALSE
    BY LanguageAssumption DEF NewRow, Row, Role
  <1>3. (CHOOSE n \in Name : TRUE) \in Name
    BY NameAssumption
  <1> QED
    BY <1>1, <1>2, <1>3 DEF Blank

\* A save writes the columns that were assigned.
LEMMA Written ==
    ASSUME row \in Row, NEW dto \in Row, NEW changed, Write(dto, changed)
    PROVE  /\ row' \in Row
           /\ \A c \in Column : row'[c] = IF c \in changed THEN dto[c] ELSE row[c]
  <1>1. row' = [c \in Column |-> IF c \in changed THEN dto[c] ELSE row[c]]
    BY RowFields DEF Write
  <1>2. \A c \in Column : row'[c] = IF c \in changed THEN dto[c] ELSE row[c]
    BY <1>1
  <1>3. /\ row'["name"] \in Name /\ row'["language"] \in Language /\ row'["role"] \in Role
        /\ row'["blocked"] \in BOOLEAN /\ row'["anonymous"] \in BOOLEAN
    BY <1>2, RowFields DEF Column
  <1>4. row' = [c \in Column |-> row'[c]]
    BY <1>1
  <1> QED
    BY <1>2, <1>3, <1>4, RowOf

LEMMA Tables ==
    /\ Table = {"user", "profile"} /\ Columns["user"] = {"name", "language"}
    /\ Columns["profile"] = {"role", "blocked", "anonymous"}
    /\ NoOps["user"] = "none" /\ NoOps["profile"] = "none"
    /\ Drops["user"] = "delete" /\ Drops["profile"] = "delete"
    /\ "user" # "profile"
  BY DEF Table, Columns, NoOps, Drops

\* Whether a copy of a column is stale, in terms of its table.
LEMMA StaleColumn ==
    ASSUME NEW c \in Column
    PROVE  /\ StaleIn(c) <=>
                \/ c \in late
                \/ \E r \in Request : /\ request[r].journal[TableOf(c)] = "set"
                                      /\ request[r].dto[c] # row[c]
           /\ StaleIn(c)' <=>
                \/ c \in late'
                \/ \E r \in Request : /\ request'[r].journal[TableOf(c)] = "set"
                                      /\ request'[r].dto[c] # row'[c]
  <1>1. \A t \in Table : c \in Columns[t] <=> t = TableOf(c)
    BY Tables DEF Column, TableOf
  <1>2. TableOf(c) \in Table
    BY Tables DEF TableOf
  <1> QED
    BY <1>1, <1>2 DEF StaleIn

\* What a flush leaves of the cache.
LEMMA Flushed ==
    ASSUME TypeOK, NEW dto \in Row, NEW ops \in [Table -> {"none", "set", "delete"}],
           Flush(ops, dto)
    PROVE  /\ userEntry' \in CachedUser \union {NoEntry}
           /\ profileEntry' \in CachedProfile \union {NoEntry}
           /\ late' \subseteq Columns["user"] \union Columns["profile"]
           /\ userEntry' = IF ops["user"] = "delete" THEN NoEntry
                           ELSE IF ops["user"] = "set" THEN UserPart(dto) ELSE userEntry
           /\ profileEntry' = IF ops["profile"] = "delete" THEN NoEntry
                              ELSE IF ops["profile"] = "set" THEN ProfilePart(dto) ELSE profileEntry
           /\ \A c \in Column :
                 c \in late' <=> \/ ops[TableOf(c)] = "set" /\ dto[c] # row'[c]
                                 \/ ops[TableOf(c)] = "none" /\ c \in late
  <1>1. ops["user"] \in {"none", "set", "delete"} /\ ops["profile"] \in {"none", "set", "delete"}
    BY Tables
  <1>2. userEntry' = IF ops["user"] = "delete" THEN NoEntry
                     ELSE IF ops["user"] = "set" THEN UserPart(dto) ELSE userEntry
    BY <1>1 DEF Flush
  <1>3. profileEntry' = IF ops["profile"] = "delete" THEN NoEntry
                        ELSE IF ops["profile"] = "set" THEN ProfilePart(dto) ELSE profileEntry
    BY <1>1 DEF Flush
  <1>4. UserPart(dto) \in CachedUser /\ ProfilePart(dto) \in CachedProfile
    BY DEF Row, UserPart, ProfilePart, CachedUser, CachedProfile
  <1>5. /\ userEntry' \in CachedUser \union {NoEntry}
        /\ profileEntry' \in CachedProfile \union {NoEntry}
    BY <1>2, <1>3, <1>4 DEF TypeOK
  <1>6. late' = {c \in late : \A t \in Table : ops[t] # "none" => c \notin Columns[t]}
                \union {c \in Column : \E t \in Table : /\ c \in Columns[t] /\ ops[t] = "set"
                                                        /\ dto[c] # row'[c]}
    BY RowFields DEF Flush
  <1>7. late \subseteq Column /\ Columns["user"] \union Columns["profile"] = Column
    BY Tables DEF TypeOK, Column
  <1>8. ASSUME NEW c \in Column
        PROVE  c \in late' <=> \/ ops[TableOf(c)] = "set" /\ dto[c] # row'[c]
                               \/ ops[TableOf(c)] = "none" /\ c \in late
    <2>1. \A t \in Table : c \in Columns[t] <=> t = TableOf(c)
      BY Tables DEF Column, TableOf
    <2>2. TableOf(c) \in Table /\ ops[TableOf(c)] \in {"none", "set", "delete"}
      BY <1>1, Tables DEF TableOf
    <2> QED
      BY <1>6, <2>1, <2>2
  <1> QED
    BY <1>2, <1>3, <1>5, <1>6, <1>7, <1>8

\* A save and its flush: the entries are what the rows are but for late columns,
\* and no column gets stale that is as it was, or as all copies of it are.
LEMMA SavedFacts ==
    ASSUME IInv, row \in Row, row' \in Row, NEW dto \in Row,
           NEW ops \in [Table -> {"none", "set", "delete"}], Flush(ops, dto),
           \A c \in Column : ops[TableOf(c)] = "none" => row'[c] = row[c]
    PROVE  /\ EntryInv'
           /\ \A c \in Column :
                 /\ ~ StaleIn(c)
                 /\ ops[TableOf(c)] = "set" => dto[c] = row'[c]
                 /\ \A q \in Request : request'[q].journal[TableOf(c)] = "set" =>
                       /\ request[q].journal[TableOf(c)] = "set"
                       /\ request'[q].dto[c] = request[q].dto[c]
                       /\ row'[c] = row[c] \/ request[q].dto[c] = row'[c]
                 => ~ StaleIn(c)'
  <1>1. TypeOK /\ EntryInv /\ row' # NoRow /\ row # NoRow
    BY Nobody DEF IInv
  <1>2. ASSUME userEntry' # NoEntry, NEW c \in Columns["user"] \ late'
        PROVE  userEntry'[c] = row'[c]
    <2>1. c \in {"name", "language"} /\ c \in Column /\ TableOf(c) = "user"
      BY Tables DEF Column, TableOf
    <2>2. UserPart(dto)[c] = dto[c]
      BY <2>1 DEF UserPart
    <2>3. CASE ops["user"] = "set"
      BY <1>1, <1>2, <2>1, <2>2, <2>3, Flushed
    <2>4. CASE ops["user"] = "none"
      <3>1. userEntry' = userEntry /\ c \notin late /\ row'[c] = row[c]
        BY <1>1, <1>2, <2>1, <2>4, Flushed
      <3> QED
        BY <1>1, <1>2, <3>1, Tables DEF EntryInv
    <2>5. ops["user"] # "delete"
      BY <1>1, <1>2, Flushed
    <2> QED
      BY <2>3, <2>4, <2>5, Tables
  <1>3. ASSUME profileEntry' # NoEntry, NEW c \in Columns["profile"] \ late'
        PROVE  profileEntry'[c] = row'[c]
    <2>1. c \in {"role", "blocked", "anonymous"} /\ c \in Column /\ TableOf(c) = "profile"
      BY Tables DEF Column, TableOf
    <2>2. ProfilePart(dto)[c] = dto[c]
      BY <2>1 DEF ProfilePart
    <2>3. CASE ops["profile"] = "set"
      BY <1>1, <1>3, <2>1, <2>2, <2>3, Flushed
    <2>4. CASE ops["profile"] = "none"
      <3>1. profileEntry' = profileEntry /\ c \notin late /\ row'[c] = row[c]
        BY <1>1, <1>3, <2>1, <2>4, Flushed
      <3> QED
        BY <1>1, <1>3, <3>1, Tables DEF EntryInv
    <2>5. ops["profile"] # "delete"
      BY <1>1, <1>3, Flushed
    <2> QED
      BY <2>3, <2>4, <2>5, Tables
  <1>4. EntryInv'
    BY <1>1, <1>2, <1>3 DEF EntryInv
  <1>5. ASSUME NEW c \in Column, ~ StaleIn(c), ops[TableOf(c)] = "set" => dto[c] = row'[c],
               \A q \in Request : request'[q].journal[TableOf(c)] = "set" =>
                  /\ request[q].journal[TableOf(c)] = "set"
                  /\ request'[q].dto[c] = request[q].dto[c]
                  /\ row'[c] = row[c] \/ request[q].dto[c] = row'[c]
        PROVE  ~ StaleIn(c)'
    <2>1. c \notin late /\ \A r \in Request :
              request[r].journal[TableOf(c)] = "set" => request[r].dto[c] = row[c]
      BY <1>5, StaleColumn
    <2>2. c \notin late'
      BY <1>1, <1>5, <2>1, Flushed
    <2> QED
      BY <1>5, <2>1, <2>2, StaleColumn
  <1> QED
    BY <1>4, <1>5

\* The DTO that is read has every column of the row that is not late.
LEMMA LoadedFacts ==
    ASSUME IInv, row \in Row
    PROVE  /\ Loaded \in Row
           /\ \A c \in Column : c \notin late => Loaded[c] = row[c]
           /\ Misses \in [Table -> {"none", "set", "delete"}]
           /\ \A c \in Column : Misses[TableOf(c)] = "set" => Loaded[c] = row[c]
  <1> DEFINE Copy(c) == IF c \in Columns["user"]
                        THEN IF userEntry # NoEntry THEN userEntry[c] ELSE row[c]
                        ELSE IF profileEntry # NoEntry THEN profileEntry[c] ELSE row[c]
  <1>1. Loaded = [c \in Column |-> Copy(c)]
    BY RowFields DEF Loaded
  <1>2. \A c \in Column : Loaded[c] = Copy(c)
    BY <1>1
  <1>3. userEntry # NoEntry => userEntry["name"] \in Name /\ userEntry["language"] \in Language
    BY DEF IInv, TypeOK, CachedUser
  <1>4. profileEntry # NoEntry => /\ profileEntry["role"] \in Role
                                  /\ profileEntry["blocked"] \in BOOLEAN
                                  /\ profileEntry["anonymous"] \in BOOLEAN
    BY DEF IInv, TypeOK, CachedProfile
  <1>5. /\ Copy("name") \in Name /\ Copy("language") \in Language /\ Copy("role") \in Role
        /\ Copy("blocked") \in BOOLEAN /\ Copy("anonymous") \in BOOLEAN
    BY <1>3, <1>4, RowFields, Tables
  <1>6. Loaded \in Row
    <2>1. Loaded = [c \in Column |-> Loaded[c]]
      BY <1>1
    <2>2. /\ Loaded["name"] = Copy("name") /\ Loaded["language"] = Copy("language")
          /\ Loaded["role"] = Copy("role") /\ Loaded["blocked"] = Copy("blocked")
          /\ Loaded["anonymous"] = Copy("anonymous")
      BY <1>2 DEF Column
    <2> HIDE DEF Copy
    <2> QED
      BY <1>5, <2>1, <2>2, RowOf
  <1>7. \A c \in Column : c \notin late => Loaded[c] = row[c]
    BY <1>2, Tables DEF IInv, EntryInv, Column
  <1>8. /\ Misses \in [Table -> {"none", "set", "delete"}]
        /\ Misses["user"] = "set" => userEntry = NoEntry
        /\ Misses["profile"] = "set" => profileEntry = NoEntry
    BY Tables DEF Misses
  <1>9. \A c \in Column : Misses[TableOf(c)] = "set" => Loaded[c] = row[c]
    BY <1>2, <1>8, Tables DEF TableOf, Column
  <1> QED
    BY <1>6, <1>7, <1>8, <1>9

LEMMA JournalFacts ==
    ASSUME NEW ops \in [Table -> {"none", "set", "delete"}], NEW changed
    PROVE  /\ Journal(ops, changed) \in [Table -> {"none", "set", "delete"}]
           /\ \A t \in Table : Journal(ops, changed)[t] =
                 IF changed \intersect Columns[t] # {} THEN "delete" ELSE ops[t]
  BY DEF Journal

\* The DTO that UserMiddleware assigns and the operations it journals.
Assigned(n, dto) == [dto EXCEPT !.name = n,
                                !.blocked = @ /\ "blocked" \notin Updated(n, dto)]

LEMMA TakenFacts ==
    ASSUME NEW n \in Name, NEW dto \in Row
    PROVE  /\ Assigned(n, dto) \in Row /\ Assigned(n, dto).name = n
           /\ Assigned(n, dto).blocked = FALSE /\ Assigned(n, dto).language = dto.language
           /\ Assigned(n, dto).role = dto.role /\ Assigned(n, dto).anonymous = dto.anonymous
           /\ Updated(n, dto) \subseteq {"name", "blocked"}
           /\ dto.name # n <=> "name" \in Updated(n, dto)
           /\ dto.blocked = TRUE <=> "blocked" \in Updated(n, dto)
           /\ \A c \in Column : c \in Updated(n, dto) \/ Assigned(n, dto)[c] = dto[c]
  <1> DEFINE new == Assigned(n, dto)
             b == dto.blocked /\ "blocked" \notin Updated(n, dto)
  <1>1. /\ Updated(n, dto) \subseteq {"name", "blocked"}
        /\ dto.name # n <=> "name" \in Updated(n, dto)
        /\ dto.blocked <=> "blocked" \in Updated(n, dto)
    BY DEF Updated
  <1>2. dto.blocked \in BOOLEAN
    BY RowFields
  <1>3. b = FALSE
    BY <1>1
  <1>4. new = [dto EXCEPT !.name = n, !.blocked = b]
    BY DEF Assigned
  <1> HIDE DEF new, b
  <1>5. new = [dto EXCEPT !.name = n, !.blocked = FALSE]
    BY <1>3, <1>4
  <1>6. /\ new \in Row /\ new.name = n /\ new.blocked = FALSE
        /\ new.language = dto.language /\ new.role = dto.role /\ new.anonymous = dto.anonymous
    BY <1>5 DEF Row
  <1>7. dto.blocked = TRUE <=> dto.blocked
    BY <1>2
  <1>8. \A c \in Column : c \in Updated(n, dto) \/ new[c] = dto[c]
    BY <1>1, <1>2, <1>6 DEF Column
  <1> QED
    BY <1>1, <1>6, <1>7, <1>8 DEF new

LEMMA TakenJournal ==
    ASSUME NEW ops \in [Table -> {"none", "set", "delete"}], NEW changed, NEW c \in Column,
           Journal(ops, changed)[TableOf(c)] = "set"
    PROVE  ops[TableOf(c)] = "set" /\ c \notin changed
  <1>1. TableOf(c) \in Table /\ c \in Columns[TableOf(c)]
    BY Tables DEF TableOf, Column
  <1>2. changed \intersect Columns[TableOf(c)] = {} /\ ops[TableOf(c)] = "set"
    BY <1>1, JournalFacts
  <1> QED
    BY <1>1, <1>2

\* A step of one update that leaves the rows and the cache alone.
LEMMA OwnStep ==
    ASSUME IInv, NEW r \in Request, request[r].at # "idle",
           UNCHANGED <<row, cache, blocking, said, decided, updates, blocks, changes>>,
           NEW new \in Update, request' = [request EXCEPT ![r] = new],
           \* it is well-formed, and the only one that inserts
           RequestInv(r)',
           new.at = "insert" => \A p \in Request : request[p].at # "insert",
           \A c \in Column : new.journal[TableOf(c)] = "set" => new.dto[c] = row[c],
           new.at # "idle" => new.act = request[r].act,
           \* it holds the ban or the setting as it is
           new.barred => /\ request[r].barred /\ new.at \in {"arrived", "read"}
                         /\ new.at = "read" => new.dto.role = row.role,
           new.clean => /\ request[r].clean /\ new.at \in {"arrived", "read", "act"}
                        /\ new.at \in {"read", "act"} => /\ new.dto.anonymous = row.anonymous
                                                         /\ new.dto.language = row.language,
           \* it still writes what it is to write
           excused' \subseteq {"name", "blocked"},
           \A c \in {"name", "blocked"} :
               c \notin excused' /\ (c = "blocked" => ~ said.blocked) =>
                  /\ c \notin excused
                  /\ new.at # "idle" => new.dto[c] = request[r].dto[c]
                  /\ row # NoRow /\ row[c] # said[c] /\ WillWrite(r, c) =>
                       \/ new.at \in {"arrived", "waits"}
                       \/ new.at = "read" /\ c \in new.changed,
           "blocked" \notin excused' => "blocked" \notin excused
    PROVE  IInv'
  <1>1. TypeOK /\ request \in [Request -> Update]
    BY DEF IInv, TypeOK
  <1>2. /\ row' = row /\ userEntry' = userEntry /\ profileEntry' = profileEntry /\ late' = late
        /\ blocking' = blocking /\ said' = said /\ decided' = decided
    BY DEF cache
  <1>3. request'[r] = new /\ \A q \in Request : q # r => request'[q] = request[q]
    BY <1>1
  <1>4. TypeOK'
    <2>1. request' \in [Request -> Update]
      BY <1>1
    <2>2. updates' = updates /\ blocks' = blocks /\ changes' = changes
      OBVIOUS
    <2> QED
      BY <1>1, <1>2, <2>1, <2>2 DEF TypeOK
  <1>5. NothingClobbered' /\ EntryInv'
    BY <1>2 DEF IInv, NothingClobbered, EntryInv
  <1>6. ASSUME NEW c \in Column, ~ StaleIn(c) PROVE ~ StaleIn(c)'
    BY <1>2, <1>3, <1>6, StaleColumn
  <1>7. {"role", "anonymous", "language", "name", "blocked"} \subseteq Column
    BY DEF Column
  <1>8. ASSUME NEW q \in Request PROVE RequestInv(q)'
    <2>1. CASE q = r
      BY <2>1
    <2>2. CASE q # r
      <3>1. request'[q] = request[q] /\ RequestInv(q)
        BY <1>3, <2>2 DEF IInv
      <3>2. request[q].at = "insert" => \A p \in Request : request'[p].at = "insert" => p = q
        BY <1>3, <3>1 DEF RequestInv
      <3> QED
        BY <1>2, <3>1, <3>2 DEF RequestInv
    <2> QED
      BY <2>1, <2>2
  <1>9. ASSUME NEW q \in Request PROVE BarredInv(q)'
    <2>1. BarredInv(q) /\ BarredInv(r)
      BY DEF IInv
    <2>2. request'[q].barred => request[q].barred
      BY <1>3
    <2>3. request'[q].barred => row # NoRow /\ row.role = "banned" /\ ~ StaleIn("role")'
      BY <1>6, <1>7, <2>1, <2>2 DEF BarredInv
    <2>4. request'[q].barred => /\ request'[q].at \in {"arrived", "read"}
                                /\ request'[q].at = "read" => request'[q].dto.role = "banned"
      BY <1>3, <2>1, <2>3 DEF BarredInv
    <2> QED
      BY <1>2, <2>3, <2>4 DEF BarredInv
  <1>10. ASSUME NEW q \in Request PROVE CleanInv(q)'
    <2>1. CleanInv(q)
      BY DEF IInv
    <2>2. request'[q].clean => request[q].clean
      BY <1>3
    <2>3. request'[q].clean => row # NoRow /\ ~ StaleIn("anonymous")' /\ ~ StaleIn("language")'
      BY <1>6, <1>7, <2>1, <2>2 DEF CleanInv
    <2>4. ASSUME request'[q].clean, NEW p \in Request, request'[p].at # "idle", p # q
          PROVE  ~ (request'[p].act # "none")
      <3>1. request[p].at # "idle" /\ request[p].act = request'[p].act
        BY <1>3, <2>4
      <3>2. ~ Taps(p)
        BY <2>1, <2>2, <2>4, <3>1 DEF CleanInv, InFlight
      <3> QED
        BY <3>1, <3>2 DEF Taps
    <2>5. request'[q].clean =>
             /\ request'[q].at \in {"arrived", "read", "act"}
             /\ request'[q].at \in {"read", "act"} =>
                   /\ request'[q].dto.anonymous = row.anonymous
                   /\ request'[q].dto.language = row.language
      BY <1>3, <2>1 DEF CleanInv
    <2> QED
      BY <1>2, <2>3, <2>4, <2>5 DEF CleanInv, InFlight, Taps
  <1>11. ASSUME NEW c \in {"name", "blocked"}, HeardInv(c) PROVE HeardInv(c)'
    <2> SUFFICES ASSUME c \notin excused', c = "blocked" => ~ said.blocked
                 PROVE  /\ \A q \in Request :
                              request'[q].at # "idle" => request'[q].dto[c] = said[c]
                        /\ row # NoRow => /\ ~ StaleIn(c)'
                                          /\ row[c] = said[c] \/ \E q \in Request : WillWrite(q, c)'
      BY <1>2 DEF HeardInv, InFlight
    <2>1. /\ \A q \in Request : request[q].at # "idle" => request[q].dto[c] = said[c]
          /\ row # NoRow => /\ ~ StaleIn(c)
                            /\ row[c] = said[c] \/ \E q \in Request : WillWrite(q, c)
      BY <1>11 DEF HeardInv, InFlight
    <2>2. \A q \in Request : request'[q].at # "idle" => request'[q].dto[c] = said[c]
      BY <1>3, <2>1
    <2>3. row # NoRow => ~ StaleIn(c)'
      BY <1>6, <1>7, <2>1
    <2>4. ASSUME row # NoRow, row[c] # said[c] PROVE \E q \in Request : WillWrite(q, c)'
      <3>1. PICK q \in Request : WillWrite(q, c)
        BY <2>1, <2>4
      <3>2. WillWrite(q, c)'
        BY <1>3, <2>4, <3>1 DEF WillWrite
      <3> QED
        BY <3>2
    <2> QED
      BY <2>2, <2>3, <2>4
  <1>12. BlockInv'
    <2>1. "blocked" \notin excused' => ~ said.blocked
      BY DEF IInv, BlockInv, InFlight
    <2> QED
      BY <1>2, <2>1 DEF IInv, BlockInv
  <1> QED
    BY <1>4, <1>5, <1>8, <1>9, <1>10, <1>11, <1>12 DEF IInv

\* UserMiddleware reads: the copy is as good as the cache, and assigned what differs.
LEMMA TakeDtoStep ==
    ASSUME IInv, NEW r \in Request, request[r].at \in {"arrived", "waits"}, row \in Row,
           NEW dto \in Row, NEW ops \in [Table -> {"none", "set", "delete"}],
           \A c \in Column : c \notin late \/ ops[TableOf(c)] = "set" => dto[c] = row[c],
           TakeDto(r, dto, ops)
    PROVE  IInv'
  <1> DEFINE n == request[r].dto.name
             changed == Updated(n, dto)
             held == [dto EXCEPT !.name = n, !.blocked = @ /\ "blocked" \notin changed]
             journal == Journal(ops, changed)
             new == [request[r] EXCEPT !.at = "read", !.changed = changed, !.journal = journal,
                                       !.dto = held]
  <1>1. request[r] \in Update /\ n \in Name
    BY RowFields DEF IInv, TypeOK, Update
  <1>2. /\ held \in Row /\ held.name = n /\ held.blocked = FALSE
        /\ held.language = dto.language /\ held.role = dto.role /\ held.anonymous = dto.anonymous
        /\ changed \in SUBSET {"name", "blocked"}
        /\ "name" \in changed <=> dto.name # n
        /\ "blocked" \in changed <=> dto.blocked = TRUE
        /\ \A c \in Column : journal[TableOf(c)] = "set" =>
              ops[TableOf(c)] = "set" /\ held[c] = dto[c]
    <2>1. held = Assigned(n, dto)
      BY DEF Assigned
    <2>2. changed = Updated(n, dto) /\ journal = Journal(ops, changed)
      OBVIOUS
    <2>3. n \in Name
      BY <1>1
    <2> HIDE DEF held, n, changed, journal
    <2>4. held \in Row /\ held.name = n /\ held.blocked = FALSE
      <3>1. /\ Assigned(n, dto) \in Row /\ Assigned(n, dto).name = n
            /\ Assigned(n, dto).blocked = FALSE
        BY <2>3, TakenFacts
      <3> QED
        BY <2>1, <3>1, Zenon
    <2>7. changed \subseteq {"name", "blocked"}
      BY <2>2, <2>3, TakenFacts
    <2>8. dto.name # n <=> "name" \in changed
      BY <2>2, <2>3, TakenFacts
    <2>9. dto.blocked = TRUE <=> "blocked" \in changed
      BY <2>2, <2>3, TakenFacts
    <2>10. \A c \in Column : c \in changed \/ held[c] = dto[c]
      <3>1. \A c \in Column : c \in Updated(n, dto) \/ Assigned(n, dto)[c] = dto[c]
        BY <2>3, TakenFacts
      <3> QED
        BY <2>1, <2>2, <3>1, Zenon
    <2>5. \A c \in Column : journal[TableOf(c)] = "set" =>
             ops[TableOf(c)] = "set" /\ c \notin changed
      BY <2>2, TakenJournal
    <2>6. held.language = dto.language /\ held.role = dto.role /\ held.anonymous = dto.anonymous
      BY <2>7, <2>10 DEF Column
    <2> QED
      BY <2>4, <2>5, <2>6, <2>7, <2>8, <2>9, <2>10
  <1>3. /\ journal \in [Table -> {"none", "set", "delete"}]
        /\ \A t \in Table : changed \intersect Columns[t] # {} => journal[t] = "delete"
    BY JournalFacts
  <1>4. /\ request' = [request EXCEPT ![r].at = "read", ![r].changed = changed,
                                      ![r].journal = journal, ![r].dto = held]
        /\ UNCHANGED <<row, cache, blocking, said, decided, updates, blocks, changes>>
        /\ excused' = excused
    BY DEF TakeDto, history
  <1> HIDE DEF n, changed, held, journal
  <1>5. request' = [request EXCEPT ![r] = new]
    BY <1>4 DEF IInv, TypeOK
  <1>6. /\ new \in Update /\ new.at = "read" /\ new.changed = changed /\ new.journal = journal
        /\ new.dto = held /\ new.act = request[r].act /\ new.barred = request[r].barred
        /\ new.clean = request[r].clean
    BY <1>1, <1>2, <1>3 DEF Update
  <1> HIDE DEF new
  <1>7. request'[r] = new /\ row' = row /\ row # NoRow
    <2>1. request \in [Request -> Update]
      BY DEF IInv, TypeOK
    <2> QED
      BY <1>4, <1>5, <2>1, Nobody
  <1>8. RequestInv(r)'
    BY <1>2, <1>3, <1>6, <1>7 DEF RequestInv
  <1>9. \A c \in Column : new.journal[TableOf(c)] = "set" => new.dto[c] = row[c]
    BY <1>2, <1>6
  <1>10. \A c \in Column : ~ StaleIn(c) => dto[c] = row[c]
    BY StaleColumn
  <1>11. new.barred => new.dto.role = row.role
    <2>1. new.barred => ~ StaleIn("role")
      BY <1>6 DEF IInv, BarredInv
    <2> QED
      BY <1>2, <1>6, <1>10, <2>1 DEF Column
  <1>12. new.clean => new.dto.anonymous = row.anonymous /\ new.dto.language = row.language
    <2>1. new.clean => ~ StaleIn("anonymous") /\ ~ StaleIn("language")
      BY <1>6 DEF IInv, CleanInv
    <2> QED
      BY <1>2, <1>6, <1>10, <2>1 DEF Column
  <1>13. ASSUME NEW c \in {"name", "blocked"}, c \notin excused', c = "blocked" => ~ said.blocked
         PROVE  /\ c \notin excused
                /\ new.dto[c] = request[r].dto[c]
                /\ row[c] # said[c] => c \in new.changed
    <2>1. HeardInv(c) /\ RequestInv(r) /\ c \notin excused
      BY <1>4, <1>13 DEF IInv
    <2>2. request[r].dto[c] = said[c] /\ ~ StaleIn(c)
      BY <1>7, <1>13, <2>1 DEF HeardInv, InFlight
    <2>3. dto[c] = row[c]
      BY <1>10, <2>2 DEF Column
    <2>4. request[r].dto.blocked = FALSE
      BY <2>1 DEF RequestInv
    <2>5. row[c] # said[c] => c \in changed
      <3>1. CASE c = "name"
        BY <1>2, <2>2, <2>3, <3>1 DEF n
      <3>2. CASE c = "blocked"
        <4>1. row["blocked"] \in BOOLEAN /\ said["blocked"] = FALSE
          BY <2>2, <2>4, <3>2, RowFields
        <4> QED
          BY <1>2, <2>3, <3>2, <4>1
      <3> QED
        BY <3>1, <3>2
    <2>6. held[c] = request[r].dto[c]
      BY <1>2, <2>4 DEF n
    <2> QED
      BY <1>6, <2>1, <2>5, <2>6
  <1>14. excused' \subseteq {"name", "blocked"} /\ request[r].at # "idle"
    BY <1>4 DEF IInv, TypeOK
  <1>15. new.barred => /\ request[r].barred /\ new.at \in {"arrived", "read"}
                       /\ new.at = "read" => new.dto.role = row.role
    BY <1>6, <1>11
  <1>16. new.clean => /\ request[r].clean /\ new.at \in {"arrived", "read", "act"}
                      /\ new.at \in {"read", "act"} => /\ new.dto.anonymous = row.anonymous
                                                       /\ new.dto.language = row.language
    BY <1>6, <1>12
  <1>17. \A c \in {"name", "blocked"} :
            c \notin excused' /\ (c = "blocked" => ~ said.blocked) =>
               /\ c \notin excused
               /\ new.at # "idle" => new.dto[c] = request[r].dto[c]
               /\ row # NoRow /\ row[c] # said[c] /\ WillWrite(r, c) =>
                    \/ new.at \in {"arrived", "waits"}
                    \/ new.at = "read" /\ c \in new.changed
    BY <1>6, <1>13
  <1>18. new.at = "insert" => \A p \in Request : request[p].at # "insert"
    BY <1>6
  <1> QED
    BY <1>4, <1>5, <1>6, <1>8, <1>9, <1>14, <1>15, <1>16, <1>17, <1>18, OwnStep

LEMMA ReadStep ==
    ASSUME IInv, NEW r \in Request, Read(r) \/ ReadAfterInsert(r)
    PROVE  IInv'
  <1>1. row \in Row
    BY DEF Read, ReadAfterInsert, IInv, TypeOK
  <1>2. CASE Read(r)
    <2>1. request[r].at \in {"arrived", "waits"} /\ TakeDto(r, Loaded, Misses)
      BY <1>2 DEF Read
    <2> QED
      BY <1>1, <2>1, LoadedFacts, TakeDtoStep
  <1>3. CASE ReadAfterInsert(r)
    <2> DEFINE dto == [Loaded EXCEPT !.name = row.name, !.language = row.language]
               ops == [Misses EXCEPT !["user"] = "delete"]
    <2>1. request[r].at \in {"arrived", "waits"} /\ TakeDto(r, dto, ops)
      BY <1>3 DEF ReadAfterInsert
    <2>2. /\ Loaded \in Row /\ Misses \in [Table -> {"none", "set", "delete"}]
          /\ \A c \in Column : c \notin late \/ Misses[TableOf(c)] = "set" => Loaded[c] = row[c]
      BY <1>1, LoadedFacts
    <2>3. dto \in Row /\ ops \in [Table -> {"none", "set", "delete"}]
      BY <1>1, <2>2 DEF Row
    <2>4. ASSUME NEW c \in Column, c \notin late \/ ops[TableOf(c)] = "set"
          PROVE  dto[c] = row[c]
      <3>1. CASE c \in {"name", "language"}
        BY <2>2, <3>1 DEF Row
      <3>2. CASE c \in {"role", "blocked", "anonymous"}
        <4>1. TableOf(c) = "profile" /\ dto[c] = Loaded[c]
          BY <2>2, <3>2 DEF Row, TableOf, Columns
        <4>2. ops["profile"] = Misses["profile"]
          BY <2>2 DEF Table
        <4> QED
          BY <2>2, <2>4, <4>1, <4>2
      <3> QED
        BY <3>1, <3>2 DEF Column
    <2> HIDE DEF dto, ops
    <2> QED
      BY <1>1, <2>1, <2>3, <2>4, TakeDtoStep
  <1> QED
    BY <1>2, <1>3

LEMMA InsertStep ==
    ASSUME IInv, NEW r \in Request, Insert(r)
    PROVE  IInv'
  <1> DEFINE n == request[r].dto.name
             Waiting == [request[r] EXCEPT !.at = "waits"]
             Going == [request[r] EXCEPT !.at = "insert", !.journal = Drops, !.dto = NewRow(n)]
             new == IF Inserting THEN Waiting ELSE Going
  <1>1. /\ request[r] \in Update /\ n \in Name /\ request \in [Request -> Update]
        /\ request[r].at \in {"arrived", "waits"} /\ RequestInv(r)
    BY RowFields DEF IInv, TypeOK, Update, Insert
  <1>2. request' = [request EXCEPT ![r] = new]
    BY <1>1 DEF Insert
  <1>3. Drops \in [Table -> {"none", "set", "delete"}] /\ NewRow(n) \in Row /\ NewRow(n).name = n
        /\ NewRow(n).blocked = FALSE
    BY <1>1, Nobody DEF Drops, NewRow
  <1>4. /\ Waiting \in Update /\ Waiting.at = "waits" /\ Waiting.journal = request[r].journal
        /\ Waiting.dto = request[r].dto /\ Waiting.changed = request[r].changed
        /\ Waiting.act = request[r].act /\ Waiting.barred = request[r].barred
        /\ Waiting.clean = request[r].clean
    BY <1>1 DEF Update
  <1>5. /\ Going \in Update /\ Going.at = "insert" /\ Going.journal = Drops
        /\ Going.dto = NewRow(n) /\ Going.changed = request[r].changed
        /\ Going.act = request[r].act /\ Going.barred = request[r].barred
        /\ Going.clean = request[r].clean
    BY <1>1, <1>3 DEF Update
  <1>6. row = NoRow /\ row' = row /\ excused' = excused
        /\ UNCHANGED <<row, cache, blocking, said, decided, updates, blocks, changes>>
    BY DEF Insert, history
  <1> HIDE DEF Waiting, Going
  <1>7. new \in Update /\ new.at \in {"waits", "insert"} /\ new.act = request[r].act
        /\ (new.at = "insert" => ~ Inserting)
    BY <1>4, <1>5
  <1>8. \A t \in Table : new.journal[t] # "set"
    <2>1. request[r].journal = NoOps
      BY <1>1 DEF RequestInv
    <2> QED
      BY <1>4, <1>5, <2>1, Tables
  <1>9. ~ new.barred /\ ~ new.clean
    <2>1. ~ request[r].barred /\ ~ request[r].clean
      BY <1>6 DEF IInv, BarredInv, CleanInv
    <2> QED
      BY <1>4, <1>5, <2>1
  <1>10. new.dto.name = n /\ new.dto.blocked = FALSE /\ request[r].dto.blocked = FALSE
    BY <1>1, <1>3, <1>4, <1>5 DEF RequestInv
  <1>11. new.at = "insert" => \A p \in Request : request[p].at # "insert"
    BY <1>7 DEF Inserting
  <1>12. RequestInv(r)'
    <2>1. request'[r] = new /\ \A p \in Request : p # r => request'[p] = request[p]
      BY <1>1, <1>2
    <2>2. new.changed = {}
      BY <1>1, <1>4, <1>5 DEF RequestInv
    <2>3. new.at = "waits" => new.journal = NoOps
      BY <1>1, <1>4, <1>5 DEF RequestInv
    <2>4. new.at = "insert" => new.journal = Drops /\ new.dto = NewRow(new.dto.name)
      BY <1>3, <1>4, <1>5
    <2>5. new.at = "insert" => \A p \in Request : request'[p].at = "insert" => p = r
      BY <1>11, <2>1
    <2> HIDE DEF new
    <2> QED
      BY <1>6, <1>7, <1>10, <2>1, <2>2, <2>3, <2>4, <2>5 DEF RequestInv
  <1>13. \A c \in Column : new.journal[TableOf(c)] # "set"
    BY <1>8, Tables DEF TableOf
  <1>14. \A c \in {"name", "blocked"} : new.dto[c] = request[r].dto[c]
    BY <1>10 DEF n
  <1>15. excused' \subseteq {"name", "blocked"}
    BY <1>6 DEF IInv, TypeOK
  <1> HIDE DEF new
  <1> QED
    BY <1>1, <1>2, <1>6, <1>7, <1>9, <1>11, <1>12, <1>13, <1>14, <1>15, OwnStep

LEMMA IdleFacts ==
    /\ Idle \in Update /\ Idle.at = "idle" /\ Idle.changed = {} /\ Idle.journal = NoOps
    /\ Idle.barred = FALSE /\ Idle.clean = FALSE /\ Idle.dto.blocked = FALSE /\ Idle.dto = Blank
    /\ Idle.act = "none"
  BY Nobody DEF Idle, Update, NoOps, Acts

LEMMA EndStep ==
    ASSUME IInv, NEW r \in Request, Nothing(r) \/ Fail(r)
    PROVE  IInv'
  <1>1. /\ request' = [request EXCEPT ![r] = Idle] /\ request[r].at # "idle"
        /\ UNCHANGED <<row, cache, blocking, said, decided, updates, blocks, changes>>
        /\ excused' = IF request[r].at = "act" THEN excused ELSE {"name", "blocked"}
    BY DEF Nothing, Fail, history
  <1>2. excused' \subseteq {"name", "blocked"} /\ excused \subseteq excused'
    BY <1>1 DEF IInv, TypeOK
  <1>3. request'[r] = Idle
    BY <1>1 DEF IInv, TypeOK
  <1>4. RequestInv(r)'
    BY <1>3, IdleFacts DEF RequestInv
  <1>5. \A c \in {"name", "blocked"} : c \notin excused' => ~ WillWrite(r, c)
    BY <1>1 DEF WillWrite
  <1>6. \A c \in Column : Idle.journal[TableOf(c)] # "set"
    BY IdleFacts, Tables DEF TableOf
  <1> QED
    BY <1>1, <1>2, <1>4, <1>5, <1>6, IdleFacts, OwnStep

\* The commit of one update, of UserMiddleware's transaction or of a handler's.
Saves(r, dto, changed, ops, new) ==
    /\ request[r].at \in {"read", "act"}
    /\ row \in Row /\ dto \in Row /\ changed \in SUBSET Column
    /\ ops \in [Table -> {"none", "set", "delete"}]
    /\ Write(dto, changed) /\ Flush(ops, dto) /\ request' = [request EXCEPT ![r] = new]
    /\ UNCHANGED <<blocking, said, excused, updates, blocks, changes>>
    /\ decided' \in [role : Role, anonymous : BOOLEAN, language : Language]
    \* it writes what it has assigned, and caches what it has read
    /\ \A c \in changed : ops[TableOf(c)] = "delete"
    /\ \A c \in Column : ops[TableOf(c)] = "set" =>
           request[r].journal[TableOf(c)] = "set" /\ dto[c] = request[r].dto[c]
    /\ \A c \in {"name", "blocked"} : dto[c] = request[r].dto[c]
    /\ request[r].at = "read" => changed = request[r].changed
    /\ "role" \notin changed
    /\ \A c \in {"role", "anonymous", "language"} :
           decided'[c] = IF c \in changed THEN dto[c] ELSE decided[c]
    \* and goes on to the handler, or ends
    /\ \/ new = Idle
       \/ /\ request[r].at = "read" /\ request[r].dto.role # "banned"
          /\ new = [request[r] EXCEPT !.at = "act", !.journal = NoOps]
    /\ {"anonymous", "language"} \intersect changed # {} => Taps(r)

LEMMA SaveStep ==
    ASSUME IInv, NEW r \in Request, NEW dto, NEW changed, NEW ops, NEW new,
           Saves(r, dto, changed, ops, new)
    PROVE  IInv'
  <1> USE DEF Saves
  <1>1. TypeOK /\ request \in [Request -> Update] /\ request[r] \in Update /\ row # NoRow
    BY Nobody DEF IInv, TypeOK
  <1>2. row' \in Row /\ \A c \in Column : row'[c] = IF c \in changed THEN dto[c] ELSE row[c]
    BY Written
  <1>3. row' # NoRow
    BY <1>2, Nobody
  <1>4. \A c \in Column : ops[TableOf(c)] = "none" => row'[c] = row[c]
    BY <1>2
  <1>5. /\ new \in Update /\ new.at \in {"idle", "act"} /\ new.journal = NoOps
        /\ new.dto.blocked = FALSE /\ ~ new.barred
        /\ new.at # "idle" => /\ request[r].at = "read" /\ new.act = request[r].act
                              /\ new.dto = request[r].dto
        /\ new.clean => request[r].clean /\ request[r].at = "read" /\ new.at = "act"
        /\ new.at = "idle" => new.changed = {}
    <2>1. CASE new = Idle
      BY <2>1, IdleFacts
    <2>2. CASE /\ request[r].at = "read" /\ request[r].dto.role # "banned"
               /\ new = [request[r] EXCEPT !.at = "act", !.journal = NoOps]
      <3>1. NoOps \in [Table -> {"none", "set", "delete"}]
        BY DEF NoOps
      <3>2. new \in Update
        BY <1>1, <2>2, <3>1 DEF Update
      <3>3. /\ new.at = "act" /\ new.journal = NoOps /\ new.dto = request[r].dto
            /\ new.act = request[r].act /\ new.barred = request[r].barred
            /\ new.clean = request[r].clean
        BY <1>1, <2>2 DEF Update
      <3>4. ~ request[r].barred /\ request[r].dto.blocked = FALSE
        BY <2>2 DEF IInv, BarredInv, RequestInv
      <3> QED
        BY <2>2, <3>2, <3>3, <3>4
    <2> QED
      BY <2>1, <2>2
  <1>6. request'[r] = new /\ \A q \in Request : q # r => request'[q] = request[q]
    BY <1>1
  <1>7. \A t \in Table : NoOps[t] # "set"
    BY Tables
  <1>8. EntryInv'
    BY <1>2, <1>4, SavedFacts
  <1>9. ASSUME NEW c \in Column, ~ StaleIn(c),
               \A q \in Request : request[q].journal[TableOf(c)] = "set" =>
                  row'[c] = row[c] \/ request[q].dto[c] = row'[c]
        PROVE  ~ StaleIn(c)'
    <2>1. TableOf(c) \in Table
      BY Tables DEF TableOf
    <2>2. ops[TableOf(c)] = "set" => dto[c] = row'[c]
      BY <1>2, <1>9, StaleColumn
    <2>3. \A q \in Request : request'[q].journal[TableOf(c)] = "set" =>
             /\ request[q].journal[TableOf(c)] = "set"
             /\ request'[q].dto[c] = request[q].dto[c]
             /\ row'[c] = row[c] \/ request[q].dto[c] = row'[c]
      BY <1>5, <1>6, <1>7, <1>9, <2>1
    <2> QED
      BY <1>2, <1>4, <1>9, <2>2, <2>3, SavedFacts
  <1>10. {"role", "anonymous", "language", "name", "blocked"} \subseteq Column
    BY DEF Column
  <1>11. TypeOK'
    <2>1. request' \in [Request -> Update]
      BY <1>1, <1>5
    <2>2. /\ userEntry' \in CachedUser \union {NoEntry}
          /\ profileEntry' \in CachedProfile \union {NoEntry}
          /\ late' \subseteq Columns["user"] \union Columns["profile"]
      BY <1>1, Flushed
    <2> QED
      BY <1>1, <1>2, <2>1, <2>2 DEF TypeOK
  <1>12. NothingClobbered'
    <2>1. \A c \in {"role", "anonymous", "language"} : row[c] = decided[c]
      BY <1>1 DEF IInv, NothingClobbered
    <2>2. \A c \in {"role", "anonymous", "language"} : row'[c] = decided'[c]
      BY <1>2, <1>10, <2>1
    <2> QED
      BY <2>2 DEF NothingClobbered
  <1>13. ASSUME NEW q \in Request PROVE RequestInv(q)'
    <2>1. RequestInv(q)
      BY DEF IInv
    <2>2. CASE q = r
      BY <1>3, <1>5, <1>6, <2>2 DEF RequestInv
    <2>3. CASE q # r
      <3>1. request'[q] = request[q] /\ request[q].at # "insert"
        BY <1>1, <1>6, <2>1, <2>3 DEF RequestInv
      <3> QED
        BY <1>3, <2>1, <3>1 DEF RequestInv
    <2> QED
      BY <2>2, <2>3
  <1>14. ASSUME NEW q \in Request PROVE BarredInv(q)'
    <2> SUFFICES ASSUME request'[q].barred PROVE BarredInv(q)'
      BY DEF BarredInv
    <2>1. q # r /\ request'[q] = request[q] /\ BarredInv(q)
      BY <1>5, <1>6 DEF IInv
    <2>2. row'.role = row.role
      BY <1>2, <1>10
    <2>3. ~ StaleIn("role")'
      BY <1>9, <1>10, <2>1, <2>2 DEF BarredInv
    <2> QED
      BY <1>3, <2>1, <2>2, <2>3 DEF BarredInv
  <1>15. ASSUME NEW q \in Request PROVE CleanInv(q)'
    <2> SUFFICES ASSUME request'[q].clean PROVE CleanInv(q)'
      BY DEF CleanInv
    <2>1. CleanInv(q) /\ request[q].clean
      BY <1>5, <1>6 DEF IInv
    <2>2. {"anonymous", "language"} \intersect changed = {}
      <3>1. CASE q = r
        <4>1. changed = request[r].changed /\ request[r].changed \subseteq {"name", "blocked"}
          BY <1>1, <1>5, <1>6, <3>1 DEF Update
        <4> QED
          BY <4>1
      <3>2. CASE q # r
        BY <2>1, <3>2 DEF CleanInv, InFlight
      <3> QED
        BY <3>1, <3>2
    <2>3. row'.anonymous = row.anonymous /\ row'.language = row.language
      BY <1>2, <1>10, <2>2
    <2>4. ~ StaleIn("anonymous")' /\ ~ StaleIn("language")'
      BY <1>9, <1>10, <2>1, <2>3 DEF CleanInv
    <2>5. \A p \in Request : request'[p].at # "idle" =>
             request[p].at # "idle" /\ request'[p].act = request[p].act
      BY <1>5, <1>6
    <2>6. \A p \in Request : request'[p].at # "idle" /\ p # q => ~ (request'[p].act # "none")
      BY <2>1, <2>5 DEF CleanInv, InFlight, Taps
    <2>7. /\ request'[q].at \in {"arrived", "read", "act"}
          /\ request'[q].at \in {"read", "act"} =>
                /\ request'[q].dto.anonymous = row'.anonymous
                /\ request'[q].dto.language = row'.language
      <3>1. CASE q = r
        BY <1>5, <1>6, <2>1, <2>3, <3>1 DEF CleanInv
      <3>2. CASE q # r
        BY <1>6, <2>1, <2>3, <3>2 DEF CleanInv
      <3> QED
        BY <3>1, <3>2
    <2> QED
      BY <1>3, <2>4, <2>6, <2>7 DEF CleanInv, InFlight, Taps
  <1>16. ASSUME NEW c \in {"name", "blocked"}, HeardInv(c) PROVE HeardInv(c)'
    <2> SUFFICES ASSUME c \notin excused, c = "blocked" => ~ said.blocked
                 PROVE  /\ \A q \in Request :
                              request'[q].at # "idle" => request'[q].dto[c] = said[c]
                        /\ ~ StaleIn(c)'
                        /\ row'[c] = said[c] \/ \E q \in Request : WillWrite(q, c)'
      BY DEF HeardInv, InFlight
    <2>1. /\ \A q \in Request : request[q].at # "idle" => request[q].dto[c] = said[c]
          /\ ~ StaleIn(c)
          /\ row[c] = said[c] \/ \E q \in Request : WillWrite(q, c)
      BY <1>1, <1>16 DEF HeardInv, InFlight
    <2>2. \A q \in Request : request'[q].at # "idle" => request'[q].dto[c] = said[c]
      BY <1>5, <1>6, <2>1
    <2>3. c \in changed => row'[c] = said[c]
      BY <1>2, <1>10, <2>1
    <2>4. ~ StaleIn(c)'
      <3>1. ASSUME NEW q \in Request, request[q].journal[TableOf(c)] = "set"
            PROVE  request[q].at # "idle"
        <4>1. TableOf(c) \in Table
          BY Tables DEF TableOf
        <4> QED
          BY <1>7, <3>1, <4>1 DEF IInv, RequestInv
      <3> QED
        BY <1>2, <1>9, <1>10, <2>1, <2>3, <3>1
    <2>5. ASSUME row'[c] # said[c] PROVE \E q \in Request : WillWrite(q, c)'
      <3>1. c \notin changed /\ row[c] # said[c]
        BY <1>2, <1>10, <2>3, <2>5
      <3>2. PICK q \in Request : WillWrite(q, c)
        BY <2>1, <3>1
      <3>3. q # r
        BY <3>1, <3>2 DEF WillWrite
      <3>4. WillWrite(q, c)'
        BY <1>6, <3>2, <3>3 DEF WillWrite
      <3> QED
        BY <3>4
    <2> QED
      BY <2>2, <2>4, <2>5
  <1>17. BlockInv'
    <2>1. "blocked" \notin excused => ~ said.blocked
      BY DEF IInv, BlockInv, InFlight
    <2> QED
      BY <2>1 DEF IInv, BlockInv
  <1> QED
    BY <1>8, <1>11, <1>12, <1>13, <1>14, <1>15, <1>16, <1>17 DEF IInv

LEMMA CommitUpdateStep ==
    ASSUME IInv, NEW r \in Request, Commit(r), request[r].at = "read"
    PROVE  IInv'
  <1> DEFINE q == request[r]
             new == IF PassesBanCheck(q.dto) THEN [q EXCEPT !.at = "act", !.journal = NoOps]
                                             ELSE Idle
  <1>1. RequestInv(r) /\ q \in Update /\ row # NoRow
    BY DEF IInv, TypeOK, RequestInv
  <1>2. /\ row \in Row /\ q.dto \in Row /\ q.changed \subseteq {"name", "blocked"}
        /\ q.journal \in [Table -> {"none", "set", "delete"}]
        /\ decided \in [role : Role, anonymous : BOOLEAN, language : Language]
    BY <1>1 DEF Update, IInv, TypeOK
  <1>3. /\ Write(q.dto, q.changed) /\ Flush(q.journal, q.dto)
        /\ request' = [request EXCEPT ![r] = new]
        /\ UNCHANGED <<blocking, said, excused, updates, blocks, changes>> /\ decided' = decided
    BY DEF Commit, history
  <1>4. \A c \in q.changed : q.journal[TableOf(c)] = "delete"
    <2>1. ASSUME NEW c \in q.changed PROVE c \in Columns[TableOf(c)] /\ TableOf(c) \in Table
      BY <1>2, Tables DEF TableOf
    <2>2. \A t \in Table : q.changed \intersect Columns[t] # {} => q.journal[t] = "delete"
      BY <1>1 DEF RequestInv
    <2> HIDE DEF q
    <2> QED
      BY <2>1, <2>2
  <1>5. \/ new = Idle
        \/ /\ request[r].at = "read" /\ request[r].dto.role # "banned"
           /\ new = [request[r] EXCEPT !.at = "act", !.journal = NoOps]
    BY DEF PassesBanCheck
  <1>6. q.changed \in SUBSET Column
    BY <1>2 DEF Column
  <1>7. /\ "role" \notin q.changed /\ {"anonymous", "language"} \intersect q.changed = {}
        /\ \A c \in {"role", "anonymous", "language"} :
              decided'[c] = IF c \in q.changed THEN q.dto[c] ELSE decided[c]
    BY <1>2, <1>3
  <1> HIDE DEF new
  <1>8. Saves(r, q.dto, q.changed, q.journal, new)
    BY <1>2, <1>3, <1>4, <1>5, <1>6, <1>7 DEF Saves
  <1> QED
    BY <1>8, SaveStep

LEMMA CommitInsertStep ==
    ASSUME IInv, NEW r \in Request, Commit(r), request[r].at = "insert"
    PROVE  IInv'
  <1> DEFINE q == request[r]
             new == [q EXCEPT !.at = "act", !.journal = NoOps]
  <1>1. TypeOK /\ request \in [Request -> Update] /\ RequestInv(r) /\ q \in Update
    BY DEF IInv, TypeOK
  <1>2. /\ row = NoRow /\ q.dto = NewRow(q.dto.name) /\ q.journal = Drops /\ q.changed = {}
        /\ q.dto \in Row /\ q.dto.blocked = FALSE
    BY <1>1 DEF RequestInv, Update
  <1>3. q.dto.role = "user" /\ q.dto.anonymous = FALSE /\ q.dto.language = DefaultLanguage
    BY <1>2 DEF NewRow
  <1>4. /\ row' = q.dto /\ Flush(q.journal, q.dto) /\ request' = [request EXCEPT ![r] = new]
        /\ UNCHANGED <<blocking, said, decided, excused, updates, blocks, changes>>
    BY <1>3 DEF Commit, PassesBanCheck, history
  <1>5. NoOps \in [Table -> {"none", "set", "delete"}] /\ \A t \in Table : NoOps[t] # "set"
    BY Tables DEF NoOps
  <1>6. /\ new \in Update /\ new.at = "act" /\ new.journal = NoOps /\ new.dto = q.dto
        /\ new.act = q.act /\ new.barred = q.barred /\ new.clean = q.clean
    BY <1>1, <1>5 DEF Update
  <1> HIDE DEF new
  <1>7. request'[r] = new /\ \A p \in Request : p # r => request'[p] = request[p]
    BY <1>1, <1>4
  <1>8. userEntry' = NoEntry /\ profileEntry' = NoEntry /\ late' = {} /\ row' # NoRow
    <2>1. Drops \in [Table -> {"none", "set", "delete"}]
      BY DEF Drops
    <2>2. Flush(Drops, q.dto) /\ q.dto \in Row
      BY <1>2, <1>4
    <2>3. \A c \in Column : Drops[TableOf(c)] = "delete"
      BY Tables DEF TableOf
    <2>4. Columns["user"] \union Columns["profile"] = Column
      BY Tables DEF Column
    <2>5. userEntry' = NoEntry /\ profileEntry' = NoEntry /\ late' \subseteq Column
      BY <1>1, <2>1, <2>2, <2>4, Flushed, Tables
    <2>6. \A c \in Column : c \notin late'
      BY <1>1, <2>1, <2>2, <2>3, Flushed
    <2>7. row' # NoRow
      BY <1>2, <1>4, Nobody
    <2> QED
      BY <2>5, <2>6, <2>7
  <1>9. TypeOK'
    <2>1. request' \in [Request -> Update] /\ row' \in Row
      BY <1>1, <1>2, <1>4, <1>6
    <2> QED
      BY <1>1, <1>4, <1>8, <2>1 DEF TypeOK
  <1>10. decided.role = "user" /\ decided.anonymous = FALSE /\ decided.language = DefaultLanguage
    BY <1>2 DEF IInv, EntryInv
  <1>11. NothingClobbered' /\ EntryInv'
    BY <1>3, <1>4, <1>8, <1>10 DEF NothingClobbered, EntryInv
  <1>12. \A p \in Request : request[p].at \notin {"read", "act"}
                            /\ (request[p].at = "insert" => p = r)
    BY <1>1, <1>2 DEF IInv, RequestInv
  <1>13. ASSUME NEW p \in Request PROVE RequestInv(p)'
    <2>1. RequestInv(p)
      BY DEF IInv
    <2>2. CASE p = r
      BY <1>2, <1>6, <1>7, <1>8, <2>2 DEF RequestInv
    <2>3. CASE p # r
      BY <1>7, <1>8, <1>12, <2>1, <2>3 DEF RequestInv
    <2> QED
      BY <2>2, <2>3
  <1>14. \A p \in Request : ~ request'[p].barred /\ ~ request'[p].clean
    <2>1. \A p \in Request : ~ request[p].barred /\ ~ request[p].clean
      BY <1>2 DEF IInv, BarredInv, CleanInv
    <2> QED
      BY <1>6, <1>7, <2>1
  <1>15. \A p \in Request : BarredInv(p)' /\ CleanInv(p)'
    BY <1>14 DEF BarredInv, CleanInv
  <1>16. ASSUME NEW c \in Column PROVE ~ StaleIn(c)'
    <2>1. TableOf(c) \in Table
      BY Tables DEF TableOf
    <2>2. \A p \in Request : request'[p].journal[TableOf(c)] # "set"
      <3>1. \A p \in Request : request[p].at # "insert" => request[p].journal = NoOps
        BY <1>1, <1>12 DEF IInv, RequestInv, Update
      <3> QED
        BY <1>5, <1>6, <1>7, <1>12, <2>1, <3>1
    <2> QED
      BY <1>8, <2>2, StaleColumn
  <1>17. ASSUME NEW c \in {"name", "blocked"}, HeardInv(c) PROVE HeardInv(c)'
    <2> SUFFICES ASSUME c \notin excused, c = "blocked" => ~ said.blocked
                 PROVE  /\ \A p \in Request :
                              request'[p].at # "idle" => request'[p].dto[c] = said[c]
                        /\ ~ StaleIn(c)' /\ row'[c] = said[c]
      BY <1>4 DEF HeardInv, InFlight
    <2>1. \A p \in Request : request[p].at # "idle" => request[p].dto[c] = said[c]
      BY <1>17 DEF HeardInv, InFlight
    <2> QED
      BY <1>4, <1>6, <1>7, <1>16, <2>1 DEF Column
  <1>18. BlockInv'
    <2>1. "blocked" \notin excused => ~ said.blocked
      BY DEF IInv, BlockInv, InFlight
    <2> QED
      BY <1>4, <2>1 DEF IInv, BlockInv
  <1> QED
    BY <1>9, <1>11, <1>13, <1>15, <1>17, <1>18 DEF IInv

LEMMA TapStep ==
    ASSUME IInv, NEW r \in Request, PreferAnonToggle(r) \/ LanguageSelected(r)
    PROVE  IInv'
  <1>1. /\ RequestInv(r) /\ request[r] \in Update /\ request[r].at = "act"
        /\ decided \in [role : Role, anonymous : BOOLEAN, language : Language]
        /\ row \in Row /\ request[r].dto \in Row
    BY DEF IInv, TypeOK, RequestInv, Update, PreferAnonToggle, LanguageSelected
  <1>2. /\ request' = [request EXCEPT ![r] = Idle] /\ request[r].act # "none"
        /\ UNCHANGED <<blocking, said, excused, updates, blocks, changes>>
    BY LanguageAssumption DEF PreferAnonToggle, LanguageSelected
  <1>3. PICK c \in {"anonymous", "language"}, value \in BOOLEAN \union Language :
           /\ IF c = "language" THEN value \in Language ELSE value \in BOOLEAN
           /\ Save(r, c, value)
    <2>1. CASE PreferAnonToggle(r)
      <3>1. Save(r, "anonymous", ~ request[r].dto.anonymous)
        BY <2>1 DEF PreferAnonToggle
      <3> QED
        BY <3>1
    <2>2. CASE LanguageSelected(r)
      BY <2>2 DEF LanguageSelected
    <2> QED
      BY <2>1, <2>2
  <1> DEFINE dto == [request[r].dto EXCEPT ![c] = value]
             changed == (request[r].changed \intersect Columns[TableOf(c)]) \union {c}
             ops == Journal(NoOps, changed)
  <1>4. Columns[TableOf(c)] = IF c = "language" THEN Columns["user"] ELSE Columns["profile"]
    BY DEF TableOf
  <1>5. /\ Write(dto, changed) /\ Flush(ops, dto)
        /\ decided' = [decided EXCEPT ![c] = value]
    BY <1>3, <1>4 DEF Save
  <1>6. /\ dto \in Row /\ dto[c] = value
        /\ \A d \in {"name", "blocked"} : dto[d] = request[r].dto[d]
    <2>1. CASE c = "language"
      BY <1>1, <1>3, <2>1 DEF Row
    <2>2. CASE c = "anonymous"
      BY <1>1, <1>3, <2>2 DEF Row
    <2> QED
      BY <2>1, <2>2
  <1>7. /\ changed \in SUBSET Column /\ "role" \notin changed
        /\ \A d \in {"anonymous", "language"} : d \in changed <=> d = c
    BY <1>1, <1>3 DEF Update, Column
  <1>8. /\ decided' \in [role : Role, anonymous : BOOLEAN, language : Language]
        /\ \A d \in {"role", "anonymous", "language"} :
              decided'[d] = IF d \in changed THEN dto[d] ELSE decided[d]
    <2> HIDE DEF dto, changed
    <2>1. CASE c = "language"
      BY <1>1, <1>3, <1>5, <1>6, <1>7, <2>1
    <2>2. CASE c = "anonymous"
      BY <1>1, <1>3, <1>5, <1>6, <1>7, <2>2
    <2> QED
      BY <2>1, <2>2
  <1>9. NoOps \in [Table -> {"none", "set", "delete"}] /\ \A t \in Table : NoOps[t] = "none"
    BY Tables DEF NoOps
  <1>10. \A d \in changed :
            TableOf(d) = TableOf(c) /\ d \in Columns[TableOf(d)] /\ TableOf(d) \in Table
    BY <1>3, Tables DEF TableOf
  <1> HIDE DEF dto, changed
  <1>11. /\ ops \in [Table -> {"none", "set", "delete"}]
         /\ \A t \in Table :
               ops[t] = IF changed \intersect Columns[t] # {} THEN "delete" ELSE "none"
    BY <1>9, JournalFacts
  <1> HIDE DEF ops
  <1>12. \A d \in changed : ops[TableOf(d)] = "delete"
    BY <1>10, <1>11
  <1>13. \A d \in Column : ops[TableOf(d)] # "set"
    BY <1>11, Tables DEF TableOf
  <1>14. Taps(r) /\ request[r].at \in {"read", "act"} /\ request[r].at # "read"
    BY <1>1, <1>2 DEF Taps
  <1>15. dto \in Row /\ changed \in SUBSET Column /\ ops \in [Table -> {"none", "set", "delete"}]
    BY <1>6, <1>7, <1>11
  <1>16. "role" \notin changed
    BY <1>7
  <1>17. \A d \in Column : ops[TableOf(d)] = "set" =>
            request[r].journal[TableOf(d)] = "set" /\ dto[d] = request[r].dto[d]
    BY <1>13
  <1>18. Saves(r, dto, changed, ops, Idle)
    BY <1>1, <1>2, <1>5, <1>6, <1>8, <1>12, <1>14, <1>15, <1>16, <1>17 DEF Saves
  <1> QED
    BY <1>18, SaveStep

\* What an arrival does to the updates.
LEMMA ArrivedFacts ==
    ASSUME IInv, NEW r \in Request, NEW n \in Name, NEW a \in Acts, Arrive(r, n, a)
    PROVE  /\ request' \in [Request -> Update]
           /\ request'[r].at = "arrived" /\ request'[r].act = a
           /\ request'[r].changed = {} /\ request'[r].journal = NoOps
           /\ request'[r].dto.name = n /\ request'[r].dto.blocked = FALSE
           /\ request'[r].barred => row # NoRow /\ row.role = "banned" /\ ~ StaleIn("role")
           /\ request'[r].clean => /\ \A p \in InFlight : ~ Taps(p)
                                   /\ row # NoRow
                                   /\ ~ StaleIn("anonymous") /\ ~ StaleIn("language")
           /\ \A q \in Request : q # r =>
                 /\ request'[q].at = request[q].at /\ request'[q].act = request[q].act
                 /\ request'[q].changed = request[q].changed
                 /\ request'[q].journal = request[q].journal
                 /\ request'[q].dto = request[q].dto /\ request'[q].barred = request[q].barred
                 /\ request'[q].clean => request[q].clean /\ a = "none"
  <1> DEFINE barred == row # NoRow /\ row.role = "banned" /\ ~ StaleIn("role")
             clean == /\ \A p \in InFlight : ~ Taps(p)
                      /\ row # NoRow
                      /\ ~ StaleIn("anonymous") /\ ~ StaleIn("language")
             still(q) == request[q].clean /\ a = "none"
             new == [Idle EXCEPT !.at = "arrived", !.act = a, !.dto.name = n,
                                 !.barred = barred, !.clean = clean]
  <1>1. request' = [q \in Request |-> IF q = r THEN new
                                      ELSE [request[q] EXCEPT !.clean = still(q)]]
    BY DEF Arrive
  <1>2. barred \in BOOLEAN /\ clean \in BOOLEAN /\ \A q \in Request : still(q) \in BOOLEAN
    OBVIOUS
  <1>3. barred => row # NoRow /\ row.role = "banned" /\ ~ StaleIn("role")
    OBVIOUS
  <1>4. clean => /\ \A p \in InFlight : ~ Taps(p)
                 /\ row # NoRow
                 /\ ~ StaleIn("anonymous") /\ ~ StaleIn("language")
    OBVIOUS
  <1>5. \A q \in Request : still(q) => request[q].clean /\ a = "none"
    OBVIOUS
  <1> HIDE DEF barred, clean, still
  <1>6. /\ new \in Update /\ new.at = "arrived" /\ new.act = a
        /\ new.changed = {} /\ new.journal = NoOps
        /\ new.dto.name = n /\ new.dto.blocked = FALSE
        /\ new.barred = barred /\ new.clean = clean
    <2>1. /\ Idle \in Update /\ Idle.changed = {} /\ Idle.journal = NoOps
          /\ Idle.dto.blocked = FALSE
      BY IdleFacts
    <2> QED
      BY <1>2, <2>1 DEF Update, Row
  <1> HIDE DEF new
  <1>7. ASSUME NEW q \in Request \ {r}
        PROVE  /\ request'[q] \in Update
               /\ request'[q].at = request[q].at /\ request'[q].act = request[q].act
               /\ request'[q].changed = request[q].changed
               /\ request'[q].journal = request[q].journal
               /\ request'[q].dto = request[q].dto /\ request'[q].barred = request[q].barred
               /\ request'[q].clean = still(q)
    <2>1. request'[q] = [request[q] EXCEPT !.clean = still(q)]
      BY <1>1
    <2>2. request[q] \in Update
      BY DEF IInv, TypeOK
    <2> QED
      BY <1>2, <2>1, <2>2 DEF Update
  <1>8. request'[r] = new
    BY <1>1
  <1>9. request' \in [Request -> Update]
    <2>1. request' = [q \in Request |-> request'[q]]
      BY <1>1
    <2>2. \A q \in Request : request'[q] \in Update
      BY <1>6, <1>7, <1>8
    <2> HIDE DEF new
    <2> QED
      BY <2>1, <2>2
  <1> QED
    BY <1>3, <1>4, <1>5, <1>6, <1>7, <1>8, <1>9

LEMMA ArriveStep ==
    ASSUME IInv, NEW r \in Request, NEW n \in Name, NEW a \in Acts, Arrive(r, n, a)
    PROVE  IInv'
  <1>1. /\ TypeOK /\ row' = row /\ userEntry' = userEntry /\ profileEntry' = profileEntry
        /\ late' = late /\ blocking' = blocking /\ decided' = decided /\ blocks' = blocks
        /\ changes' = changes /\ excused' = Excused(n) /\ said' = [name |-> n, blocked |-> FALSE]
        /\ updates' = updates + 1 /\ updates < MaxUpdates /\ request[r].at = "idle"
    BY DEF IInv, Arrive, cache
  <1>2. said'.name = n /\ said'.blocked = FALSE /\ said' \in [name : Name, blocked : BOOLEAN]
    BY <1>1
  <1>3. /\ request'[r].at = "arrived" /\ request'[r].act = a
        /\ request'[r].changed = {} /\ request'[r].journal = NoOps
        /\ request'[r].dto.name = n /\ request'[r].dto.blocked = FALSE
    <2>1. request'[r].at = "arrived"
      BY ArrivedFacts
    <2>2. request'[r].act = a
      BY IdleFacts DEF Arrive, Update
    <2>3. request'[r].changed = {}
      BY ArrivedFacts
    <2>4. request'[r].journal = NoOps
      BY ArrivedFacts
    <2>5. request'[r].dto.name = n
      BY ArrivedFacts
    <2>6. request'[r].dto.blocked = FALSE
      BY ArrivedFacts
    <2> QED
      BY <2>1, <2>2, <2>3, <2>4, <2>5, <2>6
  <1>4. \A q \in Request : q # r =>
           /\ request'[q].at = request[q].at /\ request'[q].act = request[q].act
           /\ request'[q].changed = request[q].changed
           /\ request'[q].journal = request[q].journal
           /\ request'[q].dto = request[q].dto /\ request'[q].barred = request[q].barred
           /\ request'[q].clean => request[q].clean /\ a = "none"
    BY ArrivedFacts
  <1>5. TypeOK'
    <2>1. request' \in [Request -> Update]
      BY ArrivedFacts
    <2>2. Excused(n) \subseteq {"name", "blocked"} /\ updates' \in 0 .. MaxUpdates
      BY <1>1, BoundAssumption DEF Excused, TypeOK
    <2> QED
      BY <1>1, <1>2, <2>1, <2>2 DEF TypeOK
  <1>6. NothingClobbered' /\ EntryInv'
    BY <1>1 DEF IInv, NothingClobbered, EntryInv
  <1>7. ASSUME NEW c \in Column, ~ StaleIn(c) PROVE ~ StaleIn(c)'
    <2>1. TableOf(c) \in Table /\ NoOps[TableOf(c)] # "set"
      BY Tables DEF TableOf
    <2>2. c \notin late' /\ \A q \in Request :
             request'[q].journal[TableOf(c)] = "set" => request'[q].dto[c] = row'[c]
      BY <1>1, <1>3, <1>4, <1>7, <2>1, StaleColumn
    <2> QED
      BY <2>2, StaleColumn
  <1>8. {"role", "anonymous", "language", "name", "blocked"} \subseteq Column
    BY DEF Column
  <1>9. ASSUME NEW q \in Request PROVE RequestInv(q)'
    <2>1. RequestInv(q)
      BY DEF IInv
    <2>2. \A p \in Request : request'[p].at = "insert" => request[p].at = "insert"
      BY <1>3, <1>4
    <2>3. CASE q = r
      BY <1>3, <2>3 DEF RequestInv
    <2>4. CASE q # r
      BY <1>1, <1>4, <2>1, <2>2, <2>4 DEF RequestInv
    <2> QED
      BY <2>3, <2>4
  <1>10. ASSUME NEW q \in Request PROVE BarredInv(q)'
    <2> SUFFICES ASSUME request'[q].barred PROVE BarredInv(q)'
      BY DEF BarredInv
    <2>1. BarredInv(q)
      BY DEF IInv
    <2>2. row # NoRow /\ row.role = "banned" /\ ~ StaleIn("role")
      <3>1. CASE q = r
        BY <3>1, ArrivedFacts
      <3>2. CASE q # r
        BY <1>4, <2>1, <3>2 DEF BarredInv
      <3> QED
        BY <3>1, <3>2
    <2>3. ~ StaleIn("role")'
      BY <1>7, <1>8, <2>2
    <2>4. /\ request'[q].at \in {"arrived", "read"}
          /\ request'[q].at = "read" => request'[q].dto.role = "banned"
      BY <1>3, <1>4, <2>1 DEF BarredInv
    <2> QED
      BY <1>1, <2>2, <2>3, <2>4 DEF BarredInv
  <1>11. ASSUME NEW q \in Request PROVE CleanInv(q)'
    <2> SUFFICES ASSUME request'[q].clean PROVE CleanInv(q)'
      BY DEF CleanInv
    <2>1. CleanInv(q)
      BY DEF IInv
    <2>2. row # NoRow /\ ~ StaleIn("anonymous") /\ ~ StaleIn("language")
      <3>1. CASE q = r
        BY <3>1, ArrivedFacts
      <3>2. CASE q # r
        BY <1>4, <2>1, <3>2 DEF CleanInv
      <3> QED
        BY <3>1, <3>2
    <2>3. ~ StaleIn("anonymous")' /\ ~ StaleIn("language")'
      BY <1>7, <1>8, <2>2
    <2>4. ASSUME NEW p \in Request, request'[p].at # "idle", p # q
          PROVE  request'[p].act = "none"
      <3>1. CASE q = r
        <4>1. p \in InFlight /\ request'[p].act = request[p].act
          BY <1>4, <2>4, <3>1 DEF InFlight
        <4>2. ~ Taps(p)
          BY <3>1, <4>1, ArrivedFacts
        <4> QED
          BY <4>1, <4>2 DEF Taps
      <3>2. CASE q # r /\ p = r
        BY <1>3, <1>4, <3>2
      <3>3. CASE q # r /\ p # r
        BY <1>4, <2>1, <2>4, <3>3 DEF CleanInv, InFlight, Taps
      <3> QED
        BY <3>1, <3>2, <3>3
    <2>5. /\ request'[q].at \in {"arrived", "read", "act"}
          /\ request'[q].at \in {"read", "act"} =>
                /\ request'[q].dto.anonymous = row.anonymous
                /\ request'[q].dto.language = row.language
      BY <1>3, <1>4, <2>1 DEF CleanInv
    <2> QED
      BY <1>1, <2>2, <2>3, <2>4, <2>5 DEF CleanInv, InFlight, Taps
  <1>12. ASSUME NEW c \in {"name", "blocked"} PROVE HeardInv(c)'
    <2> SUFFICES ASSUME c \notin Excused(n)
                 PROVE  /\ \A q \in Request :
                              request'[q].at # "idle" => request'[q].dto[c] = said'[c]
                        /\ row # NoRow => ~ StaleIn(c)' /\ WillWrite(r, c)'
      BY <1>1 DEF HeardInv, InFlight
    <2>1. /\ c = "name" => \A q \in InFlight : request[q].dto.name = n
          /\ row # NoRow => ~ StaleIn(c)
      BY DEF Excused
    <2>2. ASSUME NEW q \in Request, request'[q].at # "idle" PROVE request'[q].dto[c] = said'[c]
      <3>1. CASE q = r
        BY <1>2, <1>3, <3>1
      <3>2. CASE q # r
        <4>1. request'[q].dto = request[q].dto /\ q \in InFlight /\ RequestInv(q)
          BY <1>4, <2>2, <3>2 DEF InFlight, IInv
        <4>2. request[q].dto.blocked = FALSE
          BY <4>1 DEF RequestInv
        <4> QED
          BY <1>2, <2>1, <4>1, <4>2
      <3> QED
        BY <3>1, <3>2
    <2>3. row # NoRow => ~ StaleIn(c)'
      BY <1>7, <1>8, <2>1
    <2>4. WillWrite(r, c)'
      BY <1>3 DEF WillWrite
    <2> QED
      BY <2>2, <2>3, <2>4
  <1>13. BlockInv'
    <2>1. "blocked" \notin Excused(n) => ~ (blocking > 0)
      BY DEF Excused
    <2>2. "blocked" \notin Excused(n) => blocking = 0
      BY <1>1, <2>1 DEF TypeOK
    <2> QED
      BY <1>1, <1>2, <2>2 DEF BlockInv
  <1> QED
    BY <1>5, <1>6, <1>9, <1>10, <1>11, <1>12, <1>13 DEF IInv

LEMMA BlockArriveStep ==
    ASSUME IInv, BlockArrive
    PROVE  IInv'
  <1>1. /\ TypeOK /\ row' = row /\ userEntry' = userEntry /\ profileEntry' = profileEntry
        /\ late' = late /\ request' = request /\ decided' = decided /\ updates' = updates
        /\ changes' = changes /\ blocks < MaxEvents /\ blocks' = blocks + 1
        /\ blocking' = blocking + 1 /\ said' = [said EXCEPT !.blocked = TRUE]
        /\ excused' = IF InFlight # {} THEN excused \union {"blocked"} ELSE excused \ {"blocked"}
    BY DEF IInv, BlockArrive, cache
  <1>2. said' \in [name : Name, blocked : BOOLEAN] /\ said'.blocked = TRUE /\ said'.name = said.name
    BY <1>1 DEF TypeOK
  <1>3. TypeOK'
    <2>1. excused' \subseteq {"name", "blocked"}
      BY <1>1 DEF TypeOK
    <2>2. blocking' \in Nat /\ blocks' \in 0 .. MaxEvents
      BY <1>1, BoundAssumption DEF TypeOK
    <2> QED
      BY <1>1, <1>2, <2>1, <2>2 DEF TypeOK
  <1>4. NothingClobbered' /\ EntryInv'
    BY <1>1 DEF IInv, NothingClobbered, EntryInv
  <1>5. \A c \in Column : StaleIn(c)' <=> StaleIn(c)
    BY <1>1, StaleColumn
  <1>6. "role" \in Column /\ "anonymous" \in Column /\ "language" \in Column /\ "name" \in Column
    BY DEF Column
  <1>7. ASSUME NEW q \in Request PROVE RequestInv(q)' /\ BarredInv(q)' /\ CleanInv(q)'
    <2>1. RequestInv(q) /\ BarredInv(q) /\ CleanInv(q)
      BY DEF IInv
    <2>2. RequestInv(q)'
      BY <1>1, <2>1 DEF RequestInv
    <2>3. BarredInv(q)'
      BY <1>1, <1>5, <1>6, <2>1 DEF BarredInv
    <2>4. CleanInv(q)'
      BY <1>1, <1>5, <1>6, <2>1 DEF CleanInv, InFlight, Taps
    <2> QED
      BY <2>2, <2>3, <2>4
  <1>8. HeardInv("name")'
    <2>1. HeardInv("name") /\ ("name" \notin excused' => "name" \notin excused)
      BY <1>1 DEF IInv
    <2> QED
      BY <1>1, <1>2, <1>5, <1>6, <2>1 DEF HeardInv, InFlight, WillWrite
  <1>9. HeardInv("blocked")'
    BY <1>2 DEF HeardInv
  <1>10. BlockInv'
    <2>1. "blocked" \notin excused' => InFlight = {}
      BY <1>1
    <2>2. blocking' # 0
      BY <1>1 DEF TypeOK
    <2> QED
      BY <1>1, <1>2, <2>1, <2>2 DEF BlockInv, InFlight
  <1> QED
    BY <1>3, <1>4, <1>7, <1>8, <1>9, <1>10 DEF IInv
\* A commit by another than the user: of the blocked flag, of a role, or of nothing.
Commits(dto, ops, changed) ==
    /\ row \in Row /\ dto \in Row /\ changed \subseteq {"role", "blocked"}
    /\ ops \in [Table -> {"none", "delete"}] /\ Flush(ops, dto)
    /\ row' \in Row /\ \A c \in Column \ changed : row'[c] = row[c]
    /\ \A c \in changed : ops[TableOf(c)] = "delete"
    /\ UNCHANGED <<said, excused, updates, blocks>>
    /\ blocking' \in Nat /\ changes' \in 0 .. MaxEvents
    /\ decided' \in [role : Role, anonymous : BOOLEAN, language : Language]
    /\ row'.role = decided'.role /\ decided'.anonymous = decided.anonymous
    /\ decided'.language = decided.language
    /\ request' \in [Request -> Update]
    /\ \A q \in Request :
          /\ request'[q].at = request[q].at /\ request'[q].act = request[q].act
          /\ request'[q].changed = request[q].changed
          /\ request'[q].journal = request[q].journal /\ request'[q].dto = request[q].dto
          /\ request'[q].clean = request[q].clean
          /\ request'[q].barred => request[q].barred /\ row'.role = row.role
    /\ \/ "blocked" \in excused
       \/ "blocked" \in changed /\ said.blocked /\ row'.blocked
       \/ "blocked" \notin changed /\ blocking' = blocking

LEMMA OthersStep ==
    ASSUME IInv, NEW dto, NEW ops, NEW changed, Commits(dto, ops, changed)
    PROVE  IInv'
  <1>1. /\ TypeOK /\ row \in Row /\ row' \in Row /\ row # NoRow /\ row' # NoRow
        /\ dto \in Row /\ Flush(ops, dto) /\ changed \subseteq {"role", "blocked"}
        /\ ops \in [Table -> {"none", "set", "delete"}] /\ \A t \in Table : ops[t] # "set"
    BY Nobody DEF Commits, IInv
  <1>2. /\ \A c \in Column : c \notin changed => row'[c] = row[c]
        /\ said' = said /\ excused' = excused /\ updates' = updates /\ blocks' = blocks
        /\ blocking' \in Nat /\ changes' \in 0 .. MaxEvents
        /\ decided' \in [role : Role, anonymous : BOOLEAN, language : Language]
        /\ row'.role = decided'.role /\ decided'.anonymous = decided.anonymous
        /\ decided'.language = decided.language /\ request' \in [Request -> Update]
    BY DEF Commits
  <1>3. \A q \in Request :
          /\ request'[q].at = request[q].at /\ request'[q].act = request[q].act
          /\ request'[q].changed = request[q].changed
          /\ request'[q].journal = request[q].journal /\ request'[q].dto = request[q].dto
          /\ request'[q].clean = request[q].clean
          /\ request'[q].barred => request[q].barred /\ row'.role = row.role
    BY DEF Commits
  <1>4. \A c \in Column : TableOf(c) \in Table /\ ops[TableOf(c)] # "set"
    BY <1>1, Tables DEF TableOf
  <1>5. \A c \in Column : ops[TableOf(c)] = "none" => row'[c] = row[c]
    <2>1. \A c \in changed : ops[TableOf(c)] = "delete"
      BY DEF Commits
    <2> QED
      BY <1>2, <2>1
  <1>6. EntryInv'
    BY <1>1, <1>5, SavedFacts
  <1>7. ASSUME NEW c \in Column, ~ StaleIn(c), row'[c] = row[c] PROVE ~ StaleIn(c)'
    <2>1. \A q \in Request : request'[q].journal[TableOf(c)] = "set" =>
             /\ request[q].journal[TableOf(c)] = "set"
             /\ request'[q].dto[c] = request[q].dto[c]
             /\ row'[c] = row[c] \/ request[q].dto[c] = row'[c]
      BY <1>3, <1>7
    <2>2. ops[TableOf(c)] # "set"
      BY <1>4
    <2> QED
      BY <1>1, <1>5, <1>7, <2>1, <2>2, SavedFacts
  <1>8. {"role", "anonymous", "language", "name", "blocked"} \subseteq Column
    BY DEF Column
  <1>9. row'.anonymous = row.anonymous /\ row'.language = row.language /\ row'.name = row.name
    BY <1>1, <1>2, <1>8
  <1>10. TypeOK'
    <2>1. /\ userEntry' \in CachedUser \union {NoEntry}
          /\ profileEntry' \in CachedProfile \union {NoEntry}
          /\ late' \subseteq Columns["user"] \union Columns["profile"]
      BY <1>1, Flushed
    <2> QED
      BY <1>1, <1>2, <2>1 DEF TypeOK
  <1>11. NothingClobbered'
    BY <1>1, <1>2, <1>9 DEF IInv, NothingClobbered
  <1>12. ASSUME NEW q \in Request PROVE RequestInv(q)'
    <2>1. RequestInv(q)
      BY DEF IInv
    <2>2. request'[q].at # "insert"
      BY <1>1, <1>3, <2>1 DEF RequestInv
    <2> QED
      BY <1>1, <1>3, <2>1, <2>2 DEF RequestInv
  <1>13. ASSUME NEW q \in Request PROVE BarredInv(q)'
    <2> SUFFICES ASSUME request'[q].barred PROVE BarredInv(q)'
      BY DEF BarredInv
    <2>1. BarredInv(q) /\ request[q].barred /\ row'.role = row.role
      BY <1>3 DEF IInv
    <2>2. ~ StaleIn("role")'
      BY <1>7, <1>8, <2>1 DEF BarredInv
    <2> QED
      BY <1>1, <1>3, <2>1, <2>2 DEF BarredInv
  <1>14. ASSUME NEW q \in Request PROVE CleanInv(q)'
    <2> SUFFICES ASSUME request'[q].clean PROVE CleanInv(q)'
      BY DEF CleanInv
    <2>1. CleanInv(q) /\ request[q].clean
      BY <1>3 DEF IInv
    <2>2. ~ StaleIn("anonymous")' /\ ~ StaleIn("language")'
      BY <1>7, <1>8, <1>9, <2>1 DEF CleanInv
    <2>3. \A p \in Request : request'[p].at # "idle" /\ p # q => request'[p].act = "none"
      BY <1>3, <2>1 DEF CleanInv, InFlight, Taps
    <2>4. /\ request'[q].at \in {"arrived", "read", "act"}
          /\ request'[q].at \in {"read", "act"} =>
                /\ request'[q].dto.anonymous = row'.anonymous
                /\ request'[q].dto.language = row'.language
      BY <1>3, <1>9, <2>1 DEF CleanInv
    <2> QED
      BY <1>1, <2>2, <2>3, <2>4 DEF CleanInv, InFlight, Taps
  <1>15. ASSUME NEW c \in {"name", "blocked"}, HeardInv(c) PROVE HeardInv(c)'
    <2> SUFFICES ASSUME c \notin excused, c = "blocked" => ~ said.blocked
                 PROVE  /\ \A q \in Request :
                              request'[q].at # "idle" => request'[q].dto[c] = said[c]
                        /\ ~ StaleIn(c)'
                        /\ row'[c] = said[c] \/ \E q \in Request : WillWrite(q, c)'
      BY <1>2 DEF HeardInv, InFlight
    <2>1. /\ \A q \in Request : request[q].at # "idle" => request[q].dto[c] = said[c]
          /\ ~ StaleIn(c)
          /\ row[c] = said[c] \/ \E q \in Request : WillWrite(q, c)
      BY <1>1, <1>15 DEF HeardInv, InFlight
    <2>2. row'[c] = row[c]
      <3>1. "blocked" \in changed => "blocked" \in excused \/ said.blocked
        BY DEF Commits
      <3> QED
        BY <1>1, <1>2, <1>8, <3>1
    <2>3. \A q \in Request : WillWrite(q, c) => WillWrite(q, c)'
      BY <1>3 DEF WillWrite
    <2> QED
      BY <1>3, <1>7, <1>8, <2>1, <2>2, <2>3
  <1>16. BlockInv'
    <2> SUFFICES ASSUME "blocked" \notin excused PROVE BlockInv'
      BY <1>2 DEF BlockInv
    <2>1. IF said.blocked THEN InFlight = {} /\ (blocking = 0 => row.blocked)
                          ELSE blocking = 0
      BY <1>1 DEF IInv, BlockInv
    <2>2. \/ "blocked" \in changed /\ said.blocked /\ row'.blocked
          \/ "blocked" \notin changed /\ blocking' = blocking
      BY DEF Commits
    <2>3. InFlight' = InFlight
      BY <1>3 DEF InFlight
    <2>4. "blocked" \notin changed => row'.blocked = row.blocked
      BY <1>2, <1>8
    <2> QED
      BY <1>2, <2>1, <2>2, <2>3, <2>4 DEF BlockInv
  <1> QED
    BY <1>6, <1>10, <1>11, <1>12, <1>13, <1>14, <1>15, <1>16 DEF IInv

\* Without a row there is nothing to write, and no copy of it to drop.
LEMMA NoRowStep ==
    ASSUME IInv, row = NoRow, row' = row, request' = request, blocking' \in Nat,
           blocking' \in {blocking, blocking - 1}, UNCHANGED history,
           NEW ops \in [Table -> {"none", "delete"}], Flush(ops, Blank)
    PROVE  IInv'
  <1>1. /\ TypeOK /\ userEntry = NoEntry /\ profileEntry = NoEntry /\ late = {}
        /\ ops \in [Table -> {"none", "set", "delete"}] /\ \A t \in Table : ops[t] # "set"
    BY DEF IInv, EntryInv
  <1>2. userEntry' = NoEntry /\ profileEntry' = NoEntry /\ late' = {}
    <2>1. userEntry' = NoEntry /\ profileEntry' = NoEntry
      BY <1>1, Tables, Nobody, Flushed
    <2>2. \A c \in Column : TableOf(c) \in Table
      BY Tables DEF TableOf
    <2>3. \A c \in Column : c \notin late'
      BY <1>1, <2>2, Nobody, Flushed
    <2>4. late' \subseteq Columns["user"] \union Columns["profile"]
      BY <1>1, Nobody, Flushed
    <2> QED
      BY <2>1, <2>3, <2>4, Tables DEF Column
  <1>3. /\ said' = said /\ decided' = decided /\ excused' = excused /\ updates' = updates
        /\ blocks' = blocks /\ changes' = changes
    BY DEF history
  <1>4. TypeOK'
    BY <1>1, <1>2, <1>3 DEF TypeOK
  <1>5. NothingClobbered' /\ EntryInv'
    BY <1>1, <1>2, <1>3 DEF IInv, NothingClobbered, EntryInv
  <1>6. ASSUME NEW q \in Request PROVE RequestInv(q)' /\ BarredInv(q)' /\ CleanInv(q)'
    <2>1. RequestInv(q) /\ BarredInv(q) /\ CleanInv(q)
      BY DEF IInv
    <2>2. ~ request[q].barred /\ ~ request[q].clean
      BY <2>1 DEF BarredInv, CleanInv
    <2>3. RequestInv(q)'
      BY <2>1 DEF RequestInv
    <2>4. BarredInv(q)' /\ CleanInv(q)'
      BY <2>2 DEF BarredInv, CleanInv
    <2> QED
      BY <2>3, <2>4
  <1>7. ASSUME NEW c \in {"name", "blocked"}, HeardInv(c) PROVE HeardInv(c)'
    BY <1>3, <1>7 DEF HeardInv, InFlight
  <1>8. BlockInv'
    BY <1>1, <1>3 DEF IInv, BlockInv, InFlight, TypeOK
  <1> QED
    BY <1>4, <1>5, <1>6, <1>7, <1>8 DEF IInv

LEMMA OnUserBlockBotStep ==
    ASSUME IInv, OnUserBlockBot
    PROVE  IInv'
  <1> DEFINE ops == Journal(NoOps, {"blocked"})
             dto == [row EXCEPT !.blocked = TRUE]
  <1>1. /\ TypeOK /\ blocking > 0 /\ blocking' = blocking - 1 /\ request' = request
        /\ UNCHANGED history /\ Flush(ops, Blank)
    BY DEF IInv, OnUserBlockBot
  <1>2. blocking' \in Nat /\ blocking # 0
    BY <1>1 DEF TypeOK
  <1>3. NoOps \in [Table -> {"none", "set", "delete"}] /\ \A t \in Table : NoOps[t] = "none"
    BY Tables DEF NoOps
  <1>4. ops \in [Table -> {"none", "delete"}] /\ ops["profile"] = "delete"
    BY <1>3, JournalFacts, Tables DEF Journal
  <1> HIDE DEF ops
  <1>5. CASE row = NoRow
    <2>1. row' = row
      BY <1>5 DEF OnUserBlockBot
    <2> QED
      BY <1>1, <1>2, <1>4, <1>5, <2>1, NoRowStep
  <1>6. CASE row # NoRow
    <2>1. row \in Row /\ Write(dto, {"blocked"})
      BY <1>1, <1>6 DEF TypeOK, OnUserBlockBot
    <2>2. dto \in Row /\ dto["blocked"] = TRUE
      BY <2>1 DEF Row
    <2> HIDE DEF dto
    <2>3. /\ row' \in Row
          /\ \A c \in Column : row'[c] = IF c \in {"blocked"} THEN dto[c] ELSE row[c]
      BY <2>1, <2>2, Written
    <2>4. \A c \in Column \ {"blocked"} : row'[c] = row[c]
      BY <2>3
    <2>5. row'.blocked = TRUE /\ row'.role = row.role
      BY <2>2, <2>3 DEF Column
    <2>6. row.role = decided.role
      BY <1>6 DEF IInv, NothingClobbered
    <2>7. /\ said' = said /\ excused' = excused /\ updates' = updates /\ blocks' = blocks
          /\ decided' = decided /\ changes' = changes
      BY <1>1 DEF history
    <2>8. "blocked" \in excused \/ said.blocked
      BY <1>2 DEF IInv, BlockInv
    <2>9. /\ request' \in [Request -> Update] /\ changes' \in 0 .. MaxEvents
          /\ decided' \in [role : Role, anonymous : BOOLEAN, language : Language]
      BY <1>1, <2>7 DEF TypeOK
    <2>10. ops[TableOf("blocked")] = "delete"
      BY <1>4, Tables DEF TableOf
    <2>11. row'.blocked /\ ("blocked" \notin excused => said.blocked)
      BY <2>5, <2>8
    <2>12. row'.role = decided'.role /\ row \in Row /\ Blank \in Row
      BY <2>1, <2>5, <2>6, <2>7, Nobody
    <2>13. \A q \in Request :
              /\ request'[q].at = request[q].at /\ request'[q].act = request[q].act
              /\ request'[q].changed = request[q].changed
              /\ request'[q].journal = request[q].journal /\ request'[q].dto = request[q].dto
              /\ request'[q].clean = request[q].clean
              /\ request'[q].barred => request[q].barred /\ row'.role = row.role
      BY <1>1, <2>5
    <2>14. /\ {"blocked"} \subseteq {"role", "blocked"}
           /\ \A c \in {"blocked"} : ops[TableOf(c)] = "delete"
           /\ decided'.anonymous = decided.anonymous /\ decided'.language = decided.language
           /\ UNCHANGED <<said, excused, updates, blocks>>
      BY <2>7, <2>10
    <2>15. "blocked" \in excused \/ ("blocked" \in {"blocked"} /\ said.blocked /\ row'.blocked)
      BY <2>11
    <2>16. Commits(Blank, ops, {"blocked"})
      BY <1>1, <1>2, <1>4, <2>3, <2>4, <2>8, <2>9, <2>12, <2>13, <2>14, <2>15 DEF Commits
    <2> QED
      BY <2>16, OthersStep
  <1> QED
    BY <1>5, <1>6
LEMMA ChangeRoleStep ==
    ASSUME IInv, NEW role \in Role, ChangeRole(role)
    PROVE  IInv'
  <1> DEFINE ops == Journal(NoOps, {"role"})
             dto == [Loaded EXCEPT !.role = role]
             still(q) == request[q].barred /\ role = "banned"
  <1>1. /\ TypeOK /\ row \in Row /\ changes < MaxEvents /\ changes' = changes + 1
        /\ Write(dto, {"role"}) /\ Flush(ops, Blank)
        /\ decided' = [decided EXCEPT !.role = role]
        /\ request' = [q \in Request |-> [request[q] EXCEPT !.barred = still(q)]]
        /\ UNCHANGED <<blocking, said, excused, updates, blocks>>
    BY DEF IInv, TypeOK, ChangeRole
  <1>2. \A q \in Request :
           still(q) \in BOOLEAN /\ (still(q) => request[q].barred /\ role = "banned")
    OBVIOUS
  <1>3. dto \in Row /\ dto["role"] = role
    BY <1>1, LoadedFacts DEF Row
  <1>4. NoOps \in [Table -> {"none", "set", "delete"}] /\ \A t \in Table : NoOps[t] = "none"
    BY Tables DEF NoOps
  <1>5. ops \in [Table -> {"none", "delete"}] /\ \A c \in {"role"} : ops[TableOf(c)] = "delete"
    BY <1>4, JournalFacts, Tables DEF Journal, TableOf
  <1> HIDE DEF ops, dto, still
  <1>6. /\ row' \in Row
        /\ \A c \in Column : row'[c] = IF c \in {"role"} THEN dto[c] ELSE row[c]
    BY <1>1, <1>3, Written
  <1>7. row'.role = role /\ \A c \in Column \ {"role"} : row'[c] = row[c]
    BY <1>3, <1>6 DEF Column
  <1>8. /\ decided' \in [role : Role, anonymous : BOOLEAN, language : Language]
        /\ decided'.role = role /\ decided'.anonymous = decided.anonymous
        /\ decided'.language = decided.language
    BY <1>1 DEF TypeOK
  <1>9. \A q \in Request :
           /\ request'[q] \in Update
           /\ request'[q].at = request[q].at /\ request'[q].act = request[q].act
           /\ request'[q].changed = request[q].changed
           /\ request'[q].journal = request[q].journal /\ request'[q].dto = request[q].dto
           /\ request'[q].clean = request[q].clean /\ request'[q].barred = still(q)
    <2>1. TAKE q \in Request
    <2>2. request'[q] = [request[q] EXCEPT !.barred = still(q)] /\ request[q] \in Update
      BY <1>1 DEF TypeOK
    <2> QED
      BY <1>2, <2>2 DEF Update
  <1>10. request' \in [Request -> Update]
    BY <1>1, <1>9
  <1>11. \A q \in Request : request'[q].barred => request[q].barred /\ row'.role = row.role
    BY <1>2, <1>7, <1>9 DEF IInv, BarredInv
  <1>12. changes' \in 0 .. MaxEvents /\ blocking' \in Nat
    BY <1>1, BoundAssumption DEF TypeOK
  <1>13. \/ "blocked" \in excused
         \/ "blocked" \in {"role"} /\ said.blocked /\ row'.blocked
         \/ "blocked" \notin {"role"} /\ blocking' = blocking
    BY <1>1
  <1>14. Commits(Blank, ops, {"role"})
    BY <1>1, <1>5, <1>6, <1>7, <1>8, <1>9, <1>10, <1>11, <1>12, <1>13, Nobody DEF Commits
  <1> QED
    BY <1>14, OthersStep

LEMMA ExpireStep ==
    ASSUME IInv, Expire
    PROVE  IInv'
  <1>1. PICK t \in Table : /\ UNCHANGED <<row, request, blocking, history>>
                           /\ Flush([NoOps EXCEPT ![t] = "delete"], Blank)
    BY DEF Expire
  <1> DEFINE ops == [NoOps EXCEPT ![t] = "delete"]
  <1>2. ops \in [Table -> {"none", "delete"}] /\ Flush(ops, Blank)
    BY <1>1 DEF NoOps
  <1> HIDE DEF ops
  <1>3. /\ said' = said /\ decided' = decided /\ excused' = excused /\ updates' = updates
        /\ blocks' = blocks /\ changes' = changes
    BY <1>1 DEF history
  <1>4. /\ blocking \in Nat /\ changes \in 0 .. MaxEvents /\ request \in [Request -> Update]
        /\ decided \in [role : Role, anonymous : BOOLEAN, language : Language]
    BY DEF IInv, TypeOK
  <1>5. CASE row = NoRow
    BY <1>1, <1>2, <1>4, <1>5, NoRowStep
  <1>6. CASE row # NoRow
    <2>1. row \in Row /\ row.role = decided.role
      BY <1>6 DEF IInv, TypeOK, NothingClobbered
    <2>2. \/ "blocked" \in excused
          \/ "blocked" \in {} /\ said.blocked /\ row'.blocked
          \/ "blocked" \notin {} /\ blocking' = blocking
      BY <1>1
    <2>3. Commits(Blank, ops, {})
      BY <1>1, <1>2, <1>3, <1>4, <2>1, <2>2, Nobody DEF Commits
    <2> QED
      BY <2>3, OthersStep
  <1> QED
    BY <1>5, <1>6

LEMMA Stutter == ASSUME IInv, UNCHANGED vars PROVE IInv'
  <1>1. /\ row' = row /\ userEntry' = userEntry /\ profileEntry' = profileEntry /\ late' = late
        /\ request' = request /\ blocking' = blocking /\ said' = said /\ decided' = decided
        /\ excused' = excused /\ updates' = updates /\ blocks' = blocks /\ changes' = changes
    BY DEF vars, cache, history
  <1>2. TypeOK' /\ NothingClobbered' /\ EntryInv'
    BY <1>1 DEF IInv, TypeOK, NothingClobbered, EntryInv
  <1>3. BlockInv'
    BY <1>1 DEF IInv, BlockInv, InFlight
  <1>4. \A c \in Column : StaleIn(c)' <=> StaleIn(c)
    BY <1>1, StaleColumn
  <1>5. {"role", "anonymous", "language", "name", "blocked"} \subseteq Column
    BY DEF Column
  <1>6. ASSUME NEW q \in Request PROVE RequestInv(q)' /\ BarredInv(q)' /\ CleanInv(q)'
    <2>1. RequestInv(q) /\ BarredInv(q) /\ CleanInv(q)
      BY DEF IInv
    <2>2. RequestInv(q)'
      BY <1>1, <2>1 DEF RequestInv
    <2>3. BarredInv(q)'
      BY <1>1, <1>4, <1>5, <2>1 DEF BarredInv
    <2>4. CleanInv(q)'
      BY <1>1, <1>4, <1>5, <2>1 DEF CleanInv, InFlight, Taps
    <2> QED
      BY <2>2, <2>3, <2>4
  <1>7. HeardInv("name")' /\ HeardInv("blocked")'
    BY <1>1, <1>4, <1>5 DEF IInv, HeardInv, InFlight, WillWrite
  <1> QED
    BY <1>2, <1>3, <1>6, <1>7 DEF IInv

LEMMA Initially == Init => IInv
  <1> SUFFICES ASSUME Init PROVE IInv
    OBVIOUS
  <1>1. \A q \in Request : request[q] = Idle
    BY DEF Init
  <1>2. Blank.role = "user" /\ Blank.anonymous = FALSE /\ Blank.language = DefaultLanguage
    BY DEF Blank, NewRow
  <1>3. TypeOK
    <2>1. Blank.name \in Name
      BY Nobody, RowFields
    <2>2. /\ said \in [name : Name, blocked : BOOLEAN]
          /\ decided \in [role : Role, anonymous : BOOLEAN, language : Language]
      BY <2>1, LanguageAssumption DEF Init, Role
    <2>3. request \in [Request -> Update]
      BY IdleFacts DEF Init
    <2> QED
      BY <2>2, <2>3, Nobody, BoundAssumption DEF Init, TypeOK
  <1>4. NothingClobbered
    BY <1>2 DEF Init, NothingClobbered
  <1>5. EntryInv
    BY DEF Init, EntryInv
  <1>6. \A q \in Request : RequestInv(q) /\ BarredInv(q) /\ CleanInv(q)
    BY <1>1, IdleFacts DEF RequestInv, BarredInv, CleanInv
  <1>7. ASSUME NEW c \in Column PROVE ~ StaleIn(c)
    <2>1. TableOf(c) \in Table
      BY Tables DEF TableOf
    <2>2. c \notin late /\ \A q \in Request : request[q].journal[TableOf(c)] # "set"
      BY <1>1, <2>1, IdleFacts, Tables DEF Init
    <2> QED
      BY <2>2, StaleColumn
  <1>8. HeardInv("name") /\ HeardInv("blocked")
    <2>1. InFlight = {}
      BY <1>1, IdleFacts DEF InFlight
    <2>2. row # NoRow => row.name = said.name /\ row.blocked = said.blocked
      BY Nobody DEF Init
    <2> QED
      BY <1>7, <2>1, <2>2 DEF HeardInv, Column
  <1>9. BlockInv
    BY DEF Init, BlockInv
  <1> QED
    BY <1>3, <1>4, <1>5, <1>6, <1>8, <1>9 DEF IInv
-----------------------------------------------------------------------------
(***************************************************************************)
(* Every step of the updates, of the admins and of the cache keeps the     *)
(* invariant.                                                              *)
(***************************************************************************)
THEOREM Invariance == Spec => []IInv
  <1>1. ASSUME IInv, [Next]_vars PROVE IInv'
    <2>1. CASE \E r \in Request : RequestStep(r)
      <3>1. PICK r \in Request : RequestStep(r)
        BY <2>1
      <3>2. CASE \E n \in Name, act \in Acts : Arrive(r, n, act)
        BY <1>1, <3>2, ArriveStep
      <3>3. CASE Read(r) \/ ReadAfterInsert(r)
        BY <1>1, <3>3, ReadStep
      <3>4. CASE Insert(r)
        BY <1>1, <3>4, InsertStep
      <3>5. CASE Commit(r)
        <4>1. request[r].at = "read" \/ request[r].at = "insert"
          BY <3>5 DEF Commit
        <4> QED
          BY <1>1, <3>5, <4>1, CommitUpdateStep, CommitInsertStep
      <3>6. CASE Nothing(r) \/ Fail(r)
        BY <1>1, <3>6, EndStep
      <3>7. CASE PreferAnonToggle(r) \/ LanguageSelected(r)
        BY <1>1, <3>7, TapStep
      <3> QED
        BY <3>1, <3>2, <3>3, <3>4, <3>5, <3>6, <3>7 DEF RequestStep
    <2>2. CASE BlockArrive
      BY <1>1, <2>2, BlockArriveStep
    <2>3. CASE OnUserBlockBot
      BY <1>1, <2>3, OnUserBlockBotStep
    <2>4. CASE \E role \in Role : ChangeRole(role)
      BY <1>1, <2>4, ChangeRoleStep
    <2>5. CASE Expire
      BY <1>1, <2>5, ExpireStep
    <2>6. CASE UNCHANGED vars
      BY <1>1, <2>6, Stutter
    <2> QED
      BY <1>1, <2>1, <2>2, <2>3, <2>4, <2>5, <2>6 DEF Next
  <1> QED
    BY <1>1, Initially, PTL DEF Spec


(***************************************************************************)
(* What the rows, the cached DTOs and the updates in flight hold has its   *)
(* type.                                                                   *)
(***************************************************************************)
THEOREM TypeCorrect == Spec => []TypeOK
  BY Invariance, PTL DEF IInv

(***************************************************************************)
(* Role, anonymity and language are in the row as they were last decided:  *)
(* a save writes the columns assigned by its own update                    *)
(* (database/repository) and no update assigns one of these without        *)
(* deciding it.                                                            *)
(***************************************************************************)
THEOREM DecisionsSurvive == Spec => []NothingClobbered
  BY Invariance, PTL DEF IInv

(***************************************************************************)
(* BanCheckMiddleware stops an update that came when a ban stood and no    *)
(* copy of the row denied it: a copy that was right then cannot be         *)
(* replaced by one that is not, unless the ban is lifted.                  *)
(***************************************************************************)
THEOREM TheBannedAreStopped == Spec => []BannedIsStopped
  <1>1. IInv => BannedIsStopped
    BY DEF IInv, BarredInv, BannedIsStopped
  <1> QED
    BY <1>1, Invariance, PTL

(***************************************************************************)
(* When nothing is in flight the row has the name and the block of the     *)
(* last thing heard of the user: whoever came last either found it in the  *)
(* row or assigned it, with the exceptions kept in `excused`.              *)
(***************************************************************************)
THEOREM TheRowFollows == Spec => []RowFollows
  <1>1. ASSUME IInv, Quiet, row # NoRow
        PROVE  /\ row.blocked = said.blocked \/ "blocked" \in excused
               /\ row.name = said.name \/ "name" \in excused
    <2>1. \A q \in Request : request[q].at = "idle"
      BY <1>1 DEF Quiet, InFlight
    <2>2. \A q \in Request, c \in {"name", "blocked"} : ~ WillWrite(q, c)
      BY <2>1 DEF WillWrite
    <2>3. HeardInv("name") /\ HeardInv("blocked") /\ BlockInv
      BY <1>1 DEF IInv
    <2>4. row.name = said.name \/ "name" \in excused
      BY <1>1, <2>2, <2>3 DEF HeardInv
    <2>5. row.blocked = said.blocked \/ "blocked" \in excused
      <3>1. CASE ~ said.blocked
        BY <1>1, <2>2, <2>3, <3>1 DEF HeardInv
      <3>2. CASE said.blocked
        <4>1. "blocked" \notin excused => row.blocked
          BY <1>1, <2>3, <3>2 DEF BlockInv, Quiet
        <4>2. row["blocked"] \in BOOLEAN /\ said.blocked \in BOOLEAN
          BY <1>1, RowFields DEF IInv, TypeOK
        <4> QED
          BY <3>2, <4>1, <4>2
      <3> QED
        BY <3>1, <3>2
    <2> QED
      BY <2>4, <2>5
  <1>2. IInv => RowFollows
    BY <1>1 DEF RowFollows
  <1> QED
    BY <1>2, Invariance, PTL

(***************************************************************************)
(* A tap that no other tap overlaps flips the stored flag, and one that is *)
(* ignored had chosen the stored language.                                 *)
(***************************************************************************)
THEOREM TapsDoWhatWasMeant == Spec => TapsApply
  <1>1. ASSUME IInv, [Next]_vars, NEW r \in Request, request[r].clean
        PROVE  /\ PreferAnonToggle(r) => row'.anonymous = ~ row.anonymous
               /\ (Nothing(r) /\ Taps(r)) => row.language = request[r].act
    <2>1. CleanInv(r) /\ row # NoRow /\ row \in Row /\ request[r].dto \in Row
      BY <1>1 DEF IInv, CleanInv, TypeOK, Update
    <2>2. request[r].at = "act" => /\ request[r].dto.anonymous = row.anonymous
                                   /\ request[r].dto.language = row.language
      BY <1>1, <2>1 DEF CleanInv
    <2>3. ASSUME PreferAnonToggle(r) PROVE row'.anonymous = ~ row.anonymous
      <3> DEFINE value == ~ request[r].dto.anonymous
                 dto == [request[r].dto EXCEPT !["anonymous"] = value]
                 changed == (request[r].changed \intersect Columns["profile"]) \union {"anonymous"}
      <3>1. Write(dto, changed) /\ request[r].at = "act"
        BY <2>3 DEF PreferAnonToggle, Save
      <3>2. value = ~ row.anonymous /\ value \in BOOLEAN
        BY <2>2, <3>1
      <3>3. "anonymous" \in changed
        OBVIOUS
      <3> HIDE DEF value
      <3>4. dto \in Row /\ dto["anonymous"] = value
        BY <2>1, <3>2 DEF Row
      <3> HIDE DEF dto, changed
      <3>5. \A c \in Column : row'[c] = IF c \in changed THEN dto[c] ELSE row[c]
        BY <2>1, <3>1, <3>4, Written
      <3> QED
        BY <3>2, <3>3, <3>4, <3>5 DEF Column
    <2>4. ASSUME Nothing(r), Taps(r) PROVE row.language = request[r].act
      BY <2>2, <2>4 DEF Nothing
    <2> QED
      BY <2>3, <2>4
  <1>2. ASSUME IInv, [Next]_vars
        PROVE  [\A r \in Request : request[r].clean =>
                  /\ PreferAnonToggle(r) => row'.anonymous = ~ row.anonymous
                  /\ (Nothing(r) /\ Taps(r)) => row.language = request[r].act]_vars
    BY <1>1, <1>2
  <1> QED
    BY <1>2, Invariance, PTL DEF Spec, TapsApply
=============================================================================
