------------------------------- MODULE Sentry -------------------------------
(***************************************************************************)
(* The administration service: sessions that add, update and delete        *)
(* accounts while other sessions and the web page do the same.             *)
(*                                                                         *)
(* Source: src/Server/src/vipc/sentry.rs, authenticate of                  *)
(* src/Server/src/server/mod.rs and create_user of src/Server/src/web.     *)
(* The database mutex is held for one lookup or one write, not for a       *)
(* command: update, delete, add group and add user read under one lock and *)
(* write under another, and the two steps are separate actions here.       *)
(* Requests that are refused change nothing and are not actions.           *)
(***************************************************************************)
EXTENDS Directory

CONSTANTS
  Sessions,
  Seed,          \* the names of the account the migrations create
  CompanyNames, GroupNames, UserNames,   \* the spellings requests use
  Passwords, Quotas,
  Grants,        \* the authorities requests carry
  MaxId,         \* bound: row ids
  MaxWrites      \* bound: changes of the tables

ASSUME SentryAssumption ==
  /\ CompanyNames \cup GroupNames \cup UserNames \subseteq Names
  /\ Seed \in CompanyNames \X GroupNames \X UserNames
  /\ Grants \subseteq Levels
  /\ MaxId \in Nat \ {0} /\ MaxWrites \in Nat

VARIABLES
  actor,     \* the account each session signed on as, or NoActor
  pending,   \* the write a session has prepared and not yet made, or Idle
  writes     \* the changes made so far

vars == <<companies, groups, users, actor, pending, writes>>

Unset == -1
Settings == [authority : Grants \cup {Unset}, quota : Quotas \cup {Unset}]

NoActor == [authority |-> Unset]
Idle == [op |-> "idle"]

SignedOn(s) == actor[s] # NoActor
Ready(s) == SignedOn(s) /\ pending[s] = Idle

\* The rows the migrations create.
Init ==
  /\ \E q \in Quotas, p \in Passwords :
       /\ companies = {[id |-> 1, name |-> Seed[1], quota |-> q]}
       /\ groups = {[id |-> 1, company_id |-> 1, name |-> Seed[2], quota |-> q]}
       /\ users = {[id |-> 1, group_id |-> 1, name |-> Seed[3], password |-> p,
                    authority |-> SYSTEM_ADMIN, quota |-> q]}
  /\ actor = [s \in Sessions |-> NoActor]
  /\ pending = [s \in Sessions |-> Idle]
  /\ writes = 0

-----------------------------------------------------------------------------
(* What an account may do.                                                  *)

\* Faulty variant: a company administrator is held to nothing.
ScopeWide(authority) == IF authority = GROUP_ADMIN THEN 2 ELSE 0

\* How many names of a record an administrator has to share.
Scope(authority) ==
  CASE authority = SYSTEM_ADMIN -> 0
    [] authority = COMPANY_ADMIN -> 1
    [] authority = GROUP_ADMIN -> 2
    [] OTHER -> 3

Outside(a, names) ==
  LET depth == IF a.authority = NORMAL THEN 3 ELSE Min({Depth(names), Scope(a.authority)})
  IN \E i \in 1 .. depth : ~Same(names[i], a.names[i])

\* Faulty variant: the level alone decides.
DenyWriteAnywhere(a, names) == a.authority < Required(LevelOf(names))

DenyWrite(a, names) ==
  a.authority < Required(LevelOf(names)) \/ Outside(a, names)

\* Faulty variant: the grant is not compared with the actor's own authority.
MayGrantAny(a, authority) == TRUE

MayGrant(a, authority) == authority <= a.authority

\* The gate of change_password, on the spelling of the request.
DenyPassword(a, names) ==
  names # a.names /\ (a.authority < GROUP_ADMIN \/ Outside(a, names))

\* query: the row it answers, addressed by all three names.
Query(a, level, names) ==
  LET triple == CASE level = "company" -> <<names[1], names[1], names[1]>>
                  [] level = "group" -> <<names[1], names[2], names[2]>>
                  [] level = "user" -> names
  IN IF Outside(a, triple) THEN {} ELSE FindRows(triple)

-----------------------------------------------------------------------------
(* Sign-on and sign-off.                                                    *)

Account(u) ==
  LET g == GroupOf(u)
      c == CompanyOf(g)
  IN [id |-> u.id, group_id |-> g.id, company_id |-> c.id,
      names |-> <<c.name, g.name, u.name>>, authority |-> u.authority]

\* authenticate found the account and the password is its own.
SignOn(s) ==
  /\ pending[s] = Idle
  /\ \E u \in users, p \in Passwords :
       /\ u.password = p
       /\ actor' = [actor EXCEPT ![s] = Account(u)]
  /\ UNCHANGED <<tables, pending, writes>>

SignOff(s) ==
  /\ Ready(s)
  /\ actor' = [actor EXCEPT ![s] = NoActor]
  /\ UNCHANGED <<tables, pending, writes>>

-----------------------------------------------------------------------------
(* The first half of a command: the directory is read and the request       *)
(* checked against it.                                                      *)

Prepare(s, write) ==
  pending' = [pending EXCEPT ![s] = write] /\ UNCHANGED <<tables, actor, writes>>

\* A field the request leaves out keeps the value of the row that was read.
Update(s, row, set) ==
  LET authority == IF set.authority = Unset THEN row.authority ELSE set.authority
      quota == IF set.quota = Unset THEN row.quota ELSE set.quota
  IN
  /\ Ready(s)
  /\ ~DenyWrite(actor[s], row.names)
  /\ MayGrant(actor[s], authority)
  /\ Prepare(s, [op |-> "update", names |-> row.names,
                 authority |-> authority, quota |-> quota])

IsActor(a, names) == names = a.names

Delete(s, row) ==
  /\ Ready(s)
  /\ ~DenyWrite(actor[s], row.names)
  /\ ~IsActor(actor[s], row.names)
  /\ Prepare(s, [op |-> "delete", names |-> row.names])

AddGroup(s, c, g, quota) ==
  /\ Ready(s)
  /\ actor[s].authority >= COMPANY_ADMIN
  /\ \E id \in CompanyIds(c) :
       Prepare(s, [op |-> "group", parent |-> id, name |-> g, quota |-> quota])

AddUser(s, c, g, u, password, authority, quota) ==
  /\ Ready(s)
  /\ actor[s].authority >= GROUP_ADMIN
  /\ MayGrant(actor[s], authority)
  /\ \E id \in GroupIds(c, g) :
       Prepare(s, [op |-> "user", parent |-> id, name |-> u, password |-> password,
                   authority |-> authority, quota |-> quota])

-----------------------------------------------------------------------------
(* The second half: one write, addressed by name or by the parent's id.     *)

\* Every change of the tables counts towards the bound.
Counted ==
  /\ writes' = IF tables' = tables THEN writes ELSE writes + 1
  /\ writes' <= MaxWrites

NoSessions ==
  actor' = [s \in Sessions |-> NoActor] /\ pending' = [s \in Sessions |-> Idle]

Done(s) == pending' = [pending EXCEPT ![s] = Idle] /\ UNCHANGED actor /\ Counted

WriteUpdate(s) ==
  LET p == pending[s]
      n == p.names
      level == LevelOf(n)
  IN
  /\ p.op = "update"
  /\ companies' = {IF level = "company" /\ c.id \in CompanyIds(n[1])
                     THEN [c EXCEPT !.quota = p.quota] ELSE c : c \in companies}
  /\ groups' = {IF level = "group" /\ g.id \in GroupIds(n[1], n[2])
                  THEN [g EXCEPT !.quota = p.quota] ELSE g : g \in groups}
  /\ users' = {IF level = "user" /\ u.id \in UserIds(n[1], n[2], n[3])
                 THEN [u EXCEPT !.authority = p.authority, !.quota = p.quota] ELSE u :
                 u \in users}
  /\ Done(s)

\* The statements of a delete, as far as they are executed.
DeleteRow(n, done) ==
  CASE LevelOf(n) = "company" -> DeleteCompanies(CompanyIds(n[1]), done)
    [] LevelOf(n) = "group" -> DeleteGroups(GroupIds(n[1], n[2]), done) /\ UNCHANGED companies
    [] LevelOf(n) = "user" ->
         DeleteUsers(UserIds(n[1], n[2], n[3])) /\ UNCHANGED <<companies, groups>>

WriteDelete(s) ==
  /\ pending[s].op = "delete"
  /\ DeleteRow(pending[s].names, 3)
  /\ Done(s)

\* A statement fails, or the process stops, with the statements before it done.
DeleteStops(s, done) ==
  /\ pending[s].op = "delete"
  /\ LevelOf(pending[s].names) \in (IF done = 1 THEN {"company", "group"} ELSE {"company"})
  /\ DeleteRow(pending[s].names, done)
  /\ \/ Done(s)
     \/ NoSessions /\ Counted

\* A constraint that fails leaves the table as it is.
WriteGroup(s) ==
  LET p == pending[s] IN
  /\ p.op = "group"
  /\ IF CanInsertGroup(p.parent, p.name)
       THEN InsertGroup(p.parent, p.name, p.quota) /\ NewId(groups) <= MaxId
       ELSE UNCHANGED groups
  /\ UNCHANGED <<companies, users>>
  /\ Done(s)

WriteUser(s) ==
  LET p == pending[s] IN
  /\ p.op = "user"
  /\ IF CanInsertUser(p.parent, p.name)
       THEN /\ InsertUser(p.parent, p.name, p.password, p.authority, p.quota)
            /\ NewId(users) <= MaxId
       ELSE UNCHANGED users
  /\ UNCHANGED <<companies, groups>>
  /\ Done(s)

-----------------------------------------------------------------------------
(* Commands that hold the lock once.                                        *)

AddCompany(s, c, quota) ==
  /\ Ready(s)
  /\ actor[s].authority >= SYSTEM_ADMIN
  /\ CanInsertCompany(c) /\ NewId(companies) <= MaxId
  /\ InsertCompany(c, quota)
  /\ UNCHANGED <<groups, users, actor, pending>>
  /\ Counted

ChangePassword(s, names, password) ==
  /\ Ready(s)
  /\ ~DenyPassword(actor[s], names)
  /\ SetPassword(UserIds(names[1], names[2], names[3]), password)
  /\ UNCHANGED <<companies, groups, actor, pending>>
  /\ Counted

\* The web page keeps the lock from its checks to the insert.
CreateUser(c, g, u, password, authority) ==
  /\ \E id \in GroupIds(c, g), quota \in Quotas :
       /\ CanInsertUser(id, u) /\ NewId(users) <= MaxId
       /\ InsertUser(id, u, password, authority, quota)
  /\ UNCHANGED <<companies, groups, actor, pending>>
  /\ Counted

\* The process ends and starts again: the tables survive, the sessions do not.
Restart == NoSessions /\ UNCHANGED <<tables, writes>>

-----------------------------------------------------------------------------

Adds(s) ==
  \/ \E c \in CompanyNames, q \in Quotas : AddCompany(s, c, q)
  \/ \E c \in CompanyNames, g \in GroupNames, q \in Quotas : AddGroup(s, c, g, q)
  \/ \E c \in CompanyNames, g \in GroupNames, u \in UserNames, p \in Passwords,
        a \in Grants, q \in Quotas : AddUser(s, c, g, u, p, a, q)

Edits(s) ==
  \/ \E row \in Rows, set \in Settings : Update(s, row, set)
  \/ \E row \in Rows : Delete(s, row)
  \/ \E c \in CompanyNames, g \in GroupNames, u \in UserNames, p \in Passwords :
       ChangePassword(s, <<c, g, u>>, p)

Writes(s) ==
  \/ WriteUpdate(s) \/ WriteDelete(s) \/ WriteGroup(s) \/ WriteUser(s)
  \/ \E done \in 1 .. 2 : DeleteStops(s, done)

Others ==
  \/ \E c \in CompanyNames, g \in GroupNames, u \in UserNames, p \in Passwords, a \in Grants :
       CreateUser(c, g, u, p, a)
  \/ Restart

Next ==
  \/ \E s \in Sessions : SignOn(s) \/ SignOff(s) \/ Adds(s) \/ Edits(s) \/ Writes(s)
  \/ Others

Spec == Init /\ [][Next]_vars

-----------------------------------------------------------------------------

\* Every variable has its type.
TypeOK ==
  /\ companies \subseteq [id : 1 .. MaxId, name : Names, quota : Quotas]
  /\ groups \subseteq [id : 1 .. MaxId, company_id : 1 .. MaxId, name : Names, quota : Quotas]
  /\ users \subseteq [id : 1 .. MaxId, group_id : 1 .. MaxId, name : Names,
                      password : Passwords, authority : Levels, quota : Quotas]
  /\ \A s \in Sessions : SignedOn(s) => actor[s].authority \in Levels
  /\ \A s \in Sessions : pending[s].op \in {"idle", "update", "delete", "group", "user"}
  /\ writes \in 0 .. MaxWrites

\* A group belongs to a company that exists and a user to a group that exists,
\* although the parent of a new record is looked up before the write and may be
\* deleted in between (sentry.rs:689-698, 750-759; db/mod.rs:34), and a delete may
\* stop between its statements (db/users.rs:303-327).
NoOrphans ==
  /\ \A g \in groups : \E c \in companies : c.id = g.company_id
  /\ \A u \in users : \E g \in groups : g.id = u.group_id

\* An index of the listing addresses one record: whatever sessions and the web
\* page add at the same time, no two records have the same place in the order
\* (users.rs:94; sentry.rs:796, "the insert *is* the duplicate check").
OneRowPerCursor == Cardinality({Index(r) : r \in Rows}) = Cardinality(Rows)

Wrote(s, ops) == pending[s].op \in ops /\ pending'[s] = Idle /\ actor'[s] = actor[s]

\* The records an account administers.  A group named like its company counts as
\* the company itself (depth, sentry.rs:971-979), so it is open to the
\* administrators of the company's other groups.
Administers(a, names) ==
  /\ a.authority < SYSTEM_ADMIN => Same(names[1], a.names[1])
  /\ a.authority < COMPANY_ADMIN =>
       Same(names[2], a.names[2]) \/ Same(names[1], names[2])

\* "a system administrator over the whole directory, a company administrator over
\* its own company, a group administrator over its own group" (sentry.rs:579-582):
\* every record an update or a delete changes, those below the addressed one
\* included, is in the company, or in the company and group, of the account the
\* session signed on as, even if the directory has changed since the check.  The
\* one exception to the comment is the group that has the name of its company.
WritesInScope ==
  [][\A s \in Sessions : Wrote(s, {"update", "delete"}) =>
       \A row \in Rows \ Rows' : Administers(actor[s], row.names)]_vars

\* No session gives an account more authority than it signed on with itself, by
\* an update or by adding a user (sentry.rs:429-440, 732-743).
GrantsWithinAuthority ==
  [][\A s \in Sessions : Wrote(s, {"update", "user"}) =>
       \A u \in users' \ users : u.authority <= actor[s].authority]_vars

\* "an update can never reach a row the client was not allowed to read"
\* (sentry.rs:392-393): whatever record a cursor addresses by the time it is used,
\* an account that update or delete would let change it gets it from a query, by
\* the names it was signed on with and the directory as it is now.  A record of
\* another level with the same names may be answered in its place: a query cannot
\* tell the two apart.
EditableIsReadable ==
  \A s \in Sessions : SignedOn(s) =>
    \A row \in Rows : ~DenyWrite(actor[s], row.names) =>
      \E answer \in Query(actor[s], row.level, row.names) :
        answer = row \/ answer.level # row.level

=============================================================================
