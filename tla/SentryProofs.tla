---------------------------- MODULE SentryProofs ----------------------------
(***************************************************************************)
(* Administration for any number of sessions, names and records: deletes   *)
(* leave no orphans, no session grants more than its own authority, and no *)
(* session changes a record outside what it administers.                   *)
(***************************************************************************)
EXTENDS Sentry, NumberProofs

-----------------------------------------------------------------------------
(* The inductive invariant.                                                 *)

Companies == [id : 1 .. MaxId, name : CompanyNames, quota : Quotas]

Groups == [id : 1 .. MaxId, company_id : 1 .. MaxId, name : GroupNames, quota : Quotas]

Users ==
  [id : 1 .. MaxId, group_id : 1 .. MaxId, name : UserNames, password : Passwords,
   authority : Levels, quota : Quotas]

UniqueIds(table) == \A r, q \in table : r.id = q.id => r = q

TablesOK ==
  /\ companies \subseteq Companies /\ groups \subseteq Groups /\ users \subseteq Users
  /\ UniqueIds(companies) /\ UniqueIds(groups) /\ UniqueIds(users)
  /\ NoOrphans

\* A write that is prepared passed the checks of the account it is made for.
WriteOK(a, p) ==
  /\ p.op \in {"idle", "update", "delete", "group", "user"}
  /\ p.op # "idle" => a.authority \in Levels
  /\ p.op \in {"update", "delete"} => ~DenyWrite(a, p.names)
  /\ p.op \in {"update", "user"} => p.authority \in Levels /\ p.authority <= a.authority
  /\ p.op \in {"update", "group", "user"} => p.quota \in Quotas
  /\ p.op = "group" => p.name \in GroupNames
  /\ p.op = "user" => p.name \in UserNames /\ p.password \in Passwords

SessionsOK ==
  /\ actor = [s \in Sessions |-> actor[s]]
  /\ pending = [s \in Sessions |-> pending[s]]
  /\ \A s \in Sessions : actor[s] # NoActor => actor[s].authority \in Levels
  /\ \A s \in Sessions : WriteOK(actor[s], pending[s])

WritesOK == writes \in 0 .. MaxWrites

Inv == TablesOK /\ SessionsOK /\ WritesOK

-----------------------------------------------------------------------------
(* Sessions.                                                                *)

LEMMA IdleOK == ASSUME NEW a PROVE WriteOK(a, Idle)
<1>1. Idle.op = "idle"
  BY DEF Idle
<1> QED
  BY <1>1 DEF WriteOK

LEMMA CountedOK ==
  ASSUME WritesOK, Counted
  PROVE  WritesOK'
<1>1. MaxWrites \in Nat
  BY SentryAssumption
<1>2. writes' \in {writes, writes + 1} /\ writes' <= MaxWrites
  BY DEF Counted
<1> QED
  BY <1>1, <1>2 DEF WritesOK

LEMMA PrepareInv ==
  ASSUME Inv, NEW s \in Sessions, NEW write, Prepare(s, write), WriteOK(actor[s], write)
  PROVE  Inv'
<1>1. pending' = [pending EXCEPT ![s] = write] /\ UNCHANGED <<tables, actor, writes>>
  BY DEF Prepare
<1>2. SessionsOK'
  BY <1>1 DEF Inv, SessionsOK
<1>3. TablesOK' /\ WritesOK'
  BY <1>1 DEF Inv, TablesOK, UniqueIds, NoOrphans, tables, WritesOK
<1> QED
  BY <1>2, <1>3 DEF Inv

LEMMA DoneOK ==
  ASSUME Inv, NEW s \in Sessions, Done(s)
  PROVE  SessionsOK' /\ WritesOK'
<1>1. pending' = [pending EXCEPT ![s] = Idle] /\ UNCHANGED actor /\ Counted
  BY DEF Done
<1>2. SessionsOK'
  BY <1>1, IdleOK DEF Inv, SessionsOK
<1> QED
  BY <1>1, <1>2, CountedOK DEF Inv

LEMMA NoSessionsOK ==
  ASSUME NoSessions
  PROVE  SessionsOK'
BY IdleOK DEF NoSessions, SessionsOK

\* A step that leaves the tables alone.
LEMMA TablesKept ==
  ASSUME TablesOK, UNCHANGED tables
  PROVE  TablesOK'
BY DEF TablesOK, UniqueIds, NoOrphans, tables

LEMMA SignOnInv ==
  ASSUME Inv, NEW s \in Sessions, SignOn(s)
  PROVE  Inv'
<1>1. UNCHANGED <<tables, pending, writes>> /\ pending[s] = Idle
  BY DEF SignOn
<1>2. PICK u \in users : actor' = [actor EXCEPT ![s] = Account(u)]
  BY Zenon DEF SignOn
<1>3. Account(u).authority \in Levels
  <2>1. Account(u).authority = u.authority
    BY DEF Account
  <2> QED
    BY <2>1 DEF Inv, TablesOK, Users
<1> DEFINE a == Account(u)
<1>4. a.authority \in Levels /\ actor' = [actor EXCEPT ![s] = a]
  BY <1>2, <1>3
<1> HIDE DEF a
<1>5. SessionsOK'
  BY <1>1, <1>4, IdleOK DEF Inv, SessionsOK
<1> QED
  BY <1>1, <1>5, TablesKept DEF Inv, WritesOK

LEMMA SignOffInv ==
  ASSUME Inv, NEW s \in Sessions, SignOff(s)
  PROVE  Inv'
<1>1. /\ UNCHANGED <<tables, pending, writes>> /\ pending[s] = Idle
      /\ actor' = [actor EXCEPT ![s] = NoActor]
  BY DEF SignOff, Ready
<1>2. SessionsOK'
  BY <1>1, IdleOK DEF Inv, SessionsOK
<1> QED
  BY <1>1, <1>2, TablesKept DEF Inv, WritesOK

LEMMA RestartInv ==
  ASSUME Inv, Restart
  PROVE  Inv'
<1>1. NoSessions /\ UNCHANGED <<tables, writes>>
  BY DEF Restart
<1> QED
  BY <1>1, NoSessionsOK, TablesKept DEF Inv, WritesOK

-----------------------------------------------------------------------------
(* Rows.                                                                    *)

LEMMA Parents ==
  ASSUME TablesOK
  PROVE  /\ \A g \in groups : CompanyOf(g) \in companies /\ CompanyOf(g).id = g.company_id
         /\ \A u \in users : GroupOf(u) \in groups /\ GroupOf(u).id = u.group_id
BY DEF TablesOK, NoOrphans, CompanyOf, GroupOf

LEMMA RowType ==
  ASSUME TablesOK, NEW row \in Rows
  PROVE  row.authority \in Levels /\ row.quota \in Quotas
<1>1. ASSUME NEW c \in companies, row = CompanyRow(c)
      PROVE  row.authority \in Levels /\ row.quota \in Quotas
  BY <1>1 DEF CompanyRow, Levels, TablesOK, Companies
<1>2. ASSUME NEW g \in groups, row = GroupRow(g)
      PROVE  row.authority \in Levels /\ row.quota \in Quotas
  BY <1>2 DEF GroupRow, Levels, TablesOK, Groups
<1>3. ASSUME NEW u \in users, row = UserRow(u)
      PROVE  row.authority \in Levels /\ row.quota \in Quotas
  BY <1>3 DEF UserRow, TablesOK, Users
<1> QED
  BY <1>1, <1>2, <1>3 DEF Rows

-----------------------------------------------------------------------------
(* The first half of a command.                                             *)

LEMMA ReadyLevel ==
  ASSUME Inv, NEW s \in Sessions, Ready(s)
  PROVE  actor[s].authority \in Levels
BY DEF Ready, SignedOn, Inv, SessionsOK

LEMMA UpdateInv ==
  ASSUME Inv, NEW s \in Sessions, NEW row \in Rows, NEW set \in Settings, Update(s, row, set)
  PROVE  Inv'
<1>1. PICK authority : authority = IF set.authority = Unset THEN row.authority ELSE set.authority
  OBVIOUS
<1>2. PICK quota : quota = IF set.quota = Unset THEN row.quota ELSE set.quota
  OBVIOUS
<1>3. /\ Ready(s) /\ ~DenyWrite(actor[s], row.names) /\ authority <= actor[s].authority
      /\ Prepare(s, [op |-> "update", names |-> row.names,
                     authority |-> authority, quota |-> quota])
  BY <1>1, <1>2 DEF Update, MayGrant
<1>4. authority \in Levels /\ quota \in Quotas
  <2>1. Grants \subseteq Levels
    BY SentryAssumption
  <2>2. set.authority \in Grants \cup {Unset} /\ set.quota \in Quotas \cup {Unset}
    BY DEF Settings
  <2> QED
    BY <1>1, <1>2, <2>1, <2>2, RowType DEF Inv
<1> DEFINE p == [op |-> "update", names |-> row.names,
                 authority |-> authority, quota |-> quota]
<1>5. /\ p.op = "update" /\ p.names = row.names /\ p.authority = authority /\ p.quota = quota
      /\ Prepare(s, p)
  BY <1>3
<1> HIDE DEF p
<1>6. WriteOK(actor[s], p)
  BY <1>3, <1>4, <1>5, ReadyLevel, RowType DEF WriteOK, Inv
<1> QED
  BY <1>5, <1>6, PrepareInv

LEMMA DeleteInv ==
  ASSUME Inv, NEW s \in Sessions, NEW row \in Rows, Delete(s, row)
  PROVE  Inv'
<1> DEFINE p == [op |-> "delete", names |-> row.names]
<1>1. Ready(s) /\ ~DenyWrite(actor[s], row.names) /\ Prepare(s, p)
  BY DEF Delete
<1>2. p.op = "delete" /\ p.names = row.names
  OBVIOUS
<1> HIDE DEF p
<1>3. WriteOK(actor[s], p)
  BY <1>1, <1>2, ReadyLevel, RowType DEF WriteOK, Inv
<1> QED
  BY <1>1, <1>3, PrepareInv

LEMMA AddGroupInv ==
  ASSUME Inv, NEW s \in Sessions, NEW c, NEW g \in GroupNames, NEW quota \in Quotas,
         AddGroup(s, c, g, quota)
  PROVE  Inv'
<1>1. Ready(s)
  BY DEF AddGroup
<1>2. PICK id : Prepare(s, [op |-> "group", parent |-> id, name |-> g,
                            quota |-> quota])
  BY Zenon DEF AddGroup
<1> DEFINE p == [op |-> "group", parent |-> id, name |-> g, quota |-> quota]
<1>3. p.op = "group" /\ p.name = g /\ p.quota = quota /\ Prepare(s, p)
  BY <1>2
<1> HIDE DEF p
<1>4. WriteOK(actor[s], p)
  BY <1>1, <1>3, ReadyLevel DEF WriteOK
<1> QED
  BY <1>3, <1>4, PrepareInv

LEMMA AddUserInv ==
  ASSUME Inv, NEW s \in Sessions, NEW c, NEW g, NEW u \in UserNames, NEW password \in Passwords,
         NEW authority \in Grants, NEW quota \in Quotas,
         AddUser(s, c, g, u, password, authority, quota)
  PROVE  Inv'
<1>1. Ready(s) /\ authority <= actor[s].authority
  BY DEF AddUser, MayGrant
<1>2. PICK id : Prepare(s, [op |-> "user", parent |-> id, name |-> u, password |-> password,
                            authority |-> authority, quota |-> quota])
  BY Zenon DEF AddUser
<1> DEFINE p == [op |-> "user", parent |-> id, name |-> u, password |-> password,
                 authority |-> authority, quota |-> quota]
<1>3. /\ p.op = "user" /\ p.name = u /\ p.password = password
      /\ p.authority = authority /\ p.quota = quota /\ Prepare(s, p)
  BY <1>2
<1> HIDE DEF p
<1>4. authority \in Levels
  BY SentryAssumption
<1>5. WriteOK(actor[s], p)
  BY <1>1, <1>3, <1>4, ReadyLevel DEF WriteOK
<1> QED
  BY <1>3, <1>5, PrepareInv

-----------------------------------------------------------------------------
(* Writes.                                                                  *)

\* The names by which the rows below are addressed stay.
NamesKept ==
  /\ \A c \in companies, d \in companies' : c.id = d.id => c.name = d.name
  /\ \A g \in groups, h \in groups' :
       g.id = h.id => g.name = h.name /\ g.company_id = h.company_id

\* An update replaces records by records with the same id, parent and name.
LEMMA UpdatedTables ==
  ASSUME Inv, NEW s \in Sessions, WriteUpdate(s)
  PROVE  TablesOK' /\ NamesKept
<1>1. PICK p : p = pending[s]
  OBVIOUS
<1>2. PICK n : n = p.names
  OBVIOUS
<1>3. p.op = "update" /\ p.authority \in Levels /\ p.quota \in Quotas
  BY <1>1, Zenon DEF WriteUpdate, Inv, SessionsOK, WriteOK
<1> DEFINE C(c) == IF LevelOf(n) = "company" /\ c.id \in CompanyIds(n[1])
                     THEN [c EXCEPT !.quota = p.quota] ELSE c
           G(g) == IF LevelOf(n) = "group" /\ g.id \in GroupIds(n[1], n[2])
                     THEN [g EXCEPT !.quota = p.quota] ELSE g
           U(u) == IF LevelOf(n) = "user" /\ u.id \in UserIds(n[1], n[2], n[3])
                     THEN [u EXCEPT !.authority = p.authority, !.quota = p.quota] ELSE u
<1>4. /\ companies' = {C(c) : c \in companies}
      /\ groups' = {G(g) : g \in groups}
      /\ users' = {U(u) : u \in users}
  BY <1>1, <1>2, Zenon DEF WriteUpdate
<1>5. \A c \in companies : C(c) \in Companies /\ C(c).id = c.id /\ C(c).name = c.name
  BY <1>3 DEF Inv, TablesOK, Companies
<1>6. \A g \in groups : /\ G(g) \in Groups /\ G(g).id = g.id
                        /\ G(g).name = g.name /\ G(g).company_id = g.company_id
  BY <1>3 DEF Inv, TablesOK, Groups
<1>7. \A u \in users : U(u) \in Users /\ U(u).id = u.id /\ U(u).group_id = u.group_id
  BY <1>3, Zenon DEF Inv, TablesOK, Users
<1> HIDE DEF C, G, U
<1>8. /\ companies' \subseteq Companies /\ groups' \subseteq Groups /\ users' \subseteq Users
  BY <1>4, <1>5, <1>6, <1>7
<1>9. UniqueIds(companies)' /\ UniqueIds(groups)' /\ UniqueIds(users)'
  BY <1>4, <1>5, <1>6, <1>7 DEF Inv, TablesOK, UniqueIds
<1>10. NoOrphans'
  BY <1>4, <1>5, <1>6, <1>7 DEF Inv, TablesOK, NoOrphans
<1>11. TablesOK'
  BY <1>8, <1>9, <1>10 DEF TablesOK, Companies, Groups, Users
<1>12. NamesKept
  BY <1>4, <1>5, <1>6 DEF Inv, TablesOK, UniqueIds, NamesKept
<1> QED
  BY <1>11, <1>12

\* A table that only loses records.
LEMMA FewerRecords ==
  ASSUME TablesOK, companies' \subseteq companies, groups' \subseteq groups,
         users' \subseteq users, NoOrphans'
  PROVE  TablesOK' /\ NamesKept
<1>1. UniqueIds(companies)' /\ UniqueIds(groups)' /\ UniqueIds(users)'
  BY DEF TablesOK, UniqueIds
<1>2. TablesOK'
  BY <1>1 DEF TablesOK, Companies, Groups, Users
<1> QED
  BY <1>2 DEF TablesOK, UniqueIds, NamesKept

\* However many statements of a delete are executed, the records below those that
\* are gone are gone too.
LEMMA DeletedTables ==
  ASSUME TablesOK, NEW n, NEW done \in 1 .. 3, DeleteRow(n, done)
  PROVE  TablesOK' /\ NamesKept
<1>1. LevelOf(n) \in {"company", "group", "user"}
  BY DEF LevelOf
<1>2. CASE LevelOf(n) = "company"
  <2> DEFINE ids == CompanyIds(n[1])
             below == {g.id : g \in {x \in groups : x.company_id \in ids}}
  <2>1. /\ users' = {u \in users : u.group_id \notin below}
        /\ groups' = IF done < 2 THEN groups ELSE {g \in groups : g.id \notin below}
        /\ companies' = IF done < 3 THEN companies ELSE {c \in companies : c.id \notin ids}
    BY <1>2 DEF DeleteRow, DeleteCompanies, DeleteGroups
  <2>2. \A g \in groups : g.id \in below <=> g.company_id \in ids
    BY DEF TablesOK, UniqueIds
  <2> HIDE DEF ids, below
  <2>3. NoOrphans'
    BY <2>1, <2>2 DEF TablesOK, NoOrphans
  <2> QED
    BY <2>1, <2>3, FewerRecords
<1>3. CASE LevelOf(n) = "group"
  <2> DEFINE ids == GroupIds(n[1], n[2])
  <2>1. /\ users' = {u \in users : u.group_id \notin ids}
        /\ groups' = IF done < 2 THEN groups ELSE {g \in groups : g.id \notin ids}
        /\ companies' = companies
    BY <1>3 DEF DeleteRow, DeleteGroups
  <2> HIDE DEF ids
  <2>2. NoOrphans'
    BY <2>1 DEF TablesOK, NoOrphans
  <2> QED
    BY <2>1, <2>2, FewerRecords
<1>4. CASE LevelOf(n) = "user"
  <2> DEFINE ids == UserIds(n[1], n[2], n[3])
  <2>1. users' = {u \in users : u.id \notin ids} /\ UNCHANGED <<companies, groups>>
    BY <1>4 DEF DeleteRow, DeleteUsers
  <2> HIDE DEF ids
  <2>2. NoOrphans'
    BY <2>1 DEF TablesOK, NoOrphans
  <2> QED
    BY <2>1, <2>2, FewerRecords
<1> QED
  BY <1>1, <1>2, <1>3, <1>4

\* The id of a new record is no other record's.
LEMMA NewIdIsNew ==
  ASSUME NEW T, \A r \in T : r.id \in 1 .. MaxId, NewId(T) <= MaxId
  PROVE  NewId(T) \in 1 .. MaxId /\ \A r \in T : r.id # NewId(T)
<1>1. MaxId \in Nat
  BY SentryAssumption
<1>2. NewId(T) \in Nat \ {0} /\ \A r \in T : r.id # NewId(T)
  BY <1>1, IdAfterLargest DEF NewId
<1> QED
  BY <1>1, <1>2

LEMMA InsertedCompany ==
  ASSUME TablesOK, NEW c \in CompanyNames, NEW quota \in Quotas, InsertCompany(c, quota),
         NewId(companies) <= MaxId, UNCHANGED <<groups, users>>
  PROVE  TablesOK'
<1>1. PICK new : new = NewId(companies)
  OBVIOUS
<1>2. new \in 1 .. MaxId /\ \A r \in companies : r.id # new
  <2>1. \A r \in companies : r.id \in 1 .. MaxId
    BY DEF TablesOK, Companies
  <2> QED
    BY <1>1, <2>1, NewIdIsNew
<1> DEFINE r == [id |-> new, name |-> c, quota |-> quota]
<1>3. companies' = companies \cup {r}
  BY <1>1 DEF InsertCompany
<1>4. r \in Companies /\ r.id = new
  BY <1>2 DEF Companies
<1> HIDE DEF r
<1>5. companies' \subseteq Companies /\ UniqueIds(companies)'
  BY <1>2, <1>3, <1>4 DEF TablesOK, UniqueIds
<1>6. NoOrphans'
  BY <1>3 DEF TablesOK, NoOrphans
<1> QED
  BY <1>5, <1>6 DEF TablesOK, UniqueIds, Companies, Groups, Users

LEMMA InsertedGroup ==
  ASSUME TablesOK, NEW parent, NEW g \in GroupNames, NEW quota \in Quotas,
         CanInsertGroup(parent, g), InsertGroup(parent, g, quota),
         NewId(groups) <= MaxId, UNCHANGED <<companies, users>>
  PROVE  TablesOK'
<1>1. PICK new : new = NewId(groups)
  OBVIOUS
<1>2. new \in 1 .. MaxId /\ \A r \in groups : r.id # new
  <2>1. \A r \in groups : r.id \in 1 .. MaxId
    BY DEF TablesOK, Groups
  <2> QED
    BY <1>1, <2>1, NewIdIsNew
<1>3. PICK c \in companies : c.id = parent
  BY DEF CanInsertGroup, CompanyExists
<1>4. parent \in 1 .. MaxId
  BY <1>3 DEF TablesOK, Companies
<1> DEFINE r == [id |-> new, company_id |-> parent, name |-> g, quota |-> quota]
<1>5. groups' = groups \cup {r}
  BY <1>1 DEF InsertGroup
<1>6. r \in Groups /\ r.id = new /\ r.company_id = parent
  BY <1>2, <1>4 DEF Groups
<1> HIDE DEF r
<1>7. groups' \subseteq Groups /\ UniqueIds(groups)'
  BY <1>2, <1>5, <1>6 DEF TablesOK, UniqueIds
<1>8. NoOrphans'
  BY <1>3, <1>5, <1>6 DEF TablesOK, NoOrphans
<1> QED
  BY <1>7, <1>8 DEF TablesOK, UniqueIds, Companies, Groups, Users

LEMMA InsertedUser ==
  ASSUME TablesOK, NEW parent, NEW u \in UserNames, NEW password \in Passwords,
         NEW authority \in Levels, NEW quota \in Quotas,
         CanInsertUser(parent, u), InsertUser(parent, u, password, authority, quota),
         NewId(users) <= MaxId, UNCHANGED <<companies, groups>>
  PROVE  TablesOK' /\ \A x \in users' \ users : x.authority = authority
<1>1. PICK new : new = NewId(users)
  OBVIOUS
<1>2. new \in 1 .. MaxId /\ \A r \in users : r.id # new
  <2>1. \A r \in users : r.id \in 1 .. MaxId
    BY DEF TablesOK, Users
  <2> QED
    BY <1>1, <2>1, NewIdIsNew
<1>3. PICK g \in groups : g.id = parent
  BY DEF CanInsertUser
<1>4. parent \in 1 .. MaxId
  BY <1>3 DEF TablesOK, Groups
<1> DEFINE r == [id |-> new, group_id |-> parent, name |-> u, password |-> password,
                 authority |-> authority, quota |-> quota]
<1>5. users' = users \cup {r}
  BY <1>1 DEF InsertUser
<1>6. r \in Users /\ r.id = new /\ r.group_id = parent /\ r.authority = authority
  BY <1>2, <1>4 DEF Users
<1> HIDE DEF r
<1>7. users' \subseteq Users /\ UniqueIds(users)'
  BY <1>2, <1>5, <1>6 DEF TablesOK, UniqueIds
<1>8. NoOrphans'
  BY <1>3, <1>5, <1>6 DEF TablesOK, NoOrphans
<1>9. TablesOK'
  BY <1>7, <1>8 DEF TablesOK, UniqueIds, Companies, Groups, Users
<1> QED
  BY <1>5, <1>6, <1>9

LEMMA ChangedPassword ==
  ASSUME TablesOK, NEW ids, NEW password \in Passwords, SetPassword(ids, password),
         UNCHANGED <<companies, groups>>
  PROVE  TablesOK'
<1> DEFINE U(u) == IF u.id \in ids THEN [u EXCEPT !.password = password] ELSE u
<1>1. users' = {U(u) : u \in users}
  BY DEF SetPassword
<1>2. \A u \in users : U(u) \in Users /\ U(u).id = u.id /\ U(u).group_id = u.group_id
  BY DEF TablesOK, Users
<1> HIDE DEF U
<1>3. users' \subseteq Users /\ UniqueIds(users)'
  BY <1>1, <1>2 DEF TablesOK, UniqueIds
<1>4. NoOrphans'
  BY <1>1, <1>2 DEF TablesOK, NoOrphans
<1> QED
  BY <1>3, <1>4 DEF TablesOK, UniqueIds, Companies, Groups, Users

-----------------------------------------------------------------------------
(* The second half of a command, and commands of one step.                  *)

LEMMA WriteUpdateInv ==
  ASSUME Inv, NEW s \in Sessions, WriteUpdate(s)
  PROVE  Inv'
<1>1. Done(s)
  BY Zenon DEF WriteUpdate
<1> QED
  BY <1>1, DoneOK, UpdatedTables DEF Inv

LEMMA WriteDeleteInv ==
  ASSUME Inv, NEW s \in Sessions, WriteDelete(s)
  PROVE  Inv'
<1>1. DeleteRow(pending[s].names, 3) /\ Done(s)
  BY DEF WriteDelete
<1>2. TablesOK'
  BY <1>1, DeletedTables DEF Inv
<1> QED
  BY <1>1, <1>2, DoneOK DEF Inv

LEMMA DeleteStopsInv ==
  ASSUME Inv, NEW s \in Sessions, NEW done \in 1 .. 2, DeleteStops(s, done)
  PROVE  Inv'
<1>1. DeleteRow(pending[s].names, done) /\ done \in 1 .. 3
  BY DEF DeleteStops
<1>2. TablesOK'
  BY <1>1, DeletedTables DEF Inv
<1>3. SessionsOK' /\ WritesOK'
  <2>1. CASE Done(s)
    BY <2>1, DoneOK
  <2>2. CASE NoSessions /\ Counted
    BY <2>2, NoSessionsOK, CountedOK DEF Inv
  <2> QED
    BY <2>1, <2>2 DEF DeleteStops
<1> QED
  BY <1>2, <1>3 DEF Inv

LEMMA WriteGroupInv ==
  ASSUME Inv, NEW s \in Sessions, WriteGroup(s)
  PROVE  Inv'
<1>1. PICK p : p = pending[s]
  OBVIOUS
<1>2. p.op = "group" /\ p.name \in GroupNames /\ p.quota \in Quotas
  BY <1>1 DEF WriteGroup, Inv, SessionsOK, WriteOK
<1>3. Done(s) /\ UNCHANGED <<companies, users>>
  BY DEF WriteGroup
<1>4. CASE CanInsertGroup(p.parent, p.name)
  <2>1. InsertGroup(p.parent, p.name, p.quota) /\ NewId(groups) <= MaxId
    BY <1>1, <1>4 DEF WriteGroup
  <2>2. TablesOK'
    BY <1>2, <1>3, <1>4, <2>1, InsertedGroup DEF Inv
  <2> QED
    BY <1>3, <2>2, DoneOK DEF Inv
<1>5. CASE ~CanInsertGroup(p.parent, p.name)
  <2>1. UNCHANGED tables
    BY <1>1, <1>3, <1>5 DEF WriteGroup, tables
  <2> QED
    BY <1>3, <2>1, TablesKept, DoneOK DEF Inv
<1> QED
  BY <1>4, <1>5

\* Besides the invariant: the new user has the authority that was prepared.
LEMMA WriteUserInv ==
  ASSUME Inv, NEW s \in Sessions, WriteUser(s)
  PROVE  Inv' /\ \A u \in users' \ users : u.authority = pending[s].authority
<1>1. PICK p : p = pending[s]
  OBVIOUS
<1>2. /\ p.op = "user" /\ p.name \in UserNames /\ p.password \in Passwords
      /\ p.authority \in Levels /\ p.quota \in Quotas
  BY <1>1 DEF WriteUser, Inv, SessionsOK, WriteOK
<1>3. Done(s) /\ UNCHANGED <<companies, groups>>
  BY DEF WriteUser
<1>4. CASE CanInsertUser(p.parent, p.name)
  <2>1. /\ InsertUser(p.parent, p.name, p.password, p.authority, p.quota)
        /\ NewId(users) <= MaxId
    BY <1>1, <1>4 DEF WriteUser
  <2>2. TablesOK' /\ \A u \in users' \ users : u.authority = p.authority
    BY <1>2, <1>3, <1>4, <2>1, InsertedUser DEF Inv
  <2> QED
    BY <1>1, <1>3, <2>2, DoneOK DEF Inv
<1>5. CASE ~CanInsertUser(p.parent, p.name)
  <2>1. UNCHANGED tables
    BY <1>1, <1>3, <1>5 DEF WriteUser, tables
  <2>2. Inv'
    BY <1>3, <2>1, TablesKept, DoneOK DEF Inv
  <2> QED
    BY <2>1, <2>2 DEF tables
<1> QED
  BY <1>4, <1>5

LEMMA OneStepInv ==
  ASSUME Inv, TablesOK', UNCHANGED <<actor, pending>>, Counted
  PROVE  Inv'
<1>1. SessionsOK'
  BY DEF Inv, SessionsOK
<1> QED
  BY <1>1, CountedOK DEF Inv

LEMMA AddCompanyInv ==
  ASSUME Inv, NEW s \in Sessions, NEW c \in CompanyNames, NEW quota \in Quotas,
         AddCompany(s, c, quota)
  PROVE  Inv'
<1>1. /\ InsertCompany(c, quota) /\ NewId(companies) <= MaxId /\ Counted
      /\ UNCHANGED <<groups, users, actor, pending>>
  BY DEF AddCompany
<1> QED
  BY <1>1, InsertedCompany, OneStepInv DEF Inv

LEMMA ChangePasswordInv ==
  ASSUME Inv, NEW s \in Sessions, NEW names, NEW password \in Passwords,
         ChangePassword(s, names, password)
  PROVE  Inv'
<1>1. /\ SetPassword(UserIds(names[1], names[2], names[3]), password) /\ Counted
      /\ UNCHANGED <<companies, groups, actor, pending>>
  BY DEF ChangePassword
<1> QED
  BY <1>1, ChangedPassword, OneStepInv DEF Inv

LEMMA CreateUserInv ==
  ASSUME Inv, NEW c, NEW g, NEW u \in UserNames, NEW password \in Passwords,
         NEW authority \in Grants, CreateUser(c, g, u, password, authority)
  PROVE  Inv'
<1>1. PICK id \in GroupIds(c, g), quota \in Quotas :
        /\ CanInsertUser(id, u) /\ NewId(users) <= MaxId
        /\ InsertUser(id, u, password, authority, quota)
  BY DEF CreateUser
<1>2. Counted /\ UNCHANGED <<companies, groups, actor, pending>>
  BY DEF CreateUser
<1>3. authority \in Levels
  BY SentryAssumption
<1>4. TablesOK'
  BY <1>1, <1>2, <1>3, InsertedUser DEF Inv
<1> QED
  BY <1>2, <1>4, OneStepInv

-----------------------------------------------------------------------------

LEMMA InitInv == Init => Inv
<1> SUFFICES ASSUME Init
             PROVE  Inv
  OBVIOUS
<1>1. PICK q \in Quotas, p \in Passwords :
        /\ companies = {[id |-> 1, name |-> Seed[1], quota |-> q]}
        /\ groups = {[id |-> 1, company_id |-> 1, name |-> Seed[2], quota |-> q]}
        /\ users = {[id |-> 1, group_id |-> 1, name |-> Seed[3], password |-> p,
                     authority |-> SYSTEM_ADMIN, quota |-> q]}
  BY DEF Init
<1>2. /\ Seed[1] \in CompanyNames /\ Seed[2] \in GroupNames /\ Seed[3] \in UserNames
      /\ 1 \in 1 .. MaxId /\ MaxWrites \in Nat
  BY SentryAssumption
<1> DEFINE c == [id |-> 1, name |-> Seed[1], quota |-> q]
           g == [id |-> 1, company_id |-> 1, name |-> Seed[2], quota |-> q]
           u == [id |-> 1, group_id |-> 1, name |-> Seed[3], password |-> p,
                 authority |-> SYSTEM_ADMIN, quota |-> q]
<1>3. c \in Companies /\ c.id = 1
  BY <1>2 DEF Companies
<1>4. g \in Groups /\ g.id = 1 /\ g.company_id = 1
  BY <1>2 DEF Groups
<1>5. u \in Users /\ u.group_id = 1
  BY <1>2 DEF Users, Levels
<1>6. companies = {c} /\ groups = {g} /\ users = {u}
  BY <1>1
<1> HIDE DEF c, g, u
<1>7. TablesOK
  BY <1>3, <1>4, <1>5, <1>6 DEF TablesOK, UniqueIds, NoOrphans
<1>8. SessionsOK
  BY IdleOK DEF Init, SessionsOK
<1>9. WritesOK
  BY <1>2 DEF Init, WritesOK
<1> QED
  BY <1>7, <1>8, <1>9 DEF Inv

LEMMA NextInv == Inv /\ [Next]_vars => Inv'
<1> SUFFICES ASSUME Inv, [Next]_vars
             PROVE  Inv'
  OBVIOUS
<1>1. CASE UNCHANGED vars
  <2>1. UNCHANGED tables /\ UNCHANGED <<actor, pending, writes>>
    BY <1>1 DEF vars, tables
  <2> QED
    BY <2>1, TablesKept DEF Inv, SessionsOK, WritesOK
<1>2. ASSUME NEW s \in Sessions, SignOn(s) \/ SignOff(s)
      PROVE  Inv'
  BY <1>2, SignOnInv, SignOffInv
<1>3. ASSUME NEW s \in Sessions, Adds(s)
      PROVE  Inv'
  BY <1>3, AddCompanyInv, AddGroupInv, AddUserInv DEF Adds
<1>4. ASSUME NEW s \in Sessions, Edits(s)
      PROVE  Inv'
  BY <1>4, UpdateInv, DeleteInv, ChangePasswordInv, Zenon DEF Edits
<1>5. ASSUME NEW s \in Sessions, Writes(s)
      PROVE  Inv'
  BY <1>5, WriteUpdateInv, WriteDeleteInv, WriteGroupInv, WriteUserInv, DeleteStopsInv DEF Writes
<1>6. CASE Others
  BY <1>6, CreateUserInv, RestartInv DEF Others
<1> QED
  BY <1>1, <1>2, <1>3, <1>4, <1>5, <1>6 DEF Next

LEMMA InvHolds == Spec => []Inv
BY InitInv, NextInv, PTL DEF Spec

\* A group belongs to a company that exists and a user to a group that exists,
\* whatever is deleted between a lookup and its insert and wherever a delete stops
\* (sentry.rs:689-698, 750-759; db/users.rs:303-327).
THEOREM Rooted == Spec => []NoOrphans
<1>1. Inv => NoOrphans
  BY DEF Inv, TablesOK
<1> QED
  BY <1>1, InvHolds, PTL

\* Every variable has its type, whatever is looked up and written in which order.
THEOREM TypeCorrect == Spec => []TypeOK
<1>1. Inv => TypeOK
  <2> SUFFICES ASSUME Inv
               PROVE  TypeOK
    OBVIOUS
  <2>1. /\ Companies \subseteq [id : 1 .. MaxId, name : Names, quota : Quotas]
        /\ Groups \subseteq [id : 1 .. MaxId, company_id : 1 .. MaxId, name : Names, quota : Quotas]
        /\ Users \subseteq [id : 1 .. MaxId, group_id : 1 .. MaxId, name : Names,
                            password : Passwords, authority : Levels, quota : Quotas]
    BY SentryAssumption DEF Companies, Groups, Users
  <2>2. companies \subseteq Companies /\ groups \subseteq Groups /\ users \subseteq Users
    BY DEF Inv, TablesOK
  <2>3. \A s \in Sessions : SignedOn(s) => actor[s].authority \in Levels
    BY DEF Inv, SessionsOK, SignedOn
  <2>4. \A s \in Sessions : pending[s].op \in {"idle", "update", "delete", "group", "user"}
    BY DEF Inv, SessionsOK, WriteOK
  <2>5. writes \in 0 .. MaxWrites
    BY DEF Inv, WritesOK
  <2>6. /\ companies \subseteq [id : 1 .. MaxId, name : Names, quota : Quotas]
        /\ groups \subseteq [id : 1 .. MaxId, company_id : 1 .. MaxId, name : Names, quota : Quotas]
        /\ users \subseteq [id : 1 .. MaxId, group_id : 1 .. MaxId, name : Names,
                            password : Passwords, authority : Levels, quota : Quotas]
    BY <2>1, <2>2, Zenon
  <2> QED
    BY <2>3, <2>4, <2>5, <2>6, Zenon DEF TypeOK
<1> QED
  BY <1>1, InvHolds, PTL

-----------------------------------------------------------------------------
(* Whose step it is.                                                        *)

\* A prepared write is made by the session that prepared it: nobody else ends it
\* and leaves the session signed on.
LEMMA OwnWrite ==
  ASSUME Inv, Next, NEW s \in Sessions, NEW ops, Wrote(s, ops), "idle" \notin ops
  PROVE  Writes(s)
<1>1. pending[s] # Idle /\ pending'[s] = Idle /\ actor'[s] = actor[s]
  BY DEF Wrote, Idle
<1>2. actor[s] # NoActor
  <2>1. actor[s].authority \in Levels
    BY DEF Wrote, Inv, SessionsOK, WriteOK
  <2>2. NoActor.authority = -1 /\ -1 \notin Levels
    BY DEF NoActor, Unset, Levels, NORMAL, GROUP_ADMIN, COMPANY_ADMIN, SYSTEM_ADMIN
  <2> QED
    BY <2>1, <2>2
<1>3. ~NoSessions
  BY <1>1, <1>2 DEF NoSessions
<1>4. pending' # pending
  BY <1>1
<1>5. \A t \in Sessions : \A w : ~(Prepare(t, w) /\ Ready(t))
  BY <1>1 DEF Prepare, Ready, Inv, SessionsOK
<1>6. \A t \in Sessions : ~SignOn(t) /\ ~SignOff(t)
  BY <1>4 DEF SignOn, SignOff
<1>7. \A t \in Sessions : ~Adds(t)
  BY <1>4, <1>5, Zenon DEF Adds, AddCompany, AddGroup, AddUser
<1>8. \A t \in Sessions : ~Edits(t)
  BY <1>4, <1>5, Zenon DEF Edits, Update, Delete, ChangePassword
<1>9. ~Others
  BY <1>3, <1>4 DEF Others, CreateUser, Restart
<1>10. PICK t \in Sessions : Writes(t)
  BY <1>6, <1>7, <1>8, <1>9 DEF Next
<1>11. Done(t)
  BY <1>3, <1>10, Zenon DEF Writes, WriteUpdate, WriteDelete, WriteGroup, WriteUser, DeleteStops
<1>12. t = s
  BY <1>1, <1>11 DEF Done, Inv, SessionsOK
<1> QED
  BY <1>10, <1>12

-----------------------------------------------------------------------------
(* Grants.                                                                  *)

\* No session gives an account more authority than it signed on with, by an update
\* or by adding a user (sentry.rs:429-440, 732-743), for any accounts and grants.
THEOREM NoEscalation == Spec => GrantsWithinAuthority
<1> DEFINE Within(s) == Wrote(s, {"update", "user"}) =>
                          \A u \in users' \ users : u.authority <= actor[s].authority
           Step == \A s \in Sessions : Within(s)
<1>1. ASSUME Inv, [Next]_vars
      PROVE  [Step]_vars
  <2> SUFFICES ASSUME Next, NEW s \in Sessions, Wrote(s, {"update", "user"}),
                      NEW u \in users' \ users
               PROVE  u.authority <= actor[s].authority
    BY <1>1
  <2>1. PICK p : p = pending[s]
    OBVIOUS
  <2>2. p.op \in {"update", "user"} /\ p.authority <= actor[s].authority
    BY <1>1, <2>1 DEF Wrote, Inv, SessionsOK, WriteOK
  <2>3. WriteUpdate(s) \/ WriteUser(s)
    <3>1. Writes(s)
      BY <1>1, OwnWrite
    <3> QED
      BY <2>1, <2>2, <3>1 DEF Writes, WriteDelete, WriteGroup, DeleteStops
  <2>4. CASE WriteUpdate(s)
    <3>1. PICK x \in users : u = [x EXCEPT !.authority = p.authority, !.quota = p.quota]
      BY <2>1, <2>4, Zenon DEF WriteUpdate
    <3>2. u.authority = p.authority
      BY <1>1, <3>1 DEF Inv, TablesOK, Users
    <3> QED
      BY <2>2, <3>2
  <2>5. CASE WriteUser(s)
    BY <1>1, <2>1, <2>2, <2>5, WriteUserInv
  <2> QED
    BY <2>3, <2>4, <2>5
<1>2. Spec => [][Step]_vars
  BY <1>1, InvHolds, PTL DEF Spec
<1> QED
  BY <1>2 DEF GrantsWithinAuthority

-----------------------------------------------------------------------------
(* Scope.                                                                   *)

LEMMA NotOutside ==
  ASSUME NEW a, NEW n, ~Outside(a, n), a.authority \in Levels \ {NORMAL},
         NEW k \in 1 .. Depth(n), k <= Scope(a.authority)
  PROVE  Same(n[k], a.names[k])
<1>1. PICK d, m : d = Depth(n) /\ m = Scope(a.authority)
  OBVIOUS
<1>2. d \in Nat /\ m \in Nat
  BY <1>1 DEF Depth, Scope
<1>3. PICK least : least = Min({d, m})
  OBVIOUS
<1>4. least \in {d, m}
  BY <1>2, <1>3, MinOfTwo
<1>5. k \in 1 .. least
  BY <1>1, <1>2, <1>4
<1>6. \A i \in 1 .. least : Same(n[i], a.names[i])
  BY <1>1, <1>3 DEF Outside
<1> QED
  BY <1>5, <1>6

\* What a check that was passed says about the names that were checked.
LEMMA CheckedNames ==
  ASSUME NEW a, a.authority \in Levels, NEW n, ~DenyWrite(a, n)
  PROVE  /\ a.authority < SYSTEM_ADMIN =>
              LevelOf(n) \in {"group", "user"} /\ Same(n[1], a.names[1])
         /\ a.authority < COMPANY_ADMIN =>
              LevelOf(n) = "user" /\ (Same(n[2], a.names[2]) \/ Same(n[1], n[2]))
<1> USE DEF NORMAL, GROUP_ADMIN, COMPANY_ADMIN, SYSTEM_ADMIN
<1>1. a.authority \in {0, 20, 30, 40}
  BY DEF Levels
<1>2. ~(a.authority < Required(LevelOf(n))) /\ ~Outside(a, n)
  BY DEF DenyWrite
<1>3. LevelOf(n) \in {"company", "group", "user"}
  BY DEF LevelOf
<1>4. /\ LevelOf(n) = "company" => a.authority = 40
      /\ LevelOf(n) = "group" => a.authority \in {30, 40}
      /\ LevelOf(n) = "user" => a.authority \in {20, 30, 40}
  BY <1>1, <1>2 DEF Required
<1>5. 1 \in 1 .. Depth(n) /\ (~Same(n[1], n[2]) => 2 \in 1 .. Depth(n))
  BY DEF Depth
<1>6. ASSUME a.authority \in {20, 30}
      PROVE  Same(n[1], a.names[1])
  <2>1. 1 <= Scope(a.authority) /\ a.authority \in Levels \ {NORMAL}
    BY <1>6 DEF Scope, Levels
  <2> QED
    BY <1>2, <1>5, <2>1, NotOutside
<1>7. ASSUME a.authority = 20, ~Same(n[1], n[2])
      PROVE  Same(n[2], a.names[2])
  <2>1. 2 <= Scope(a.authority) /\ a.authority \in Levels \ {NORMAL}
    BY <1>7 DEF Scope, Levels
  <2> QED
    BY <1>2, <1>5, <1>7, <2>1, NotOutside
<1> QED
  BY <1>1, <1>3, <1>4, <1>6, <1>7

\* The records a lookup by names finds have these names.
LEMMA FoundNames ==
  ASSUME TablesOK, NEW c, NEW n, NEW g \in groups, g.id \in GroupIds(c, n)
  PROVE  Same(CompanyOf(g).name, c) /\ Same(g.name, n)
<1>1. PICK x \in groups : x.id = g.id /\ Same(x.name, n) /\ x.company_id \in CompanyIds(c)
  BY DEF GroupIds
<1>2. x = g
  BY <1>1 DEF TablesOK, UniqueIds
<1>3. PICK d \in companies : d.id = g.company_id /\ Same(d.name, c)
  BY <1>1, <1>2 DEF CompanyIds
<1>4. CompanyOf(g) = d
  BY <1>3, Parents DEF TablesOK, UniqueIds
<1> QED
  BY <1>1, <1>2, <1>3, <1>4

LEMMA FoundAbove ==
  ASSUME TablesOK, NEW c, NEW n, NEW u \in users, u.group_id \in GroupIds(c, n)
  PROVE  Same(CompanyOf(GroupOf(u)).name, c) /\ Same(GroupOf(u).name, n)
BY Parents, FoundNames

LEMMA FoundUser ==
  ASSUME TablesOK, NEW c, NEW g, NEW n, NEW u \in users, u.id \in UserIds(c, g, n)
  PROVE  u.group_id \in GroupIds(c, g)
BY DEF UserIds, TablesOK, UniqueIds

\* The row of a record that stays, with the names above it, stays.
LEMMA ChangedRows ==
  ASSUME TablesOK, TablesOK', NamesKept, NEW row \in Rows \ Rows'
  PROVE  \/ \E c \in companies \ companies' : row = CompanyRow(c)
         \/ \E g \in groups \ groups' : row = GroupRow(g)
         \/ \E u \in users \ users' : row = UserRow(u)
<1>1. /\ \A g \in groups' : CompanyOf(g)' \in companies' /\ CompanyOf(g)'.id = g.company_id
      /\ \A u \in users' : GroupOf(u)' \in groups' /\ GroupOf(u)'.id = u.group_id
  BY DEF TablesOK, NoOrphans, CompanyOf, GroupOf
<1>2. ASSUME NEW c \in companies \cap companies'
      PROVE  CompanyRow(c) \in Rows'
  BY <1>2, Zenon DEF Rows, CompanyRow
<1>3. ASSUME NEW g \in groups \cap groups'
      PROVE  GroupRow(g) \in Rows'
  <2>1. CompanyOf(g).name = CompanyOf(g)'.name
    BY <1>1, Parents DEF NamesKept
  <2>2. GroupRow(g)' = GroupRow(g)
    BY <2>1, Zenon DEF GroupRow
  <2>3. GroupRow(g)' \in Rows'
    BY DEF Rows
  <2> QED
    BY <2>2, <2>3
<1>4. ASSUME NEW u \in users \cap users'
      PROVE  UserRow(u) \in Rows'
  <2>1. PICK g \in groups, h \in groups' : g = GroupOf(u) /\ h = GroupOf(u)'
    BY <1>1, Parents
  <2>2. g.name = h.name /\ g.company_id = h.company_id
    BY <1>1, <2>1, Parents DEF NamesKept
  <2>3. CompanyOf(g).name = CompanyOf(h)'.name
    BY <1>1, <2>2, Parents DEF NamesKept
  <2>4. UserRow(u)' = UserRow(u)
    BY <2>1, <2>2, <2>3, Zenon DEF UserRow
  <2>5. UserRow(u)' \in Rows'
    BY DEF Rows
  <2> QED
    BY <2>4, <2>5
<1> QED
  BY <1>2, <1>3, <1>4 DEF Rows

\* What a write of a row with these names reaches.
Reached(n) ==
  /\ companies \subseteq companies' \/ LevelOf(n) = "company"
  /\ \A g \in groups \ groups' :
       \/ LevelOf(n) = "company"
       \/ LevelOf(n) = "group" /\ g.id \in GroupIds(n[1], n[2])
  /\ \A u \in users \ users' :
       \/ LevelOf(n) = "company"
       \/ LevelOf(n) \in {"group", "user"} /\ u.group_id \in GroupIds(n[1], n[2])

LEMMA UpdateReaches ==
  ASSUME TablesOK, NEW s \in Sessions, WriteUpdate(s)
  PROVE  Reached(pending[s].names)
<1>1. PICK p, n : p = pending[s] /\ n = p.names
  OBVIOUS
<1>2. /\ companies' = {IF LevelOf(n) = "company" /\ c.id \in CompanyIds(n[1])
                         THEN [c EXCEPT !.quota = p.quota] ELSE c : c \in companies}
      /\ groups' = {IF LevelOf(n) = "group" /\ g.id \in GroupIds(n[1], n[2])
                      THEN [g EXCEPT !.quota = p.quota] ELSE g : g \in groups}
      /\ users' = {IF LevelOf(n) = "user" /\ u.id \in UserIds(n[1], n[2], n[3])
                     THEN [u EXCEPT !.authority = p.authority, !.quota = p.quota] ELSE u :
                     u \in users}
  BY <1>1, Zenon DEF WriteUpdate
<1>3. companies \subseteq companies' \/ LevelOf(n) = "company"
  BY <1>2, Zenon
<1>4. \A g \in groups \ groups' : LevelOf(n) = "group" /\ g.id \in GroupIds(n[1], n[2])
  BY <1>2, Zenon
<1>5. \A u \in users \ users' : LevelOf(n) = "user" /\ u.id \in UserIds(n[1], n[2], n[3])
  BY <1>2, Zenon
<1>6. \A u \in users \ users' : LevelOf(n) = "user" /\ u.group_id \in GroupIds(n[1], n[2])
  BY <1>5, FoundUser
<1> QED
  BY <1>1, <1>3, <1>4, <1>6 DEF Reached

LEMMA DeleteReaches ==
  ASSUME TablesOK, NEW n, NEW done \in 1 .. 3, DeleteRow(n, done)
  PROVE  Reached(n)
<1>1. LevelOf(n) \in {"company", "group", "user"}
  BY DEF LevelOf
<1>2. CASE LevelOf(n) = "company"
  BY <1>2 DEF Reached
<1>3. CASE LevelOf(n) = "group"
  <2>1. /\ companies' = companies
        /\ users' = {u \in users : u.group_id \notin GroupIds(n[1], n[2])}
        /\ \/ groups' = groups
           \/ groups' = {g \in groups : g.id \notin GroupIds(n[1], n[2])}
    BY <1>3 DEF DeleteRow, DeleteGroups
  <2> QED
    BY <1>3, <2>1 DEF Reached
<1>4. CASE LevelOf(n) = "user"
  <2>1. /\ companies' = companies /\ groups' = groups
        /\ users' = {u \in users : u.id \notin UserIds(n[1], n[2], n[3])}
    BY <1>4 DEF DeleteRow, DeleteUsers
  <2>2. \A u \in users \ users' : u.group_id \in GroupIds(n[1], n[2])
    BY <2>1, FoundUser
  <2> QED
    BY <1>4, <2>1, <2>2 DEF Reached
<1> QED
  BY <1>1, <1>2, <1>3, <1>4

\* "a company administrator over its own company, a group administrator over its
\* own group" (sentry.rs:579-582): whatever names companies, groups and users have,
\* every row that an update or a delete changes is in the company, or in the company
\* and group, of the account the session signed on as, or in a group named like the
\* company, although the names are looked up again after the check, in a directory
\* that may have changed.
THEOREM ScopeKept == Spec => WritesInScope
<1> DEFINE Step == \A s \in Sessions : Wrote(s, {"update", "delete"}) =>
                     \A row \in Rows \ Rows' : Administers(actor[s], row.names)
<1>1. ASSUME Inv, [Next]_vars
      PROVE  [Step]_vars
  <2> SUFFICES ASSUME Next, NEW s \in Sessions, Wrote(s, {"update", "delete"}),
                      NEW row \in Rows \ Rows'
               PROVE  Administers(actor[s], row.names)
    BY <1>1
  <2>1. PICK n, a : n = pending[s].names /\ a = actor[s]
    OBVIOUS
  <2>2. ~DenyWrite(a, n) /\ a.authority \in Levels
    BY <1>1, <2>1 DEF Wrote, Inv, SessionsOK, WriteOK
  <2>3. /\ a.authority < SYSTEM_ADMIN =>
             LevelOf(n) \in {"group", "user"} /\ Same(n[1], a.names[1])
        /\ a.authority < COMPANY_ADMIN => 
             LevelOf(n) = "user" /\ (Same(n[2], a.names[2]) \/ Same(n[1], n[2]))
    BY <2>2, CheckedNames
  <2>4. Writes(s) /\ pending[s].op \in {"update", "delete"}
    BY <1>1, OwnWrite, Zenon DEF Wrote
  <2>5. WriteUpdate(s) \/ \E done \in 1 .. 3 : DeleteRow(n, done)
    <3>1. WriteDelete(s) => DeleteRow(n, 3)
      BY <2>1 DEF WriteDelete
    <3>2. \A done \in 1 .. 2 : DeleteStops(s, done) => DeleteRow(n, done)
      BY <2>1 DEF DeleteStops
    <3>3. ~WriteGroup(s) /\ ~WriteUser(s)
      BY <2>4 DEF WriteGroup, WriteUser
    <3>4. WriteUpdate(s) \/ WriteDelete(s) \/ \E done \in 1 .. 2 : DeleteStops(s, done)
      BY <2>4, <3>3, Zenon DEF Writes
    <3>5. 3 \in 1 .. 3 /\ \A done \in 1 .. 2 : done \in 1 .. 3
      OBVIOUS
    <3> QED
      BY <3>1, <3>2, <3>4, <3>5, Zenon
  <2>6. TablesOK /\ TablesOK' /\ NamesKept /\ Reached(n)
    <3>1. TablesOK
      BY <1>1 DEF Inv
    <3>2. WriteUpdate(s) => TablesOK' /\ NamesKept
      BY <1>1, UpdatedTables, Zenon
    <3>3. WriteUpdate(s) => Reached(n)
      BY <2>1, <3>1, UpdateReaches
    <3>4. \A done \in 1 .. 3 : DeleteRow(n, done) => TablesOK' /\ NamesKept /\ Reached(n)
      BY <3>1, DeletedTables, DeleteReaches, Zenon
    <3> QED
      BY <2>5, <3>1, <3>2, <3>3, <3>4, Zenon
  <2>7. a.authority < COMPANY_ADMIN => a.authority < SYSTEM_ADMIN
    BY <2>2 DEF Levels, NORMAL, GROUP_ADMIN, COMPANY_ADMIN, SYSTEM_ADMIN
  <2> SUFFICES ASSUME a.authority < SYSTEM_ADMIN
               PROVE  Administers(a, row.names)
    BY <2>1, <2>7 DEF Administers
  <2>8. LevelOf(n) \in {"group", "user"} /\ Same(n[1], a.names[1])
    BY <2>3
  <2>9. ASSUME NEW g \in groups \ groups', row = GroupRow(g)
        PROVE  Administers(a, row.names)
    <3>1. LevelOf(n) = "group" /\ g.id \in GroupIds(n[1], n[2])
      BY <2>6, <2>8 DEF Reached
    <3>2. Same(CompanyOf(g).name, n[1])
      BY <2>6, <3>1, FoundNames
    <3>3. row.names[1] = CompanyOf(g).name
      BY <2>9 DEF GroupRow
    <3> QED
      BY <2>3, <2>8, <3>1, <3>2, <3>3 DEF Administers, Same
  <2>10. ASSUME NEW u \in users \ users', row = UserRow(u)
         PROVE  Administers(a, row.names)
    <3>1. u.group_id \in GroupIds(n[1], n[2])
      BY <2>6, <2>8 DEF Reached
    <3>2. Same(CompanyOf(GroupOf(u)).name, n[1]) /\ Same(GroupOf(u).name, n[2])
      BY <2>6, <3>1, FoundAbove
    <3>3. row.names[1] = CompanyOf(GroupOf(u)).name /\ row.names[2] = GroupOf(u).name
      BY <2>10 DEF UserRow
    <3> QED
      BY <2>3, <2>8, <3>2, <3>3 DEF Administers, Same
  <2>11. companies \ companies' = {}
    BY <2>6, <2>8 DEF Reached
  <2> QED
    BY <2>6, <2>9, <2>10, <2>11, ChangedRows
<1>2. Spec => [][Step]_vars
  BY <1>1, InvHolds, PTL DEF Spec
<1> QED
  BY <1>2 DEF WritesInScope

=============================================================================
