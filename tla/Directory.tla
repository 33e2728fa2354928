----------------------------- MODULE Directory ------------------------------
(***************************************************************************)
(* The account directory: the companies, groups and users tables, the      *)
(* statements on them and the flattened rows the administration commands   *)
(* address by index.                                                       *)
(*                                                                         *)
(* Source: src/Server/src/db/users.rs, and Row and Directory of            *)
(* src/Server/src/vipc/sentry.rs.  A table is a set of records.  A name is *)
(* a spelling; spellings of the same rank differ in case only (COLLATE     *)
(* NOCASE), and ranks give the order of the listing.                       *)
(***************************************************************************)
EXTENDS Integers, Sequences, FiniteSets, FiniteSetsExt

CONSTANTS
  Names,     \* spellings
  Rank       \* their case-insensitive order

ASSUME RankAssumption == Rank \in [Names -> Nat \ {0}]

VARIABLES companies, groups, users

tables == <<companies, groups, users>>

NORMAL == 0
GROUP_ADMIN == 20
COMPANY_ADMIN == 30
SYSTEM_ADMIN == 40

Levels == {NORMAL, GROUP_ADMIN, COMPANY_ADMIN, SYSTEM_ADMIN}

\* Faulty variant: names are compared as they are spelled.
SameSpelling(a, b) == a = b

\* COLLATE NOCASE, eq_ignore_ascii_case
Same(a, b) == Rank[a] = Rank[b]

\* Faulty variant: the first id of an emptied table is 0.
NewIdFromZero(table) == 1 + Max({-1} \cup {r.id : r \in table})

\* INTEGER PRIMARY KEY without AUTOINCREMENT: one more than the largest in use.
NewId(table) == 1 + Max({0} \cup {r.id : r \in table})

-----------------------------------------------------------------------------
(* Lookups: the ids of the records a chain of names addresses.  The unique  *)
(* indexes leave at most one.                                               *)

CompanyIds(c) == {r.id : r \in {x \in companies : Same(x.name, c)}}

GroupIds(c, g) ==
  {r.id : r \in {x \in groups : Same(x.name, g) /\ x.company_id \in CompanyIds(c)}}

UserIds(c, g, u) ==
  {r.id : r \in {x \in users : Same(x.name, u) /\ x.group_id \in GroupIds(c, g)}}

CompanyOf(group) == CHOOSE c \in companies : c.id = group.company_id
GroupOf(user) == CHOOSE g \in groups : g.id = user.group_id

-----------------------------------------------------------------------------
(* Inserts are refused by a unique index or, once the parent is gone, by    *)
(* its foreign key.                                                         *)

CanInsertCompany(c) == CompanyIds(c) = {}

InsertCompany(c, quota) ==
  companies' = companies \cup {[id |-> NewId(companies), name |-> c, quota |-> quota]}

\* Faulty variant: the connection does not enforce foreign keys.
CompanyUnchecked(id) == TRUE

\* foreign_keys is on: the parent has to exist.
CompanyExists(id) == \E c \in companies : c.id = id

CanInsertGroup(company_id, g) ==
  /\ CompanyExists(company_id)
  /\ \A x \in groups : ~Same(x.name, g)

InsertGroup(company_id, g, quota) ==
  groups' = groups \cup
    {[id |-> NewId(groups), company_id |-> company_id, name |-> g, quota |-> quota]}

CanInsertUser(group_id, u) ==
  /\ \E g \in groups : g.id = group_id
  /\ \A x \in users : x.group_id = group_id => ~Same(x.name, u)

InsertUser(group_id, u, password, authority, quota) ==
  users' = users \cup
    {[id |-> NewId(users), group_id |-> group_id, name |-> u, password |-> password,
      authority |-> authority, quota |-> quota]}

SetPassword(ids, password) ==
  users' = {IF u.id \in ids THEN [u EXCEPT !.password = password] ELSE u : u \in users}

-----------------------------------------------------------------------------
(* Deletes take everything below with them.                                 *)

DeleteUsers(ids) == users' = {u \in users : u.id \notin ids}

\* delete_group: its users, then the group itself.  The first "done" statements
\* take effect, each on its own.
DeleteGroups(ids, done) ==
  /\ users' = IF done < 1 THEN users ELSE {u \in users : u.group_id \notin ids}
  /\ groups' = IF done < 2 THEN groups ELSE {g \in groups : g.id \notin ids}

\* delete_company: its users, its groups, then the company.
DeleteCompanies(ids, done) ==
  /\ DeleteGroups({g.id : g \in {x \in groups : x.company_id \in ids}}, done)
  /\ companies' = IF done < 3 THEN companies ELSE {c \in companies : c.id \notin ids}

-----------------------------------------------------------------------------
(* The flattened directory.                                                 *)

\* Row::from_account: the wire form repeats the name above into the levels that
\* do not apply.  "key" is what ORDER BY compares.
CompanyRow(c) ==
  [level |-> "company", id |-> c.id, key |-> <<Rank[c.name], 0, 0, 0>>,
   names |-> <<c.name, c.name, c.name>>, authority |-> COMPANY_ADMIN, quota |-> c.quota]

GroupRow(g) ==
  LET c == CompanyOf(g).name IN
  [level |-> "group", id |-> g.id, key |-> <<Rank[c], Rank[g.name], 1, 0>>,
   names |-> <<c, g.name, g.name>>, authority |-> GROUP_ADMIN, quota |-> g.quota]

UserRow(u) ==
  LET g == GroupOf(u)
      c == CompanyOf(g).name
  IN [level |-> "user", id |-> u.id, key |-> <<Rank[c], Rank[g.name], 2, Rank[u.name]>>,
      names |-> <<c, g.name, u.name>>, authority |-> u.authority, quota |-> u.quota]

\* Directory::load
Rows ==
  {CompanyRow(c) : c \in companies} \cup {GroupRow(g) : g \in groups} \cup
  {UserRow(u) : u \in users}

Before(k, l) ==
  \E i \in 1 .. 4 : k[i] < l[i] /\ \A j \in 1 .. (i - 1) : k[j] = l[j]

\* The index of a row in the loaded Vec.
Index(row) == Cardinality({r \in Rows : Before(r.key, row.key)})

\* Directory::get, as the set of the one row it returns or no row.
RowsAt(index) == {r \in Rows : Index(r) = index}

\* Row::matches
Matches(row, prefix) == \A i \in DOMAIN prefix : Same(row.names[i], prefix[i])

\* Directory::find: the last match, again as a set of at most one.
FindRows(prefix) ==
  LET matching == {r \in Rows : Matches(r, prefix)}
  IN {r \in matching : \A other \in matching : ~Before(r.key, other.key)}

\* Row::level, read off the spellings of the names alone.
LevelOf(names) ==
  CASE names[1] = names[2] /\ names[2] = names[3] -> "company"
    [] names[1] # names[2] /\ names[2] = names[3] -> "group"
    [] OTHER -> "user"

\* Level::required
Required(level) ==
  CASE level = "company" -> SYSTEM_ADMIN
    [] level = "group" -> COMPANY_ADMIN
    [] level = "user" -> GROUP_ADMIN

\* How many names of a triple address something.
Depth(names) ==
  IF Same(names[1], names[2]) THEN 1 ELSE IF Same(names[2], names[3]) THEN 2 ELSE 3

=============================================================================
