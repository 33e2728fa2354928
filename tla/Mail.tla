-------------------------------- MODULE Mail --------------------------------
(***************************************************************************)
(* The mail service: sessions of several accounts that send mail, read it  *)
(* and put requests together from fragments, while accounts come and go.   *)
(*                                                                         *)
(* Source: src/Server/src/vipc/mail/postoffice.rs and                      *)
(* src/Server/src/db/mailbox.rs.  Sending looks the recipient up under one *)
(* lock of the database and inserts under another; reading new mail finds  *)
(* the message and marks it likewise.  The bytes of a request are pieces:  *)
(* the head and the tail of a request for new mail, whose other orders are *)
(* requests that change nothing.  All accounts share one group, the only   *)
(* one mail can be addressed in.                                           *)
(***************************************************************************)
EXTENDS Directory, SequencesExt

CONSTANTS
  Sessions,
  Seed,           \* the names of the account the migrations create
  UserNames,      \* the accounts that may exist
  Channels,       \* the notes the service knows, CHANNEL_SELECT among them
  Connections,    \* the connection ids each session's client uses
  MAX_REQUEST,    \* bound: pieces of a request
  MaxId           \* bound: row ids of users and messages

ASSUME MailAssumption ==
  /\ UserNames \subseteq Names
  /\ Seed \in Names \X Names \X UserNames
  /\ "select" \in Channels
  /\ Connections \in [Sessions -> SUBSET (Nat \ {0})]
  /\ MAX_REQUEST \in Nat \ {0} /\ MaxId \in Nat \ {0}

VARIABLES
  messages,     \* the messages table
  owner,        \* owner_id and owner_name of each session, or NoOwner
  fragments,    \* the requests each session is putting together
  doing         \* what a session does between two locks, or Idle

vars == <<tables, messages, owner, fragments, doing>>

NoOwner == [id |-> 0]
Idle == [op |-> "idle"]
NoConnection == 0

\* Pending::default
NoPending == [connection |-> NoConnection, data |-> <<>>]
Nothing == [c \in Channels |-> NoPending]

\* What a fragment carries: a piece of a request, or nothing.
Pieces(connection) == [part : {"head", "tail"}, from : {connection}]
Data(connection) == {<<>>} \cup {<<p>> : p \in Pieces(connection)}

Ready(s) == owner[s] # NoOwner /\ doing[s] = Idle

Init ==
  /\ companies = {[id |-> 1, name |-> Seed[1], quota |-> 0]}
  /\ groups = {[id |-> 1, company_id |-> 1, name |-> Seed[2], quota |-> 0]}
  /\ users = {[id |-> 1, group_id |-> 1, name |-> Seed[3], password |-> "",
               authority |-> SYSTEM_ADMIN, quota |-> 0]}
  /\ messages = {}
  /\ owner = [s \in Sessions |-> NoOwner]
  /\ fragments = [s \in Sessions |-> Nothing]
  /\ doing = [s \in Sessions |-> Idle]

-----------------------------------------------------------------------------
(* Accounts, and the sessions that sign on to them.                         *)

CreateUser(name) ==
  /\ CanInsertUser(1, name) /\ NewId(users) <= MaxId
  /\ InsertUser(1, name, "", NORMAL, 0)
  /\ UNCHANGED <<companies, groups, messages, owner, fragments, doing>>

\* Faulty variant: the mail of a deleted account stays.
CascadeNone(ids) == UNCHANGED messages

\* ON DELETE CASCADE
Cascade(ids) ==
  messages' = {m \in messages : m.sender_id \notin ids /\ m.recipient_id \notin ids}

DeleteUser(id) ==
  /\ id \in {u.id : u \in users}
  /\ DeleteUsers({id})
  /\ Cascade({id})
  /\ UNCHANGED <<companies, groups, owner, fragments, doing>>

\* MailServer::new
SignOn(s) ==
  /\ owner[s] = NoOwner
  /\ \E u \in users : owner' = [owner EXCEPT ![s] = [id |-> u.id, name |-> u.name]]
  /\ UNCHANGED <<tables, messages, fragments, doing>>

\* The service is dropped with all it was putting together.
SignOff(s) ==
  /\ Ready(s)
  /\ owner' = [owner EXCEPT ![s] = NoOwner]
  /\ fragments' = [fragments EXCEPT ![s] = Nothing]
  /\ UNCHANGED <<tables, messages, doing>>

\* The process ends and starts again: the tables survive, the sessions do not.
Restart ==
  /\ owner' = [s \in Sessions |-> NoOwner]
  /\ fragments' = [s \in Sessions |-> Nothing]
  /\ doing' = [s \in Sessions |-> Idle]
  /\ UNCHANGED <<tables, messages>>

-----------------------------------------------------------------------------
(* Sending.                                                                 *)

\* find_recipient: by name, in the group of the sender.
Recipients(sender, name) ==
  {u.id : u \in {x \in users : Same(x.name, name) /\ \E y \in users :
                                 y.id = sender /\ y.group_id = x.group_id}}

AcceptOutgoing(s, name) ==
  /\ Ready(s)
  /\ \E id \in Recipients(owner[s].id, name) :
       doing' = [doing EXCEPT ![s] = [op |-> "send", to |-> id]]
  /\ UNCHANGED <<tables, messages, owner, fragments>>

Mailbox(id) == {m \in messages : m.recipient_id = id}

\* Faulty variant: the mail id is the number of messages, plus one.
NextMailIdByCount(id) == Cardinality(Mailbox(id)) + 1

NextMailId(id) == Max({0} \cup {m.mail_id : m \in Mailbox(id)}) + 1

\* Both correspondents have to exist, and the mail id has to be new.
CanInsertMail(from, to) ==
  /\ {from, to} \subseteq {u.id : u \in users}
  /\ \A m \in Mailbox(to) : m.mail_id # NextMailId(to)

InsertMail(s) ==
  LET from == owner[s].id
      to == doing[s].to
  IN
  /\ doing[s].op = "send"
  /\ IF CanInsertMail(from, to)
       THEN /\ NewId(messages) <= MaxId
            /\ messages' = messages \cup
                 {[id |-> NewId(messages), sender_id |-> from, recipient_id |-> to,
                   mail_id |-> NextMailId(to), is_read |-> FALSE]}
       ELSE UNCHANGED messages
  /\ doing' = [doing EXCEPT ![s] = Idle]
  /\ UNCHANGED <<tables, owner, fragments>>

\* The database cannot be written: the message is given up.
InsertFails(s) ==
  /\ doing[s].op = "send"
  /\ doing' = [doing EXCEPT ![s] = Idle]
  /\ UNCHANGED <<tables, messages, owner, fragments>>

-----------------------------------------------------------------------------
(* Requests in fragments.                                                   *)

\* Faulty variant: fragments of another connection are added to the request.
KeptForAny(pending, connection) == pending.data

\* What is kept of a pending request when a fragment of a connection arrives.
Kept(pending, connection) ==
  IF pending.connection = connection THEN pending.data ELSE <<>>

\* SRequest::parse: a request for new mail, complete and in order.
ReadsNew(data) == Len(data) = 2 /\ data[1].part = "head" /\ data[2].part = "tail"

\* first_unread: the oldest, as the set of one or no message.
FirstUnread(id) ==
  LET unread == {m \in Mailbox(id) : ~m.is_read}
  IN {m \in unread : \A other \in unread : m.mail_id <= other.mail_id}

Keep(s, channel, pending) == fragments' = [fragments EXCEPT ![s][channel] = pending]

\* A fragment that cannot be parsed or carries an error.
ProcessMalformed(s, channel) ==
  /\ Ready(s)
  /\ Keep(s, channel, NoPending)
  /\ UNCHANGED <<tables, messages, owner, doing>>

\* Faulty variant: a request may grow without bound.
TooLongNever(request) == FALSE

TooLong(request) == Len(request) > MAX_REQUEST

\* A fragment with the MORE flag: it is kept unless the request grows too long.
ProcessMore(s, channel, connection, data) ==
  LET request == Kept(fragments[s][channel], connection) \o data IN
  /\ Ready(s)
  /\ Keep(s, channel, IF TooLong(request) THEN NoPending
                      ELSE [connection |-> connection, data |-> request])
  /\ UNCHANGED <<tables, messages, owner, doing>>

\* The last fragment.  Only a request for new mail that finds some has anything
\* left to do.
ProcessLast(s, channel, connection, data) ==
  LET request == Kept(fragments[s][channel], connection) \o data
      found == IF channel = "select" /\ ~TooLong(request) /\ ReadsNew(request)
                 THEN FirstUnread(owner[s].id) ELSE {}
  IN
  /\ Ready(s)
  /\ Keep(s, channel, NoPending)
  /\ \/ \E m \in found :
           doing' = [doing EXCEPT ![s] = [op |-> "mark", message |-> m.id, request |-> request]]
     \/ found = {} /\ UNCHANGED doing
  /\ UNCHANGED <<tables, messages, owner>>

\* mark_read, by row id, and the answer with the message; or the statement
\* fails and there is no answer.
MarkRead(s) ==
  /\ doing[s].op = "mark"
  /\ \/ messages' = {IF m.id = doing[s].message THEN [m EXCEPT !.is_read = TRUE] ELSE m :
                       m \in messages}
     \/ UNCHANGED messages
  /\ doing' = [doing EXCEPT ![s] = Idle]
  /\ UNCHANGED <<tables, owner, fragments>>

-----------------------------------------------------------------------------

Process(s) ==
  \E channel \in Channels :
    \/ ProcessMalformed(s, channel)
    \/ \E connection \in Connections[s] : \E data \in Data(connection) :
         ProcessMore(s, channel, connection, data) \/ ProcessLast(s, channel, connection, data)

Next ==
  \/ \E name \in UserNames : CreateUser(name)
  \/ \E id \in 1 .. MaxId : DeleteUser(id)
  \/ Restart
  \/ \E s \in Sessions :
       \/ SignOn(s) \/ SignOff(s)
       \/ \E name \in UserNames : AcceptOutgoing(s, name)
       \/ InsertMail(s) \/ InsertFails(s) \/ Process(s) \/ MarkRead(s)

Spec == Init /\ [][Next]_vars

-----------------------------------------------------------------------------

\* Every variable has its type.
TypeOK ==
  /\ messages \subseteq [id : 1 .. MaxId, sender_id : 1 .. MaxId, recipient_id : 1 .. MaxId,
                         mail_id : 1 .. MaxId, is_read : BOOLEAN]
  /\ \A s \in Sessions, c \in Channels :
       /\ fragments[s][c].connection \in Connections[s] \cup {NoConnection}
       /\ fragments[s][c].data \in
            BoundedSeq(UNION {Pieces(k) : k \in Connections[s]}, MAX_REQUEST)
  /\ \A s \in Sessions : doing[s].op \in {"idle", "send", "mark"}

\* "a mailbox cannot name an account that does not exist" (mailbox.rs:9): both
\* correspondents of every message are accounts, although one may be deleted
\* between the lookup of the recipient and the insert.
CorrespondentsExist ==
  \A m \in messages : {m.sender_id, m.recipient_id} \subseteq {u.id : u \in users}

\* The insert of a message between two accounts that exist adds it.
StoresSent(s) ==
  InsertMail(s) /\ {owner[s].id, doing[s].to} \subseteq {u.id : u \in users}
    => Cardinality(messages') = Cardinality(messages) + 1

\* "two sessions writing to one mailbox cannot settle on the same [id]"
\* (mailbox.rs:108-109): a message between two accounts that exist is always stored
\* by a database that works, never refused for a mail id that is taken, whatever mail
\* was deleted before.
SendsAreStored == [][\A s \in Sessions : StoresSent(s)]_vars

\* A request that is carried out was sent by one connection from its first to
\* its last fragment (postoffice.rs:244-247; the test drops_interleaved_connection).
OneConnectionPerRequest ==
  \A s \in Sessions : doing[s].op = "mark" =>
    \A i, j \in DOMAIN doing[s].request : doing[s].request[i].from = doing[s].request[j].from

-----------------------------------------------------------------------------
(* A statement of the code that its run refutes.                            *)

\* postoffice.rs:59-61, "mail is stored per account, so a session can only ever
\* reach the one it signed on to": the mailbox of a session belongs to the
\* account whose name it signed on with, or to none.
OwnMailboxOnly ==
  \A s \in Sessions : owner[s] # NoOwner =>
    \A u \in users : u.id = owner[s].id => Same(u.name, owner[s].name)

=============================================================================
