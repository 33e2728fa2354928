----------------------------- MODULE MailProofs -----------------------------
(***************************************************************************)
(* Mail for any number of sessions, accounts, channels and connections: no *)
(* message names an account that is gone, mail between accounts that exist *)
(* is stored, and no request is put together from two connections.         *)
(***************************************************************************)
EXTENDS Mail, NumberProofs

-----------------------------------------------------------------------------
(* The inductive invariant.                                                 *)

Messages ==
  [id : 1 .. MaxId, sender_id : 1 .. MaxId, recipient_id : 1 .. MaxId,
   mail_id : Nat \ {0}, is_read : BOOLEAN]

\* The tables are as the statements leave them.
TablesOK ==
  /\ messages \subseteq Messages /\ IsFiniteSet(messages)
  /\ \A u \in users : u.id \in 1 .. MaxId

\* What a session holds is its own.
SessionsOK ==
  /\ owner = [s \in Sessions |-> owner[s]]
  /\ doing = [s \in Sessions |-> doing[s]]
  /\ fragments = [s \in Sessions |-> [c \in Channels |-> fragments[s][c]]]
  /\ \A s \in Sessions : doing[s].op = "send" => owner[s] # NoOwner

\* What is kept on a channel came from the connection it is kept for, and so did
\* the request that is being carried out.
FragmentsFromOne ==
  /\ \A s \in Sessions, c \in Channels :
       fragments[s][c].data \in Seq(Pieces(fragments[s][c].connection))
  /\ \A s \in Sessions : doing[s].op = "mark" =>
       \E k : doing[s].request \in Seq(Pieces(k))

Inv ==
  /\ TablesOK
  /\ SessionsOK
  /\ CorrespondentsExist
  /\ FragmentsFromOne

-----------------------------------------------------------------------------
(* Ids.                                                                     *)

\* One more than the largest id of a table is the id of no record.
LEMMA NewIdIsNew ==
  ASSUME NEW T, \A r \in T : r.id \in 1 .. MaxId
  PROVE  NewId(T) \in Nat \ {0} /\ \A r \in T : r.id # NewId(T)
<1>1. MaxId \in Nat
  BY MailAssumption
<1> QED
  BY <1>1, IdAfterLargest DEF NewId

\* The mail id of a new message is one no message of the mailbox has, however
\* many messages were deleted from it before.
LEMMA NextMailIdIsNew ==
  ASSUME TablesOK, NEW id
  PROVE  NextMailId(id) \in Nat \ {0} /\ \A m \in Mailbox(id) : m.mail_id # NextMailId(id)
<1> DEFINE B == Mailbox(id)
           S == {m.mail_id : m \in B}
           f == [m \in B |-> m.mail_id]
<1>1. IsFiniteSet(B) /\ \A m \in B : m.mail_id \in Nat
  BY FS_Subset DEF TablesOK, Mailbox, Messages
<1>2. IsFiniteSet(S) /\ S \subseteq Nat
  <2>1. f \in Surjection(B, S)
    BY DEF Surjection
  <2> HIDE DEF f, S
  <2>2. IsFiniteSet(S)
    BY <1>1, <2>1, FS_Surjection
  <2> QED
    BY <1>1, <2>2 DEF S
<1> DEFINE Z == {0} \cup S
<1>3. IsFiniteSet(Z) /\ Z \subseteq Nat /\ Z # {}
  <2> HIDE DEF S
  <2>1. IsFiniteSet(S \cup {0})
    BY <1>2, FS_AddElement
  <2>2. Z = S \cup {0}
    OBVIOUS
  <2> QED
    BY <1>2, <2>1, <2>2
<1>4. NextMailId(id) = Max(Z) + 1
  BY DEF NextMailId
<1>5. \A m \in B : m.mail_id \in Z
  OBVIOUS
<1> HIDE DEF Z, B
<1>6. Max(Z) \in Nat /\ \A y \in Z : Max(Z) >= y
  BY <1>3, MaxOfNaturals, Zenon
<1>7. \A m \in B : m.mail_id # Max(Z) + 1
  BY <1>1, <1>5, <1>6
<1> QED
  BY <1>4, <1>6, <1>7 DEF B

LEMMA InitInv == Init => Inv
<1> SUFFICES ASSUME Init
             PROVE  Inv
  OBVIOUS
<1>1. TablesOK
  <2>1. messages = {} /\ IsFiniteSet({})
    BY FS_EmptySet, Zenon DEF Init
  <2>2. \A u \in users : u.id = 1
    <3> DEFINE first == [id |-> 1, group_id |-> 1, name |-> Seed[3], password |-> "",
                         authority |-> SYSTEM_ADMIN, quota |-> 0]
    <3>1. first.id = 1
      OBVIOUS
    <3>2. users = {first}
      BY Zenon DEF Init
    <3> HIDE DEF first
    <3> QED
      BY <3>1, <3>2
  <2>3. 1 \in 1 .. MaxId
    BY MailAssumption
  <2> QED
    BY <2>1, <2>2, <2>3 DEF TablesOK
<1>2. SessionsOK
  BY Zenon DEF Init, SessionsOK, Nothing, Idle
<1>3. CorrespondentsExist
  BY Zenon DEF Init, CorrespondentsExist
<1>4. FragmentsFromOne
  <2>1. \A s \in Sessions, c \in Channels : fragments[s][c].data = <<>>
    BY Zenon DEF Init, Nothing, NoPending
  <2>2. \A s \in Sessions : doing[s].op = "idle"
    BY Zenon DEF Init, Idle
  <2>3. \A S : <<>> \in Seq(S)
    OBVIOUS
  <2> QED
    BY <2>1, <2>2, <2>3, Zenon DEF FragmentsFromOne
<1> QED
  BY <1>1, <1>2, <1>3, <1>4 DEF Inv

-----------------------------------------------------------------------------
(* Accounts come and go.                                                    *)

LEMMA CreateUserInv ==
  ASSUME Inv, NEW name, CreateUser(name)
  PROVE  Inv'
<1>1. /\ UNCHANGED <<messages, owner, fragments, doing>>
      /\ NewId(users) <= MaxId
  BY Zenon DEF CreateUser
<1>2. NewId(users) \in 1 .. MaxId
  <2>1. NewId(users) \in Nat \ {0}
    BY NewIdIsNew DEF Inv, TablesOK
  <2>2. MaxId \in Nat
    BY MailAssumption
  <2> QED
    BY <1>1, <2>1, <2>2
<1>3. PICK r : users' = users \cup {r} /\ r.id = NewId(users)
  <2> DEFINE r == [id |-> NewId(users), group_id |-> 1, name |-> name, password |-> "",
                   authority |-> NORMAL, quota |-> 0]
  <2>1. r.id = NewId(users)
    OBVIOUS
  <2>2. users' = users \cup {r}
    BY Zenon DEF CreateUser, InsertUser
  <2> HIDE DEF r
  <2> QED
    BY <2>1, <2>2
<1>4. TablesOK'
  BY <1>1, <1>2, <1>3 DEF Inv, TablesOK
<1>5. CorrespondentsExist'
  BY <1>1, <1>3 DEF Inv, CorrespondentsExist
<1>6. SessionsOK' /\ FragmentsFromOne'
  BY <1>1 DEF Inv, SessionsOK, FragmentsFromOne
<1> QED
  BY <1>4, <1>5, <1>6 DEF Inv

LEMMA DeleteUserInv ==
  ASSUME Inv, NEW id, DeleteUser(id)
  PROVE  Inv'
<1>1. /\ users' = {u \in users : u.id # id}
      /\ messages' = {m \in messages : m.sender_id # id /\ m.recipient_id # id}
      /\ UNCHANGED <<owner, fragments, doing>>
  BY DEF DeleteUser, DeleteUsers, Cascade
<1>2. TablesOK'
  <2>1. IsFiniteSet(messages')
    BY <1>1, FS_Subset DEF Inv, TablesOK
  <2> QED
    BY <1>1, <2>1 DEF Inv, TablesOK
<1>3. CorrespondentsExist'
  BY <1>1 DEF Inv, CorrespondentsExist
<1>4. SessionsOK' /\ FragmentsFromOne'
  BY <1>1 DEF Inv, SessionsOK, FragmentsFromOne
<1> QED
  BY <1>2, <1>3, <1>4 DEF Inv

-----------------------------------------------------------------------------
(* Sessions.                                                                *)

\* A step that leaves the tables alone and keeps or drops what the sessions put
\* together.
LEMMA SessionStepInv ==
  ASSUME Inv, UNCHANGED <<tables, messages>>, SessionsOK', FragmentsFromOne'
  PROVE  Inv'
BY DEF Inv, tables, TablesOK, CorrespondentsExist

LEMMA SignOnInv ==
  ASSUME Inv, NEW s \in Sessions, SignOn(s)
  PROVE  Inv'
<1>1. PICK o : owner' = [owner EXCEPT ![s] = o] /\ o # NoOwner
  <2>1. PICK u \in users : owner' = [owner EXCEPT ![s] = [id |-> u.id, name |-> u.name]]
    BY Zenon DEF SignOn
  <2> DEFINE o == [id |-> u.id, name |-> u.name]
  <2>2. u.id \in 1 .. MaxId /\ o.id = u.id /\ NoOwner.id = 0
    BY DEF Inv, TablesOK, NoOwner
  <2>3. owner' = [owner EXCEPT ![s] = o]
    BY <2>1
  <2> HIDE DEF o
  <2>4. o # NoOwner
    BY <2>2
  <2> QED
    BY <2>3, <2>4, Zenon
<1>2. UNCHANGED <<tables, messages, fragments, doing>>
  BY DEF SignOn
<1>3. SessionsOK'
  BY <1>1, <1>2, Zenon DEF Inv, SessionsOK
<1>4. FragmentsFromOne'
  BY <1>2 DEF Inv, FragmentsFromOne
<1> QED
  BY <1>2, <1>3, <1>4, SessionStepInv

\* Nothing is kept from no connection.
LEMMA NothingKept ==
  /\ Nothing = [c \in Channels |-> Nothing[c]]
  /\ \A c \in Channels : Nothing[c].data \in Seq(Pieces(Nothing[c].connection))
<1>1. \A c \in Channels : Nothing[c].data = <<>>
  BY DEF Nothing, NoPending
<1>2. \A S : <<>> \in Seq(S)
  OBVIOUS
<1> QED
  BY <1>1, <1>2, Zenon DEF Nothing

LEMMA SignOffInv ==
  ASSUME Inv, NEW s \in Sessions, SignOff(s)
  PROVE  Inv'
<1>1. /\ owner' = [owner EXCEPT ![s] = NoOwner]
      /\ fragments' = [fragments EXCEPT ![s] = Nothing]
      /\ doing[s] = Idle
      /\ UNCHANGED <<tables, messages, doing>>
  BY DEF SignOff, Ready
<1>2. doing[s].op = "idle"
  BY <1>1 DEF Idle
<1>3. SessionsOK'
  BY <1>1, <1>2, NothingKept, Zenon DEF Inv, SessionsOK
<1>4. FragmentsFromOne'
  BY <1>1, NothingKept, Zenon DEF Inv, SessionsOK, FragmentsFromOne
<1> QED
  BY <1>1, <1>3, <1>4, SessionStepInv

LEMMA RestartInv ==
  ASSUME Inv, Restart
  PROVE  Inv'
<1>1. /\ owner' = [s \in Sessions |-> NoOwner]
      /\ fragments' = [s \in Sessions |-> Nothing]
      /\ doing' = [s \in Sessions |-> Idle]
      /\ UNCHANGED <<tables, messages>>
  BY DEF Restart
<1>2. Idle.op = "idle"
  BY DEF Idle
<1>3. SessionsOK'
  BY <1>1, <1>2, NothingKept DEF SessionsOK
<1>4. FragmentsFromOne'
  BY <1>1, <1>2, NothingKept DEF FragmentsFromOne
<1> QED
  BY <1>1, <1>3, <1>4, SessionStepInv

-----------------------------------------------------------------------------
(* Sending.                                                                 *)

LEMMA AcceptOutgoingInv ==
  ASSUME Inv, NEW s \in Sessions, NEW name, AcceptOutgoing(s, name)
  PROVE  Inv'
<1>1. PICK d : doing' = [doing EXCEPT ![s] = d] /\ d.op = "send"
  <2>1. PICK id : doing' = [doing EXCEPT ![s] = [op |-> "send", to |-> id]]
    BY Zenon DEF AcceptOutgoing
  <2> DEFINE d == [op |-> "send", to |-> id]
  <2>2. doing' = [doing EXCEPT ![s] = d] /\ d.op = "send"
    BY <2>1
  <2> HIDE DEF d
  <2> QED
    BY <2>2, Zenon
<1>2. UNCHANGED <<tables, messages, owner, fragments>> /\ owner[s] # NoOwner
  BY DEF AcceptOutgoing, Ready
<1>3. SessionsOK'
  BY <1>1, <1>2, Zenon DEF Inv, SessionsOK
<1>4. FragmentsFromOne'
  BY <1>1, <1>2, Zenon DEF Inv, SessionsOK, FragmentsFromOne
<1> QED
  BY <1>2, <1>3, <1>4, SessionStepInv

\* The session is idle after its second step; nothing else of any session changes.
LEMMA SecondStepSessions ==
  ASSUME Inv, NEW s \in Sessions, doing' = [doing EXCEPT ![s] = Idle],
         UNCHANGED <<owner, fragments>>
  PROVE  SessionsOK' /\ FragmentsFromOne'
<1>1. Idle.op = "idle"
  BY DEF Idle
<1>2. SessionsOK'
  BY <1>1, Zenon DEF Inv, SessionsOK
<1>3. FragmentsFromOne'
  BY <1>1, Zenon DEF Inv, SessionsOK, FragmentsFromOne
<1> QED
  BY <1>2, <1>3

\* The record that is inserted is a message between two accounts, and a new one.
LEMMA NewMessage ==
  ASSUME Inv, NEW s \in Sessions, InsertMail(s), CanInsertMail(owner[s].id, doing[s].to)
  PROVE  \E r \in Messages : /\ messages' = messages \cup {r} /\ r \notin messages
                             /\ {r.sender_id, r.recipient_id} \subseteq {u.id : u \in users}
<1> DEFINE from == owner[s].id
           to == doing[s].to
           new == NewId(messages)
           mail == NextMailId(to)
           r == [id |-> new, sender_id |-> from, recipient_id |-> to,
                 mail_id |-> mail, is_read |-> FALSE]
<1>1. messages' = messages \cup {r} /\ new <= MaxId
  BY DEF InsertMail
<1>2. {from, to} \subseteq {u.id : u \in users}
  BY DEF CanInsertMail
<1>3. from \in 1 .. MaxId /\ to \in 1 .. MaxId
  BY <1>2 DEF Inv, TablesOK
<1>4. new \in Nat \ {0} /\ \A m \in messages : m.id # new
  <2>1. \A m \in messages : m.id \in 1 .. MaxId
    BY DEF Inv, TablesOK, Messages
  <2> QED
    BY <2>1, NewIdIsNew
<1>5. mail \in Nat \ {0}
  BY NextMailIdIsNew DEF Inv
<1> HIDE DEF from, to, new, mail
<1>6. new \in 1 .. MaxId
  <2>1. MaxId \in Nat
    BY MailAssumption
  <2> QED
    BY <1>1, <1>4, <2>1
<1>7. r \in Messages
  BY <1>3, <1>5, <1>6 DEF Messages
<1>8. r.id = new /\ r.sender_id = from /\ r.recipient_id = to
  OBVIOUS
<1> HIDE DEF r
<1>9. r \notin messages
  BY <1>4, <1>8
<1> QED
  BY <1>1, <1>2, <1>7, <1>8, <1>9

LEMMA InsertMailInv ==
  ASSUME Inv, NEW s \in Sessions, InsertMail(s)
  PROVE  Inv'
<1>1. doing' = [doing EXCEPT ![s] = Idle] /\ UNCHANGED <<tables, owner, fragments>>
  BY DEF InsertMail
<1>2. SessionsOK' /\ FragmentsFromOne'
  BY <1>1, SecondStepSessions, Zenon
<1>3. CASE CanInsertMail(owner[s].id, doing[s].to)
  <2>1. PICK r \in Messages :
          /\ messages' = messages \cup {r}
          /\ {r.sender_id, r.recipient_id} \subseteq {u.id : u \in users}
    BY <1>3, NewMessage
  <2>2. IsFiniteSet(messages')
    BY <2>1, FS_AddElement DEF Inv, TablesOK
  <2>3. users' = users
    BY <1>1 DEF tables
  <2>4. TablesOK'
    <3>1. messages' \subseteq Messages
      BY <2>1 DEF Inv, TablesOK
    <3> QED
      BY <2>2, <2>3, <3>1 DEF Inv, TablesOK, Messages
  <2>5. CorrespondentsExist'
    BY <2>1, <2>3 DEF Inv, CorrespondentsExist
  <2> QED
    BY <1>2, <2>4, <2>5 DEF Inv
<1>4. CASE ~CanInsertMail(owner[s].id, doing[s].to)
  <2>1. UNCHANGED messages
    BY <1>4 DEF InsertMail
  <2> QED
    BY <1>1, <1>2, <2>1, SessionStepInv
<1> QED
  BY <1>3, <1>4

LEMMA InsertFailsInv ==
  ASSUME Inv, NEW s \in Sessions, InsertFails(s)
  PROVE  Inv'
<1>1. /\ doing' = [doing EXCEPT ![s] = Idle]
      /\ UNCHANGED <<tables, messages, owner, fragments>>
  BY DEF InsertFails
<1>2. SessionsOK' /\ FragmentsFromOne'
  BY <1>1, SecondStepSessions, Zenon
<1> QED
  BY <1>1, <1>2, SessionStepInv

-----------------------------------------------------------------------------
(* Requests in fragments.                                                   *)

\* What is kept and the fragment that follows are of one connection.
LEMMA RequestFromOne ==
  ASSUME Inv, NEW s \in Sessions, NEW channel \in Channels, NEW connection,
         NEW data \in Data(connection)
  PROVE  Kept(fragments[s][channel], connection) \o data \in Seq(Pieces(connection))
<1> DEFINE P == Pieces(connection)
           kept == Kept(fragments[s][channel], connection)
<1>1. kept \in Seq(P)
  <2>1. fragments[s][channel].data \in Seq(Pieces(fragments[s][channel].connection))
    BY DEF Inv, FragmentsFromOne
  <2>2. CASE fragments[s][channel].connection = connection
    BY <2>1, <2>2 DEF Kept
  <2>3. CASE fragments[s][channel].connection # connection
    BY <2>3 DEF Kept
  <2> QED
    BY <2>2, <2>3
<1>2. data \in Seq(P)
  <2>1. data = <<>> \/ \E p \in P : data = <<p>>
    BY DEF Data
  <2> HIDE DEF P
  <2>2. <<>> \in Seq(P)
    OBVIOUS
  <2>3. \A p \in P : <<p>> \in Seq(P)
    OBVIOUS
  <2> QED
    BY <2>1, <2>2, <2>3, Zenon
<1> HIDE DEF P, kept
<1>3. kept \o data \in Seq(P)
  BY <1>1, <1>2
<1> QED
  BY <1>3 DEF P, kept

\* Keeping nothing, or a request of the connection it is kept for.
LEMMA KeepFragments ==
  ASSUME Inv, NEW s \in Sessions, NEW channel \in Channels, NEW kept,
         kept.data \in Seq(Pieces(kept.connection)), Keep(s, channel, kept)
  PROVE  /\ fragments' = [t \in Sessions |-> [c \in Channels |-> fragments'[t][c]]]
         /\ \A t \in Sessions, c \in Channels :
              fragments'[t][c].data \in Seq(Pieces(fragments'[t][c].connection))
<1>1. fragments' = [fragments EXCEPT ![s][channel] = kept]
  BY DEF Keep
<1>2. fragments = [t \in Sessions |-> [c \in Channels |-> fragments[t][c]]]
  BY DEF Inv, SessionsOK
<1>3. \A t \in Sessions, c \in Channels :
        fragments'[t][c] = IF t = s /\ c = channel THEN kept ELSE fragments[t][c]
  BY <1>1, <1>2
<1>4. fragments' = [t \in Sessions |-> [c \in Channels |-> fragments'[t][c]]]
  BY <1>1, <1>2, Zenon
<1>5. \A t \in Sessions, c \in Channels :
        fragments[t][c].data \in Seq(Pieces(fragments[t][c].connection))
  BY DEF Inv, FragmentsFromOne
<1> QED
  BY <1>3, <1>4, <1>5, Zenon

LEMMA NothingPending == NoPending.data \in Seq(Pieces(NoPending.connection))
<1>1. NoPending.data = <<>>
  BY DEF NoPending
<1> QED
  BY <1>1

LEMMA ProcessMalformedInv ==
  ASSUME Inv, NEW s \in Sessions, NEW channel \in Channels, ProcessMalformed(s, channel)
  PROVE  Inv'
<1>1. Keep(s, channel, NoPending) /\ UNCHANGED <<tables, messages, owner, doing>>
  BY DEF ProcessMalformed
<1>2. SessionsOK' /\ FragmentsFromOne'
  BY <1>1, NothingPending, KeepFragments, Zenon DEF Inv, SessionsOK, FragmentsFromOne
<1> QED
  BY <1>1, <1>2, SessionStepInv

LEMMA ProcessMoreInv ==
  ASSUME Inv, NEW s \in Sessions, NEW channel \in Channels, NEW connection,
         NEW data \in Data(connection), ProcessMore(s, channel, connection, data)
  PROVE  Inv'
<1> DEFINE request == Kept(fragments[s][channel], connection) \o data
           whole == [connection |-> connection, data |-> request]
           kept == IF TooLong(request) THEN NoPending ELSE whole
<1>1. Keep(s, channel, kept) /\ UNCHANGED <<tables, messages, owner, doing>>
  BY DEF ProcessMore
<1>2. request \in Seq(Pieces(connection))
  BY RequestFromOne
<1>3. whole.data = request /\ whole.connection = connection
  OBVIOUS
<1> HIDE DEF request, whole
<1>4. kept.data \in Seq(Pieces(kept.connection))
  BY <1>2, <1>3, NothingPending
<1> HIDE DEF kept
<1>5. SessionsOK' /\ FragmentsFromOne'
  BY <1>1, <1>4, KeepFragments, Zenon DEF Inv, SessionsOK, FragmentsFromOne
<1> QED
  BY <1>1, <1>5, SessionStepInv

LEMMA ProcessLastInv ==
  ASSUME Inv, NEW s \in Sessions, NEW channel \in Channels, NEW connection,
         NEW data \in Data(connection), ProcessLast(s, channel, connection, data)
  PROVE  Inv'
<1> DEFINE request == Kept(fragments[s][channel], connection) \o data
<1>1. Keep(s, channel, NoPending) /\ UNCHANGED <<tables, messages, owner>>
  BY DEF ProcessLast
<1>2. \/ \E d : doing' = [doing EXCEPT ![s] = d] /\ d.op = "mark" /\ d.request = request
      \/ UNCHANGED doing
  <2> SUFFICES ASSUME ~UNCHANGED doing
               PROVE  \E d : /\ doing' = [doing EXCEPT ![s] = d]
                             /\ d.op = "mark" /\ d.request = request
    OBVIOUS
  <2>1. PICK id : doing' = [doing EXCEPT ![s] = [op |-> "mark", message |-> id,
                                               request |-> request]]
    BY DEF ProcessLast
  <2> HIDE DEF request
  <2> DEFINE d == [op |-> "mark", message |-> id, request |-> request]
  <2>2. doing' = [doing EXCEPT ![s] = d] /\ d.op = "mark" /\ d.request = request
    BY <2>1
  <2> HIDE DEF d
  <2> QED
    BY <2>2, Zenon
<1>3. request \in Seq(Pieces(connection))
  BY RequestFromOne
<1> HIDE DEF request
<1>4. SessionsOK'
  BY <1>1, <1>2, NothingPending, KeepFragments, Zenon DEF Inv, SessionsOK
<1>5. FragmentsFromOne'
  <2>1. ASSUME NEW t \in Sessions, doing'[t].op = "mark"
        PROVE  \E k : doing'[t].request \in Seq(Pieces(k))
    <3>1. CASE doing'[t] = doing[t]
      BY <2>1, <3>1 DEF Inv, FragmentsFromOne
    <3>2. CASE doing'[t] # doing[t]
      <4>1. doing'[t].request = request
        BY <1>2, <3>2 DEF Inv, SessionsOK
      <4> QED
        BY <1>3, <4>1
    <3> QED
      BY <3>1, <3>2
  <2> QED
    BY <1>1, <2>1, NothingPending, KeepFragments, Zenon DEF FragmentsFromOne
<1> QED
  BY <1>1, <1>4, <1>5, SessionStepInv

\* Marking a message as read keeps every message, with its correspondents.
LEMMA MarkReadInv ==
  ASSUME Inv, NEW s \in Sessions, MarkRead(s)
  PROVE  Inv'
<1>1. doing' = [doing EXCEPT ![s] = Idle] /\ UNCHANGED <<tables, owner, fragments>>
  BY DEF MarkRead
<1>2. SessionsOK' /\ FragmentsFromOne'
  BY <1>1, SecondStepSessions, Zenon
<1>3. CASE UNCHANGED messages
  BY <1>1, <1>2, <1>3, SessionStepInv
<1>4. CASE messages' = {IF m.id = doing[s].message THEN [m EXCEPT !.is_read = TRUE] ELSE m :
                          m \in messages}
  <2> DEFINE Marked(m) == IF m.id = doing[s].message THEN [m EXCEPT !.is_read = TRUE] ELSE m
             f == [m \in messages |-> Marked(m)]
  <2>1. messages' = {Marked(m) : m \in messages}
    BY <1>4
  <2>2. \A m \in Messages : /\ Marked(m) \in Messages
                            /\ Marked(m).sender_id = m.sender_id
                            /\ Marked(m).recipient_id = m.recipient_id
    BY Zenon DEF Messages
  <2> HIDE DEF Marked
  <2>3. f \in Surjection(messages, messages')
    BY <2>1 DEF Surjection
  <2>4. IsFiniteSet(messages')
    <3> HIDE DEF f
    <3> QED
      BY <2>3, FS_Surjection DEF Inv, TablesOK
  <2>5. users' = users
    BY <1>1 DEF tables
  <2>6. TablesOK'
    <3>1. messages' \subseteq Messages
      BY <2>1, <2>2 DEF Inv, TablesOK
    <3> QED
      BY <2>4, <2>5, <3>1 DEF Inv, TablesOK, Messages
  <2>7. CorrespondentsExist'
    BY <2>1, <2>2, <2>5 DEF Inv, TablesOK, CorrespondentsExist
  <2> QED
    BY <1>2, <2>6, <2>7 DEF Inv
<1> QED
  BY <1>3, <1>4 DEF MarkRead

-----------------------------------------------------------------------------

LEMMA NextInv == Inv /\ [Next]_vars => Inv'
<1> SUFFICES ASSUME Inv, [Next]_vars
             PROVE  Inv'
  OBVIOUS
<1>1. CASE UNCHANGED vars
  <2>1. UNCHANGED <<tables, messages, owner, fragments, doing>>
    BY <1>1 DEF vars
  <2>2. SessionsOK' /\ FragmentsFromOne'
    BY <2>1 DEF Inv, SessionsOK, FragmentsFromOne
  <2> QED
    BY <2>1, <2>2, SessionStepInv
<1>2. ASSUME NEW name \in UserNames, CreateUser(name)
      PROVE  Inv'
  BY <1>2, CreateUserInv
<1>3. ASSUME NEW id \in 1 .. MaxId, DeleteUser(id)
      PROVE  Inv'
  BY <1>3, DeleteUserInv
<1>4. CASE Restart
  BY <1>4, RestartInv
<1>5. ASSUME NEW s \in Sessions, SignOn(s) \/ SignOff(s) \/ InsertMail(s) \/ InsertFails(s) \/ MarkRead(s)
      PROVE  Inv'
  BY <1>5, SignOnInv, SignOffInv, InsertMailInv, InsertFailsInv, MarkReadInv
<1>6. ASSUME NEW s \in Sessions, NEW name \in UserNames, AcceptOutgoing(s, name)
      PROVE  Inv'
  BY <1>6, AcceptOutgoingInv
<1>7. ASSUME NEW s \in Sessions, Process(s)
      PROVE  Inv'
  BY <1>7, ProcessMalformedInv, ProcessMoreInv, ProcessLastInv DEF Process
<1> QED
  BY <1>1, <1>2, <1>3, <1>4, <1>5, <1>6, <1>7 DEF Next

LEMMA InvHolds == Spec => []Inv
BY InitInv, NextInv, PTL DEF Spec

\* No message names an account that does not exist (mailbox.rs:9), although an
\* account may be deleted between the lookup of the recipient and the insert.
THEOREM NoDanglingMail == Spec => []CorrespondentsExist
<1>1. Inv => CorrespondentsExist
  BY DEF Inv
<1> QED
  BY <1>1, InvHolds, PTL

\* A request that is carried out was put together from the fragments of one
\* connection (postoffice.rs:244-247).
THEOREM RequestsAreWhole == Spec => []OneConnectionPerRequest
<1>1. Inv => OneConnectionPerRequest
  <2> SUFFICES ASSUME Inv, NEW s \in Sessions, doing[s].op = "mark",
                      NEW i \in DOMAIN doing[s].request, NEW j \in DOMAIN doing[s].request
               PROVE  doing[s].request[i].from = doing[s].request[j].from
    BY DEF OneConnectionPerRequest
  <2>1. PICK k : doing[s].request \in Seq(Pieces(k))
    BY DEF Inv, FragmentsFromOne
  <2>2. doing[s].request[i] \in Pieces(k) /\ doing[s].request[j] \in Pieces(k)
    BY <2>1
  <2> QED
    BY <2>2 DEF Pieces
<1> QED
  BY <1>1, InvHolds, PTL

\* Mail between two accounts that exist is stored: the mail id chosen under the
\* lock of the insert is never one that is taken (mailbox.rs:108-109).
THEOREM MailIsStored == Spec => SendsAreStored
<1>1. ASSUME Inv, NEW s \in Sessions
      PROVE  StoresSent(s)
  <2> SUFFICES ASSUME InsertMail(s), {owner[s].id, doing[s].to} \subseteq {u.id : u \in users}
               PROVE  Cardinality(messages') = Cardinality(messages) + 1
    BY DEF StoresSent
  <2>1. CanInsertMail(owner[s].id, doing[s].to)
    BY <1>1, NextMailIdIsNew DEF Inv, CanInsertMail
  <2>2. PICK r : messages' = messages \cup {r} /\ r \notin messages
    BY <1>1, <2>1, NewMessage
  <2> QED
    BY <1>1, <2>2, FS_AddElement, Zenon DEF Inv, TablesOK
<1>2. Inv => \A s \in Sessions : StoresSent(s)
  BY <1>1
<1> QED
  BY <1>2, InvHolds, PTL DEF SendsAreStored

=============================================================================
