---------------------------- MODULE SessionProofs ---------------------------
(***************************************************************************)
(* For every modulus, every bound and every behaviour of the client: the   *)
(* session's variables keep their types, and nothing is served outside a   *)
(* sign-on.                                                                *)
(***************************************************************************)
EXTENDS AnyClient, TLAPS

\* An element of a sequence over a set is in the set.
LEMMA ElementOfSeq ==
  ASSUME NEW S, NEW s \in Seq(S), NEW i \in DOMAIN s
  PROVE  s[i] \in S
OBVIOUS

\* An element of a concatenation comes from one of its parts.
LEMMA ConcatElement ==
  ASSUME NEW S, NEW T, NEW s \in Seq(S), NEW t \in Seq(T), NEW i \in DOMAIN (s \o t)
  PROVE  \/ i \in DOMAIN s /\ (s \o t)[i] = s[i]
         \/ \E k \in DOMAIN t : (s \o t)[i] = t[k]
PROOF
<1>1. CASE i \in 1 .. Len(s)
  BY <1>1
<1>2. CASE i \notin 1 .. Len(s)
  <2>1. i - Len(s) \in DOMAIN t /\ (s \o t)[i] = t[i - Len(s)]
    BY <1>2
  <2> QED BY <2>1
<1> QED BY <1>1, <1>2

\* A request taken later does not change whether an earlier one was signed on.
LEMMA SignedOnEarlier ==
  ASSUME NEW S, NEW taken \in Seq(S), NEW r \in S, NEW n \in 0 .. Len(taken)
  PROVE  SignedOnAfter(Append(taken, r), n) <=> SignedOnAfter(taken, n)
BY DEF SignedOnAfter

\* What one more request does to the state the requests leave the session in.
LEMMA SignedOnStep ==
  ASSUME NEW S, NEW taken \in Seq(S), NEW r \in S
  PROVE  SignedOnAfter(Append(taken, r), Len(taken) + 1) <=>
           \/ r.body.req = "SignOn" /\ r.status = StatusOk
           \/ r.body.req # "SignOff" /\ SignedOnAfter(taken, Len(taken))
PROOF
<1> DEFINE all == Append(taken, r)
           n == Len(taken)
<1>0. n \in Nat /\ Len(all) = n + 1 /\ all[n + 1] = r
        /\ \A i \in 1 .. n : all[i] = taken[i]
  OBVIOUS
<1>1. ASSUME r.body.req = "SignOn", r.status = StatusOk
      PROVE  SignedOnAfter(all, n + 1)
  BY <1>0, <1>1 DEF SignedOnAfter
<1>2. ASSUME r.body.req # "SignOff", SignedOnAfter(taken, n)
      PROVE  SignedOnAfter(all, n + 1)
  <2>1. PICK j \in 1 .. n :
          /\ taken[j].body.req = "SignOn" /\ taken[j].status = StatusOk
          /\ \A k \in (j + 1) .. n : taken[k].body.req # "SignOff"
    BY <1>2 DEF SignedOnAfter
  <2>2. \A k \in (j + 1) .. (n + 1) : all[k].body.req # "SignOff"
    BY <1>0, <1>2, <2>1
  <2> QED BY <1>0, <2>1, <2>2 DEF SignedOnAfter
<1>3. ASSUME SignedOnAfter(all, n + 1)
      PROVE  \/ r.body.req = "SignOn" /\ r.status = StatusOk
             \/ r.body.req # "SignOff" /\ SignedOnAfter(taken, n)
  <2>1. PICK j \in 1 .. (n + 1) :
          /\ all[j].body.req = "SignOn" /\ all[j].status = StatusOk
          /\ \A k \in (j + 1) .. (n + 1) : all[k].body.req # "SignOff"
    BY <1>3 DEF SignedOnAfter
  <2>2. CASE j = n + 1
    BY <1>0, <2>1, <2>2
  <2>3. CASE j \in 1 .. n
    <3>1. r.body.req # "SignOff"
      BY <1>0, <2>1, <2>3
    <3>2. SignedOnAfter(taken, n)
      BY <1>0, <2>1, <2>3 DEF SignedOnAfter
    <3> QED BY <3>1, <3>2
  <2> QED BY <1>0, <2>1, <2>2, <2>3
<1> QED BY <1>1, <1>2, <1>3

-----------------------------------------------------------------------------

\* The bodies Take is given: responses to the request being taken, admissible
\* for the state the requests before it leave the session in.
Answers ==
  [re : {Len(processed) + 1}, kind : {"Connect", "Disconnect", "SignOn", "Msg"},
   status : RequestStatus]

Admissible(bodies) ==
  /\ bodies \in Seq(Answers)
  /\ \A i \in DOMAIN bodies :
       LET signedOn == SignedOnAfter(processed, Len(processed)) IN
       /\ bodies[i].kind = "Msg" => signedOn
       /\ bodies[i].kind = "Connect" => (bodies[i].status = StatusOk <=> signedOn)

\* Taking a request in sequence keeps the types, whatever it is answered with.
LEMMA TakeKeepsTypes ==
  ASSUME TypeOK, NEW status \in RequestStatus, NEW bodies, Admissible(bodies),
         Take(status, bodies), alive' \in BOOLEAN, vipc' \in BOOLEAN
  PROVE  TypeOK'
PROOF
<1> DEFINE frame == Head(c2s)
           entry == [body |-> frame.body, status |-> status]
<1>1. c2s # <<>> /\ frame \in Frames /\ frame.type = "Data"
  BY DEF TypeOK, Take, Reading
<1>2. frame \in DataFrames
  BY <1>1 DEF Frames, ControlFrames, DataFrames
<1>3. frame.seq \in SeqNumbers /\ entry \in Taken
  BY <1>2 DEF DataFrames, Taken
<1>4. c2s' \in Seq(Frames) /\ recv_sequence' \in SeqNumbers
  BY <1>1, <1>3 DEF TypeOK, Take
<1>5. processed' \in Seq(Taken) /\ Len(processed') = Len(processed) + 1
  BY <1>3 DEF TypeOK, Take
<1>6. last_seq_number' \in SeqNumbers
  <2>1. Len(bodies) \in Nat /\ last_seq_number + Len(bodies) \in Nat
    BY DEF Admissible, TypeOK, SeqNumbers
  <2> QED BY <2>1, SeqModAssumption DEF Take, NumberAfter, SeqNumbers
<1>7. sent' \in Seq(Replies')
  <2>1. Len(processed) \in Nat
    BY DEF TypeOK
  <2>2. Replies \subseteq Replies'
    BY <1>5, <2>1 DEF Replies, RequestStatus
  <2>3. sent \in Seq(Replies')
    BY <2>2 DEF TypeOK
  <2>4. Answers \subseteq Replies'
    BY <1>5, <2>1 DEF Answers, Replies, RequestStatus
  <2>5. bodies \in Seq(Replies')
    BY <2>4 DEF Admissible
  <2> QED BY <2>3, <2>5 DEF Take
<1> QED BY <1>4, <1>5, <1>6, <1>7 DEF TypeOK

\* Taking a request with admissible responses keeps every response justified.
LEMMA TakeKeepsServed ==
  ASSUME TypeOK, ServedOnlySignedOn, NEW status \in RequestStatus, NEW bodies,
         Admissible(bodies), Take(status, bodies)
  PROVE  ServedOnlySignedOn'
PROOF
<1> DEFINE frame == Head(c2s)
           entry == [body |-> frame.body, status |-> status]
           n == Len(processed)
<1>1. c2s # <<>> /\ frame \in Frames /\ frame.type = "Data"
  BY DEF TypeOK, Take, Reading
<1>2. entry \in Taken
  BY <1>1 DEF Frames, ControlFrames, DataFrames, Taken
<1>3. processed \in Seq(Taken) /\ n \in Nat /\ processed' = Append(processed, entry)
  BY DEF TypeOK, Take
<1>4. \A m \in 0 .. n : SignedOnAfter(processed', m) <=> SignedOnAfter(processed, m)
  BY <1>2, <1>3, SignedOnEarlier
<1>5. sent' = sent \o bodies /\ sent \in Seq(Replies)
  BY DEF Take, TypeOK
<1>6. ASSUME NEW i \in DOMAIN sent'
      PROVE  LET signedOn == SignedOnAfter(processed', sent'[i].re - 1) IN
             /\ sent'[i].kind = "Msg" => signedOn
             /\ sent'[i].kind = "Connect" =>
                  (sent'[i].status = StatusOk <=> signedOn)
  <2>0. \/ i \in DOMAIN sent /\ sent'[i] = sent[i]
        \/ \E k \in DOMAIN bodies : sent'[i] = bodies[k]
    BY <1>5, <1>6, ConcatElement DEF Admissible
  <2>1. CASE i \in DOMAIN sent /\ sent'[i] = sent[i]
    <3>1. sent[i] \in Replies
      BY <1>5, <2>1, ElementOfSeq
    <3>2. sent[i].re - 1 \in 0 .. n
      BY <1>3, <3>1 DEF Replies
    <3> QED BY <1>4, <2>1, <3>2 DEF ServedOnlySignedOn
  <2>2. CASE \E k \in DOMAIN bodies : sent'[i] = bodies[k]
    <3>1. PICK k \in DOMAIN bodies : sent'[i] = bodies[k]
      BY <2>2
    <3>2. bodies[k] \in Answers
      BY <3>1, ElementOfSeq DEF Admissible
    <3>3. bodies[k].re - 1 = n /\ n \in 0 .. n
      BY <1>3, <3>2 DEF Answers
    <3> QED BY <1>4, <3>1, <3>3 DEF Admissible
  <2> QED BY <2>0, <2>1, <2>2
<1> QED BY <1>6 DEF ServedOnlySignedOn

-----------------------------------------------------------------------------

\* The inductive invariant: a response can only be shown to be justified from
\* the services in hand, so vipc has to agree with the history.
IInv == TypeOK /\ ServicesMatchHistory /\ ServedOnlySignedOn

LEMMA InitIInv == Init => IInv
PROOF
<1> SUFFICES ASSUME Init PROVE IInv
  OBVIOUS
<1>1. TypeOK
  <2>1. \A S : <<>> \in Seq(S)
    OBVIOUS
  <2> QED BY <2>1 DEF Init, TypeOK
<1>2. ServicesMatchHistory
  BY DEF Init, ServicesMatchHistory, SignedOnAfter
<1>3. ServedOnlySignedOn
  BY DEF Init, ServedOnlySignedOn
<1> QED BY <1>1, <1>2, <1>3 DEF IInv

\* A step that takes nothing and keeps the services, or ends the session.
LEMMA QuietStep ==
  ASSUME IInv, processed' = processed, sent' = sent,
         c2s' \in Seq(Frames), last_seq_number' \in SeqNumbers,
         recv_sequence' \in SeqNumbers,
         \/ alive' = alive /\ vipc' = vipc
         \/ alive' = FALSE /\ vipc' = FALSE
  PROVE  IInv'
PROOF
<1>1. TypeOK'
  <2>1. Replies' = Replies
    BY DEF Replies, RequestStatus
  <2> QED BY <2>1 DEF IInv, TypeOK
<1>2. ServicesMatchHistory'
  BY DEF IInv, ServicesMatchHistory, SignedOnAfter
<1>3. ServedOnlySignedOn'
  BY DEF IInv, ServedOnlySignedOn, SignedOnAfter
<1> QED BY <1>1, <1>2, <1>3 DEF IInv

\* A step that takes a request: the services it leaves must be the ones the
\* longer history calls for.
LEMMA TakeStep ==
  ASSUME IInv, NEW status \in RequestStatus, NEW bodies, Admissible(bodies),
         Take(status, bodies), alive' \in BOOLEAN, vipc' \in BOOLEAN,
         alive' => (vipc' <=> \/ Request = "SignOn" /\ status = StatusOk
                              \/ Request # "SignOff" /\ vipc)
  PROVE  IInv'
PROOF
<1> DEFINE frame == Head(c2s)
           entry == [body |-> frame.body, status |-> status]
<1>1. TypeOK' /\ ServedOnlySignedOn'
  BY TakeKeepsTypes, TakeKeepsServed DEF IInv
<1>2. alive /\ frame \in Frames /\ frame.type = "Data"
  BY DEF IInv, TypeOK, Take, Reading
<1>3. entry \in Taken
  BY <1>2 DEF Frames, ControlFrames, DataFrames, Taken
<1>4. processed' = Append(processed, entry) /\ processed \in Seq(Taken)
  BY DEF IInv, TypeOK, Take
<1>5. Len(processed') = Len(processed) + 1
  BY <1>3, <1>4
<1>6. vipc <=> SignedOnAfter(processed, Len(processed))
  BY <1>2 DEF IInv, ServicesMatchHistory
<1>7. SignedOnAfter(processed', Len(processed')) <=>
        \/ Request = "SignOn" /\ status = StatusOk
        \/ Request # "SignOff" /\ vipc
  BY <1>3, <1>4, <1>5, <1>6, SignedOnStep DEF Request
<1>8. ServicesMatchHistory'
  BY <1>7 DEF ServicesMatchHistory
<1> QED BY <1>1, <1>8 DEF IInv

\* Removing the frame just read leaves frames.
LEMMA TailKeepsFrames ==
  ASSUME TypeOK, c2s # <<>>
  PROVE  Tail(c2s) \in Seq(Frames)
BY DEF TypeOK

\* One response, or none, or any number of replies of a service.
LEMMA AdmissibleAnswers ==
  ASSUME IInv, alive
  PROVE  /\ Admissible(<<>>)
         /\ \A status \in RequestStatus : \A kind \in {"Disconnect", "SignOn"} :
              Admissible(<<Response(kind, status)>>)
         /\ \A status \in RequestStatus :
              (status = StatusOk <=> vipc) => Admissible(<<Response("Connect", status)>>)
         /\ \A n \in Nat :
              vipc => Admissible([i \in 1 .. n |-> Response("Msg", StatusOk)])
PROOF
<1>0. vipc <=> SignedOnAfter(processed, Len(processed))
  BY DEF IInv, ServicesMatchHistory
<1>1. \A S : <<>> \in Seq(S) /\ DOMAIN <<>> = {}
  OBVIOUS
<1>2. Admissible(<<>>)
  BY <1>1 DEF Admissible
<1>3. ASSUME NEW kind \in {"Connect", "Disconnect", "SignOn", "Msg"},
             NEW status \in RequestStatus
      PROVE  Response(kind, status) \in Answers
               /\ Response(kind, status).kind = kind
               /\ Response(kind, status).status = status
  BY <1>3 DEF Response, Answers
<1>4. ASSUME NEW kind \in {"Disconnect", "SignOn"}, NEW status \in RequestStatus
      PROVE  Admissible(<<Response(kind, status)>>)
  BY <1>3, <1>4 DEF Admissible
<1>5. ASSUME NEW status \in RequestStatus, status = StatusOk <=> vipc
      PROVE  Admissible(<<Response("Connect", status)>>)
  BY <1>0, <1>3, <1>5 DEF Admissible
<1>6. ASSUME NEW n \in Nat, vipc
      PROVE  Admissible([i \in 1 .. n |-> Response("Msg", StatusOk)])
  <2>1. StatusOk \in RequestStatus
    BY DEF RequestStatus
  <2>2. Response("Msg", StatusOk) \in Answers
          /\ Response("Msg", StatusOk).kind = "Msg"
    BY <1>3, <2>1
  <2>3. [i \in 1 .. n |-> Response("Msg", StatusOk)] \in Seq(Answers)
    BY <2>2
  <2> QED BY <1>0, <1>6, <2>2, <2>3 DEF Admissible
<1> QED BY <1>2, <1>4, <1>5, <1>6

LEMMA NextIInv == IInv /\ [Next]_vars => IInv'
PROOF
<1> SUFFICES ASSUME IInv, [Next]_vars PROVE IInv'
  OBVIOUS
<1> USE DEF Reading
<1>0. /\ TypeOK /\ c2s \in Seq(Frames) /\ last_seq_number \in SeqNumbers
      /\ recv_sequence \in SeqNumbers /\ alive \in BOOLEAN /\ vipc \in BOOLEAN
      /\ {StatusOk, StatusNotSignedOn, StatusRefused, StatusFailed} = RequestStatus
  BY DEF IInv, TypeOK, RequestStatus
<1>1. CASE Send
  <2>1. c2s' \in Seq(Frames)
    BY <1>1 DEF Send
  <2> QED BY <1>0, <1>1, <2>1, QuietStep DEF Send, sessionVars
<1>2. CASE ProcessRfc
  BY <1>0, <1>2, TailKeepsFrames, QuietStep DEF ProcessRfc
<1>3. CASE ProcessAck
  BY <1>0, <1>3, TailKeepsFrames, QuietStep DEF ProcessAck, sessionVars
<1>4. CASE ProcessDisc
  BY <1>0, <1>4, TailKeepsFrames, QuietStep DEF ProcessDisc, EndSession
<1>5. CASE ProcessPing
  BY <1>0, <1>5, TailKeepsFrames, QuietStep DEF ProcessPing, sessionVars
<1>6. CASE ProcessDuplicate
  BY <1>0, <1>6, TailKeepsFrames, QuietStep DEF ProcessDuplicate, sessionVars
<1>7. CASE ProcessOutOfSequence
  BY <1>0, <1>7, TailKeepsFrames, QuietStep DEF ProcessOutOfSequence, sessionVars
<1>8. CASE ReadFails
  BY <1>0, <1>8, TailKeepsFrames, QuietStep DEF ReadFails, EndSession
<1>9. CASE Connect
  <2>1. ConnectStatus \in RequestStatus /\ (ConnectStatus = StatusOk <=> vipc)
    BY <1>0 DEF ConnectStatus, StatusOk, StatusNotSignedOn
  <2>2. Admissible(<<Response("Connect", ConnectStatus)>>)
    BY <1>9, <2>1, AdmissibleAnswers DEF Connect
  <2> QED BY <1>0, <1>9, <2>1, <2>2, TakeStep DEF Connect
<1>10. CASE Disconnect
  <2>1. Admissible(<<Response("Disconnect", StatusOk)>>)
    BY <1>0, <1>10, AdmissibleAnswers DEF Disconnect
  <2> QED BY <1>0, <1>10, <2>1, TakeStep DEF Disconnect
<1>11. CASE SignOn
  <2>1. PICK status \in {StatusOk, StatusRefused} :
          /\ Take(status, <<Response("SignOn", status)>>)
          /\ vipc' = (vipc \/ status = StatusOk)
    BY <1>11 DEF SignOn, ServicesAfter
  <2>2. status \in RequestStatus
    BY <1>0, <2>1
  <2>3. Admissible(<<Response("SignOn", status)>>)
    BY <1>11, <2>2, AdmissibleAnswers DEF SignOn
  <2>4. vipc' \in BOOLEAN /\ alive' = alive /\ Request = "SignOn"
    BY <1>11, <2>1 DEF SignOn
  <2> QED BY <1>0, <2>1, <2>2, <2>3, <2>4, TakeStep
<1>12. CASE SignOff
  <2>1. Admissible(<<>>)
    BY <1>12, AdmissibleAnswers DEF SignOff
  <2> QED BY <1>0, <1>12, <2>1, TakeStep DEF SignOff
<1>13. CASE ProcessMsg
  <2>0. alive /\ Request = "Msg" /\ vipc' = vipc /\ alive' = alive
    BY <1>13 DEF ProcessMsg
  <2>1. CASE ~vipc /\ Take(StatusNotSignedOn, <<>>)
    BY <1>0, <2>0, <2>1, AdmissibleAnswers, TakeStep
  <2>2. ASSUME vipc, NEW n \in 0 .. MaxReplies,
               Take(StatusOk, [i \in 1 .. n |-> Response("Msg", StatusOk)])
        PROVE  IInv'
    <3>1. Admissible([i \in 1 .. n |-> Response("Msg", StatusOk)])
      BY <2>0, <2>2, MaxRepliesAssumption, AdmissibleAnswers
    <3> QED BY <1>0, <2>0, <2>2, <3>1, TakeStep
  <2> QED BY <1>13, <2>1, <2>2 DEF ProcessMsg
<1>14. CASE DispatchFails
  <2>0. alive /\ vipc' = FALSE /\ alive' = FALSE
    BY <1>14 DEF DispatchFails
  <2>1. CASE Take(StatusFailed, <<>>)
    BY <1>0, <2>0, <2>1, AdmissibleAnswers, TakeStep
  <2>2. ASSUME vipc, NEW n \in 0 .. MaxReplies,
               Take(StatusFailed, [i \in 1 .. n |-> Response("Msg", StatusOk)])
        PROVE  IInv'
    <3>1. Admissible([i \in 1 .. n |-> Response("Msg", StatusOk)])
      BY <2>0, <2>2, MaxRepliesAssumption, AdmissibleAnswers
    <3> QED BY <1>0, <2>0, <2>2, <3>1, TakeStep
  <2> QED BY <1>14, <2>1, <2>2 DEF DispatchFails
<1>15. CASE UNCHANGED vars
  BY <1>0, <1>15, QuietStep DEF vars, wire, sessionVars
<1> QED
  BY <1>1, <1>2, <1>3, <1>4, <1>5, <1>6, <1>7, <1>8, <1>9, <1>10, <1>11, <1>12,
     <1>13, <1>14, <1>15 DEF Next, ProcessFrame

\* Every variable of the session keeps its type, whatever the client sends.
THEOREM TypeCorrect == Spec => []TypeOK
PROOF
<1>1. IInv => TypeOK
  BY DEF IInv
<1> QED BY InitIInv, NextIInv, <1>1, PTL DEF Spec

\* Whatever frames the client sends, the worker holds services exactly when the
\* requests it has taken leave it signed on.
THEOREM Services == Spec => []ServicesMatchHistory
PROOF
<1>1. IInv => ServicesMatchHistory
  BY DEF IInv
<1> QED BY InitIInv, NextIInv, <1>1, PTL DEF Spec

\* Whatever frames the client sends, services answer and connects succeed
\* exactly between a successful sign-on and the next sign-off.
THEOREM Gate == Spec => []ServedOnlySignedOn
PROOF
<1>1. IInv => ServedOnlySignedOn
  BY DEF IInv
<1> QED BY InitIInv, NextIInv, <1>1, PTL DEF Spec

=============================================================================
