------------------------------ MODULE Session -------------------------------
(***************************************************************************)
(* One client session of the server: the worker thread that reads frames   *)
(* off its TCP connection and answers them.                                *)
(*                                                                         *)
(* Source: src/Server/src/server/mod.rs (try_worker and impl Session).     *)
(* Every action reads one frame and does all that process_frame_ does with *)
(* it, replies included.  What a VIPC service answers to a message is left *)
(* open here: any number of replies up to MaxReplies, or an error.         *)
(***************************************************************************)
EXTENDS PdlFrame

CONSTANT MaxReplies \* bound on the messages one request is answered with

ASSUME MaxRepliesAssumption == MaxReplies \in Nat

VARIABLES
  alive,            \* the worker is in its read loop
  connection_id,    \* Session.connection_id
  last_seq_number,  \* Session.last_seq_number: number of the last response
  recv_sequence,    \* Session.recv_sequence: number of the last request taken
  vipc,             \* Session.vipc.is_some()
  processed,        \* history: the requests taken, each with its status
  sent              \* history: the response bodies written, oldest first

sessionVars ==
  <<alive, connection_id, last_seq_number, recv_sequence, vipc, processed, sent>>

StatusOk == "OK"
StatusNotSignedOn == "NotSignedOn"     \* STATUS_NOT_SIGNED_ON
StatusRefused == "Refused"             \* any status authenticate answers
StatusFailed == "Failed"               \* no status: the session ends instead

\* A fresh worker: both counters start from the number it drew (try_worker).
StartSession(id, initial) ==
  /\ alive' = TRUE
  /\ connection_id' = id
  /\ last_seq_number' = initial
  /\ recv_sequence' = initial
  /\ vipc' = FALSE
  /\ processed' = <<>>
  /\ sent' = <<>>

\* The worker returns: the socket is closed with whatever it had written.
EndSession ==
  /\ alive' = FALSE
  /\ vipc' = FALSE
  /\ UNCHANGED <<connection_id, last_seq_number, recv_sequence, processed, sent>>

Reading(type) == alive /\ c2s # <<>> /\ Head(c2s).type = type

\* Faulty variant: the counter is stepped without wrapping.
UnwrappedAfter(n) == last_seq_number + n

\* last_seq_number after n more responses.
NumberAfter(n) == (last_seq_number + n) % SeqMod

\* Faulty variant: the counter is stepped after the frame is written.
ResponsesStale(bodies) == [i \in DOMAIN bodies |-> Data(NumberAfter(i - 1), bodies[i])]

\* write_response for each body in turn: the counter is stepped first.
Responses(bodies) == [i \in DOMAIN bodies |-> Data(NumberAfter(i), bodies[i])]

(***************************************************************************)
(* process_frame_                                                          *)
(***************************************************************************)

\* Faulty variant: the RFC is acknowledged as well as answered.
RfcAnswerAcked ==
  <<Rfc(connection_id, last_seq_number), Ack(connection_id, last_seq_number)>>

\* Both directions are announced to continue from the last response.
RfcAnswer == <<Rfc(connection_id, last_seq_number)>>

ProcessRfc ==
  /\ Reading("Rfc")
  /\ c2s' = Tail(c2s)
  /\ recv_sequence' = last_seq_number
  /\ s2c' = s2c \o RfcAnswer
  /\ UNCHANGED <<alive, connection_id, last_seq_number, vipc, processed, sent>>

\* An acknowledgement is only traced: the server keeps no frame to resend.
ProcessAck ==
  /\ Reading("Ack")
  /\ c2s' = Tail(c2s)
  /\ UNCHANGED <<sessionVars, s2c>>

ProcessDisc ==
  /\ Reading("Disc")
  /\ c2s' = Tail(c2s)
  /\ EndSession
  /\ UNCHANGED s2c

ProcessPing ==
  /\ Reading("Ping")
  /\ c2s' = Tail(c2s)
  /\ s2c' = Append(s2c, Ack(connection_id, recv_sequence))
  /\ UNCHANGED sessionVars

\* A duplicate is dropped without an answer.
ProcessDuplicate ==
  /\ Reading("Data")
  /\ Head(c2s).seq = recv_sequence
  /\ c2s' = Tail(c2s)
  /\ UNCHANGED <<sessionVars, s2c>>

\* A frame out of sequence is dropped and the last number taken is repeated.
ProcessOutOfSequence ==
  /\ Reading("Data")
  /\ Head(c2s).seq \notin {recv_sequence, NextSeq(recv_sequence)}
  /\ c2s' = Tail(c2s)
  /\ s2c' = Append(s2c, Ack(connection_id, recv_sequence))
  /\ UNCHANGED sessionVars

(***************************************************************************)
(* The next data frame in sequence: it is acknowledged, then dispatched by *)
(* process_data_frame.  Take is what every dispatch has in common: the     *)
(* acknowledgement goes out ahead of the responses.                        *)
(***************************************************************************)

\* Faulty variant: the number of a data frame is not looked at.
AnySequence(frame) == TRUE

InSequence(frame) == frame.seq = NextSeq(recv_sequence)

Take(status, bodies) ==
  LET frame == Head(c2s) IN
  /\ Reading("Data")
  /\ InSequence(frame)
  /\ c2s' = Tail(c2s)
  /\ recv_sequence' = frame.seq
  /\ processed' = Append(processed, [body |-> frame.body, status |-> status])
  /\ last_seq_number' = NumberAfter(Len(bodies))
  /\ sent' = sent \o bodies
  /\ s2c' = s2c \o <<Ack(connection_id, frame.seq)>> \o Responses(bodies)

Request == Head(c2s).body.req

\* A response remembers which of the requests taken it answers.
Response(kind, status) == [re |-> Len(processed) + 1, kind |-> kind, status |-> status]

\* Faulty variant: a connect is granted to anyone.
ConnectStatusOpen == StatusOk

ConnectStatus == IF vipc THEN StatusOk ELSE StatusNotSignedOn

Connect ==
  /\ Reading("Data") /\ Request = "Connect"
  /\ Take(ConnectStatus, <<Response("Connect", ConnectStatus)>>)
  /\ UNCHANGED <<alive, connection_id, vipc>>

Disconnect ==
  /\ Reading("Data") /\ Request = "Disconnect"
  /\ Take(StatusOk, <<Response("Disconnect", StatusOk)>>)
  /\ UNCHANGED <<alive, connection_id, vipc>>

\* Faulty variant: a refused sign-on drops the services of an earlier one.
ServicesReset(status) == status = StatusOk

\* A refused sign-on leaves the services of an earlier one in place.
ServicesAfter(status) == vipc \/ status = StatusOk

SignOn ==
  /\ Reading("Data") /\ Request = "SignOn"
  /\ \E status \in {StatusOk, StatusRefused} :
       /\ Take(status, <<Response("SignOn", status)>>)
       /\ vipc' = ServicesAfter(status)
  /\ UNCHANGED <<alive, connection_id>>

SignOff ==
  /\ Reading("Data") /\ Request = "SignOff"
  /\ Take(StatusOk, <<>>)
  /\ vipc' = FALSE
  /\ UNCHANGED <<alive, connection_id>>

\* process_msg: without services the message is dropped in silence.
ProcessMsg ==
  /\ Reading("Data") /\ Request = "Msg"
  /\ \/ /\ ~vipc
        /\ Take(StatusNotSignedOn, <<>>)
     \/ /\ vipc
        /\ \E n \in 0 .. MaxReplies :
             Take(StatusOk, [i \in 1 .. n |-> Response("Msg", StatusOk)])
  /\ UNCHANGED <<alive, connection_id, vipc>>

\* An error of the dispatch (a body that is no request, a service that fails,
\* sign-on that cannot prepare the user's directory, a reply too long to encode)
\* ends the session after the acknowledgement, and the replies ahead of the
\* failing one, are out.
DispatchFails ==
  /\ Reading("Data")
  /\ \/ /\ Request \in {"SignOn", "Malformed"}
        /\ Take(StatusFailed, <<>>)
     \/ /\ Request = "Msg"
        /\ vipc
        /\ \E n \in 0 .. MaxReplies :
             Take(StatusFailed, [i \in 1 .. n |-> Response("Msg", StatusOk)])
  /\ alive' = FALSE
  /\ vipc' = FALSE
  /\ UNCHANGED connection_id

\* RawFrame::read_from_io fails on a damaged frame: the session ends.
ReadFails ==
  /\ Reading("Damaged")
  /\ c2s' = Tail(c2s)
  /\ EndSession
  /\ UNCHANGED s2c

ProcessFrame ==
  \/ ProcessRfc \/ ProcessAck \/ ProcessDisc \/ ProcessPing
  \/ ProcessDuplicate \/ ProcessOutOfSequence
  \/ Connect \/ Disconnect \/ SignOn \/ SignOff \/ ProcessMsg
  \/ DispatchFails \/ ReadFails

-----------------------------------------------------------------------------

\* The first n of the requests taken leave the session signed on.
SignedOnAfter(taken, n) ==
  \E j \in 1 .. n :
    /\ taken[j].body.req = "SignOn" /\ taken[j].status = StatusOk
    /\ \A k \in (j + 1) .. n : taken[k].body.req # "SignOff"

\* A service answers, and a connect succeeds, exactly for requests that follow
\* a successful sign-on with no sign-off since, whatever the client repeats,
\* reorders or restarts in between (server/mod.rs:193-196, 308-313, 394-400).
ServedOnlySignedOn ==
  \A i \in DOMAIN sent :
    LET signedOn == SignedOnAfter(processed, sent[i].re - 1) IN
    /\ sent[i].kind = "Msg" => signedOn
    /\ sent[i].kind = "Connect" => (sent[i].status = StatusOk <=> signedOn)

=============================================================================
