-------------------------------- MODULE Link --------------------------------
(***************************************************************************)
(* A call: the GRiDLink client and a server session joined by a telephone  *)
(* line whose serial stretch may lose or damage frames.                    *)
(***************************************************************************)
EXTENDS Session, LinkClient, FiniteSets

CONSTANTS
  InitialNumbers, \* the numbers next_initial_seq_number may draw
  MaxLoss,        \* bound on the frames lost or damaged
  MaxCalls        \* bound on the calls made

ASSUME InitialNumbersAssumption == InitialNumbers \subseteq SeqNumbers

VARIABLES
  calls,          \* calls made so far; the id of the n-th call's worker is n
  lost            \* frames lost or damaged so far

vars == <<wire, sessionVars, clientVars, calls, lost>>

Init ==
  /\ ClientInit
  /\ c2s = <<>> /\ s2c = <<>>
  /\ alive = FALSE /\ vipc = FALSE
  /\ connection_id = 0 /\ last_seq_number = 0 /\ recv_sequence = 0
  /\ processed = <<>> /\ sent = <<>>
  /\ calls = 0 /\ lost = 0

\* A call is answered by a new worker, which draws its initial number.  Over
\* the life of the server the generator passes through every byte.
Dial ==
  /\ calls < MaxCalls
  /\ ~alive
  /\ StartRfc
  /\ \E initial \in InitialNumbers : StartSession(calls + 1, initial)
  /\ calls' = calls + 1
  /\ UNCHANGED lost

\* The client has hung up and everything it sent has been read: end of file.
ReadEof ==
  /\ alive
  /\ currentState = "Disconnected"
  /\ c2s = <<>>
  /\ EndSession
  /\ UNCHANGED <<wire, clientVars, calls, lost>>

\* The worker has closed the connection; the client's modem loses the carrier.
HangUp ==
  /\ ~alive
  /\ LoseCarrier
  /\ UNCHANGED <<sessionVars, calls, lost>>

Damaged == [type |-> "Damaged"]

\* A frame is lost without a trace, or damaged, on its way.
Lose ==
  /\ lost < MaxLoss
  /\ lost' = lost + 1
  /\ \/ \E i \in DOMAIN c2s :
          /\ c2s' = SubSeq(c2s, 1, i - 1) \o SubSeq(c2s, i + 1, Len(c2s))
          /\ UNCHANGED s2c
     \/ \E i \in DOMAIN s2c :
          /\ s2c' = SubSeq(s2c, 1, i - 1) \o SubSeq(s2c, i + 1, Len(s2c))
          /\ UNCHANGED c2s
  /\ UNCHANGED <<sessionVars, clientVars, calls>>

Damage ==
  /\ lost < MaxLoss
  /\ lost' = lost + 1
  /\ \/ \E i \in DOMAIN c2s :
          c2s' = [c2s EXCEPT ![i] = Damaged] /\ UNCHANGED s2c
     \/ \E i \in DOMAIN s2c :
          s2c' = [s2c EXCEPT ![i] = Damaged] /\ UNCHANGED c2s
  /\ UNCHANGED <<sessionVars, clientVars, calls>>

Server == ProcessFrame /\ UNCHANGED <<clientVars, calls, lost>>

ClientLink == (Receive \/ IsMain) /\ UNCHANGED <<sessionVars, calls, lost>>

User ==
  /\ DlcWrite \/ DlcFreeReceiveBuffer \/ DlcStop
  /\ UNCHANGED <<sessionVars, calls, lost>>

Next == Dial \/ ReadEof \/ HangUp \/ Lose \/ Damage \/ Server \/ ClientLink \/ User

\* The worker and the client's polling process keep running, and whoever was
\* handed a response lets go of the buffer in the end.  Users are free to write
\* and to hang up; nothing obliges the line to lose frames.
Fairness ==
  /\ WF_vars(Server) /\ WF_vars(ReadEof) /\ WF_vars(HangUp)
  /\ WF_vars(Receive /\ UNCHANGED <<sessionVars, calls, lost>>)
  /\ WF_vars(FinishDisconnect /\ UNCHANGED <<sessionVars, calls, lost>>)
  /\ WF_vars(SendPendingAck /\ UNCHANGED <<sessionVars, calls, lost>>)
  /\ WF_vars(RetryData /\ UNCHANGED <<sessionVars, calls, lost>>)
  /\ WF_vars((RfcTimeout \/ PingForAck \/ IdlePing) /\ UNCHANGED <<sessionVars, calls, lost>>)
  /\ WF_vars(DlcFreeReceiveBuffer /\ UNCHANGED <<sessionVars, calls, lost>>)

Spec == Init /\ [][Next]_vars

FairSpec == Spec /\ Fairness

-----------------------------------------------------------------------------

RequestBodies == [id : 1 .. MaxWrites, req : Requests]

\* The frames either side can have put on the wire.
ClientFrames ==
  [type : {"Rfc", "Ack", "Disc", "Ping"}, seq : SeqNumbers, conn : 0 .. MaxCalls]
    \cup [type : {"Data"}, seq : SeqNumbers, body : RequestBodies] \cup {Damaged}

\* Every variable of the call, and every frame on the wire, has its type.
TypeOK ==
  /\ c2s \in Seq(ClientFrames)
  /\ alive \in BOOLEAN /\ vipc \in BOOLEAN
  /\ {last_seq_number, recv_sequence} \subseteq SeqNumbers
  /\ {SendSequence, RecvSequence, AckSequence} \subseteq SeqNumbers
  /\ currentState \in {"Disconnected", "Connecting", "Connected", "Disconnecting"}
  /\ pingRetries \in 0 .. MaxPingRetries
  /\ rfcRetries \in 0 .. MaxRfcRetries + 1
  /\ dataRetries \in 0 .. MaxDataRetries + 1
  /\ idlePingRetries \in 0 .. MaxIdlePingRetries
  /\ written \in Seq(RequestBodies)
  /\ calls \in 0 .. MaxCalls
  /\ lost \in 0 .. MaxLoss

\* process_frame_ and the client's retransmission together deliver requests as
\* a channel that neither loses, repeats nor reorders them: whatever the line
\* loses, the server takes each request at most once and in order, and a write
\* the client reports as done was taken (server/mod.rs:249-272).
Channel ==
  INSTANCE RequestChannel WITH
    Bodies <- RequestBodies,
    taken  <- [i \in DOMAIN processed |-> processed[i].body]

RequestsExactlyOnce == Channel!Spec

\* Responses are handed to the client's users in the order the server wrote
\* them with none skipped, even when frames between them are lost
\* (write_response steps the number once per frame, server/mod.rs:425-434).
ResponsesInOrder ==
  /\ Len(delivered) <= Len(sent)
  /\ delivered = SubSeq(sent, 1, Len(delivered))

\* The server never drives its client into a protocol error: no frame arrives
\* that the state the client is in does not allow, the answers to repeated RFCs
\* included (server/mod.rs:228-237).
NoProtocolError == reasonForDlcDeath # "ProtocolError"

\* A write always ends: it completes, or the call does.  Neither side waits for
\* the other forever, whatever the line loses.
WriteEnds == sendOutstanding ~> ~sendOutstanding

\* Every response the server writes reaches the client, unless the call ends.
ResponsesArrive ==
  \A n \in 1 .. MaxWrites * (MaxReplies + 1) :
    (Len(sent) >= n /\ currentState = "Connected")
      ~> (Len(delivered) >= n \/ currentState # "Connected")

=============================================================================
