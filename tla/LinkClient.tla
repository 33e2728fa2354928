----------------------------- MODULE LinkClient -----------------------------
(***************************************************************************)
(* The client's end of the phone data link: the GRiDLink state machine the *)
(* server talks to.                                                        *)
(*                                                                         *)
(* Source: src/GRiD Sources/GRiDLink/IsEmulator.PLM~Text~ and, for the     *)
(* calls of its users, PdlInterface.PLM~Text~.  Variables keep the names   *)
(* of the source.  A timer that is running may expire at any moment.  The  *)
(* link is started with an infinite activity timeout (0ffh), and a write   *)
(* tests the state and takes the write lock in one step.  This server      *)
(* never sends Ping or Disc frames, so their receive branches are absent.  *)
(***************************************************************************)
EXTENDS PdlFrame

CONSTANTS
  Requests,            \* what a user of the link may send
  MaxWrites,           \* bound on the writes of one call
  MaxWire,             \* bound: a timer expires only while c2s is shorter
  MaxPingRetries,      \* 16 in the code
  MaxRfcRetries,       \* 8 in the code
  MaxDataRetries,      \* 16 in the code
  MaxIdlePingRetries   \* 6 in the code

VARIABLES
  currentState, SendSequence, RecvSequence, AckSequence, ConnectionID,
  sendOutstanding,     \* also curTxBufDesc.ReadyForTx and the held DlcWriteLock
  pingOutstanding, nackReceived, pingOrDataReceived, OkToRcvRfc,
  pingRetries, rfcRetries, dataRetries, idlePingRetries,
  timerActive,
  RxBufferFree,        \* the one long receive buffer is free
  curTx,               \* curTxBufDesc: the data frame last handed to the link
  reasonForDlcDeath,
  written,             \* history: the request bodies written in this call
  completed,           \* history: how many of them completed with eOk
  delivered            \* history: the response bodies handed up in this call

flagVars    == <<pingOutstanding, nackReceived, pingOrDataReceived, OkToRcvRfc>>
seqVars     == <<SendSequence, RecvSequence, AckSequence, ConnectionID>>
retryVars   == <<pingRetries, rfcRetries, dataRetries, idlePingRetries>>
historyVars == <<written, completed, delivered>>
clientVars ==
  <<currentState, seqVars, sendOutstanding, flagVars, retryVars, timerActive,
    RxBufferFree, curTx, reasonForDlcDeath, historyVars>>

\* Faulty variant: the deadline is set but the timer is left as it was.
SetTimerInactive == timerActive' = timerActive

\* SetTimer: the deadline itself is not modelled, only that there is one.
SetTimer == timerActive' = TRUE

NoTx == [seq |-> 0, body |-> [id |-> 0, req |-> "None"]]

ClientInit ==
  /\ currentState = "Disconnected"
  /\ SendSequence = 0 /\ RecvSequence = 0 /\ AckSequence = 0 /\ ConnectionID = 0
  /\ sendOutstanding = FALSE
  /\ pingOutstanding = FALSE /\ nackReceived = FALSE
  /\ pingOrDataReceived = FALSE /\ OkToRcvRfc = FALSE
  /\ pingRetries = 0 /\ rfcRetries = 0 /\ dataRetries = 0 /\ idlePingRetries = 0
  /\ timerActive = FALSE
  /\ RxBufferFree = TRUE
  /\ curTx = NoTx
  /\ reasonForDlcDeath = "NotRunning"
  /\ written = <<>> /\ completed = 0 /\ delivered = <<>>

(***************************************************************************)
(* Calls of the link's users                                               *)
(***************************************************************************)

\* DlcStart with StartRfc: the caller supplies the wire of the new call.
StartRfc ==
  /\ currentState = "Disconnected"
  /\ currentState' = "Connecting"
  /\ rfcRetries' = 0
  /\ nackReceived' = FALSE /\ pingOrDataReceived' = FALSE
  /\ sendOutstanding' = FALSE /\ pingOutstanding' = FALSE
  /\ SetTimer
  /\ c2s' = <<Rfc(0, 0)>>
  /\ s2c' = <<>>
  /\ written' = <<>> /\ completed' = 0 /\ delivered' = <<>>
  /\ UNCHANGED <<seqVars, OkToRcvRfc, pingRetries, dataRetries, idlePingRetries,
                 RxBufferFree, curTx, reasonForDlcDeath>>

\* DlcWrite with StartDataFrame: one frame may be outstanding.
DlcWrite ==
  /\ currentState = "Connected"
  /\ ~sendOutstanding
  /\ Len(written) < MaxWrites
  /\ \E req \in Requests :
       LET body == [id |-> Len(written) + 1, req |-> req] IN
       /\ curTx' = [seq |-> SendSequence, body |-> body]
       /\ written' = Append(written, body)
       /\ c2s' = Append(c2s, Data(SendSequence, body))
  /\ SendSequence' = NextSeq(SendSequence)
  /\ sendOutstanding' = TRUE
  /\ dataRetries' = 0 /\ pingRetries' = 0
  /\ SetTimer
  /\ UNCHANGED <<currentState, RecvSequence, AckSequence, ConnectionID, flagVars,
                 rfcRetries, idlePingRetries, RxBufferFree, reasonForDlcDeath,
                 completed, delivered, s2c>>

\* DlcFreeReceiveBuffer: the user is done with the frame handed to it.
DlcFreeReceiveBuffer ==
  /\ ~RxBufferFree
  /\ RxBufferFree' = TRUE
  /\ UNCHANGED <<currentState, seqVars, sendOutstanding, flagVars, retryVars,
                 timerActive, curTx, reasonForDlcDeath, historyVars, wire>>

\* DisconnectDlc: says goodbye, drops the line and fails the pending write.
DisconnectDlc ==
  /\ currentState' = "Disconnected"
  /\ c2s' = Append(c2s, Disc(ConnectionID, SendSequence))
  /\ sendOutstanding' = FALSE
  /\ pingRetries' = IF sendOutstanding THEN 0 ELSE pingRetries
  /\ UNCHANGED <<seqVars, RxBufferFree, curTx, historyVars, s2c,
                 rfcRetries, idlePingRetries>>

DlcStop ==
  /\ currentState = "Connected"
  /\ DisconnectDlc
  /\ UNCHANGED <<flagVars, dataRetries, timerActive, reasonForDlcDeath>>

(***************************************************************************)
(* Receiving: CheckReceiveStatus hands complete frames to ProcessFrame.    *)
(***************************************************************************)
Listening == currentState \in {"Connecting", "Connected"}

Incoming == Listening /\ s2c # <<>>

\* StartDisconnect: IsMain completes it on its next round.
StartDisconnect(reason) ==
  /\ currentState' = "Disconnecting"
  /\ reasonForDlcDeath' = reason

\* While connecting only the server's RFC is legal; a damaged frame is reported.
RcvConnecting ==
  LET frame == Head(s2c) IN
  /\ Incoming
  /\ currentState = "Connecting"
  /\ s2c' = Tail(s2c)
  /\ \/ /\ frame.type = "Rfc"
        /\ SendSequence' = NextSeq(frame.seq)
        /\ RecvSequence' = frame.seq
        /\ AckSequence' = frame.seq
        /\ ConnectionID' = frame.conn
        /\ currentState' = "Connected"
        /\ OkToRcvRfc' = TRUE
        /\ SetTimer
        /\ UNCHANGED reasonForDlcDeath
     \/ /\ frame.type # "Rfc"
        /\ IF frame.type = "Damaged"
             THEN UNCHANGED <<currentState, reasonForDlcDeath>>
             ELSE StartDisconnect("ProtocolError")
        /\ UNCHANGED <<seqVars, OkToRcvRfc, timerActive>>
  /\ UNCHANGED <<sendOutstanding, pingOutstanding, nackReceived,
                 pingOrDataReceived, retryVars, RxBufferFree, curTx,
                 historyVars, c2s>>

\* The answer to a repeated RFC is tolerated until any other frame arrives.
RcvRfc ==
  /\ Incoming
  /\ currentState = "Connected"
  /\ Head(s2c).type = "Rfc"
  /\ s2c' = Tail(s2c)
  /\ IF OkToRcvRfc
       THEN UNCHANGED <<currentState, reasonForDlcDeath>>
       ELSE StartDisconnect("ProtocolError")
  /\ UNCHANGED <<seqVars, sendOutstanding, flagVars, retryVars, timerActive,
                 RxBufferFree, curTx, historyVars, c2s>>

RcvAck ==
  LET frame == Head(s2c)
      completes == sendOutstanding /\ frame.seq = NextSeq(AckSequence)
      repeats   == sendOutstanding /\ pingRetries > 0 /\ frame.seq = AckSequence
  IN
  /\ Incoming
  /\ currentState = "Connected"
  /\ frame.type = "Ack"
  /\ s2c' = Tail(s2c)
  /\ OkToRcvRfc' = FALSE
  /\ IF frame.conn # ConnectionID
       THEN StartDisconnect("ProtocolError")
       ELSE UNCHANGED <<currentState, reasonForDlcDeath>>
  /\ AckSequence' = IF completes THEN frame.seq ELSE AckSequence
  /\ sendOutstanding' = (sendOutstanding /\ ~completes)
  /\ pingRetries' = IF completes THEN 0 ELSE pingRetries
  /\ IF completes THEN SetTimer ELSE UNCHANGED timerActive
  /\ completed' = IF completes THEN completed + 1 ELSE completed
  /\ nackReceived' = (nackReceived \/ repeats)
  /\ pingOutstanding' = FALSE
  /\ idlePingRetries' = IF pingOutstanding THEN 0 ELSE idlePingRetries
  /\ UNCHANGED <<SendSequence, RecvSequence, ConnectionID, pingOrDataReceived,
                 rfcRetries, dataRetries, RxBufferFree, curTx, written,
                 delivered, c2s>>

\* A data frame with the long buffer free.  Anything but the next number is
\* dropped; a duplicate is not even acknowledged.
RcvData ==
  LET frame == Head(s2c)
      next == frame.seq = NextSeq(RecvSequence)
  IN
  /\ Incoming
  /\ currentState = "Connected"
  /\ frame.type = "Data"
  /\ RxBufferFree
  /\ s2c' = Tail(s2c)
  /\ OkToRcvRfc' = FALSE
  /\ RecvSequence' = IF next THEN frame.seq ELSE RecvSequence
  /\ RxBufferFree' = ~next
  /\ delivered' = IF next THEN Append(delivered, frame.body) ELSE delivered
  /\ pingOrDataReceived' = (pingOrDataReceived \/ frame.seq # RecvSequence)
  /\ UNCHANGED <<currentState, SendSequence, AckSequence, ConnectionID,
                 sendOutstanding, pingOutstanding, nackReceived, retryVars,
                 timerActive, curTx, reasonForDlcDeath, written, completed, c2s>>

\* A data frame overruns the short buffer (RcvChRtn, eBufferOverflow) and is
\* lost, with no acknowledgement (ProcessErrorInReceive).
RcvOverflow ==
  /\ Incoming
  /\ currentState = "Connected"
  /\ Head(s2c).type = "Data"
  /\ ~RxBufferFree
  /\ s2c' = Tail(s2c)
  /\ UNCHANGED <<clientVars, c2s>>

\* A damaged frame is answered with an acknowledgement of the last good one,
\* unless it was being read into the short buffer.
RcvDamaged ==
  /\ Incoming
  /\ currentState = "Connected"
  /\ Head(s2c).type = "Damaged"
  /\ s2c' = Tail(s2c)
  /\ pingOrDataReceived' = (pingOrDataReceived \/ RxBufferFree)
  /\ UNCHANGED <<currentState, seqVars, sendOutstanding, pingOutstanding,
                 nackReceived, OkToRcvRfc, retryVars, timerActive, RxBufferFree,
                 curTx, reasonForDlcDeath, historyVars, c2s>>

(***************************************************************************)
(* IsMain: the rest of a polling round.  ProcessFrame may run from an      *)
(* interrupt between any two of its tests, so each test is an action.      *)
(***************************************************************************)
FinishDisconnect ==
  /\ currentState = "Disconnecting"
  /\ DisconnectDlc
  /\ UNCHANGED <<flagVars, dataRetries, timerActive, reasonForDlcDeath>>

\* The modem reports that the line is gone.
LoseCarrier ==
  /\ Listening
  /\ StartDisconnect("LostPhysicalConn")
  /\ UNCHANGED <<seqVars, sendOutstanding, flagVars, retryVars, timerActive,
                 RxBufferFree, curTx, historyVars, wire>>

SendPendingAck ==
  /\ Listening
  /\ pingOrDataReceived
  /\ pingOrDataReceived' = FALSE
  /\ c2s' = Append(c2s, Ack(ConnectionID, RecvSequence))
  /\ UNCHANGED <<currentState, seqVars, sendOutstanding, pingOutstanding,
                 nackReceived, OkToRcvRfc, retryVars, timerActive, RxBufferFree,
                 curTx, reasonForDlcDeath, historyVars, s2c>>

\* The frame in the transmit buffer is sent again.  The flag may be stale: the
\* acknowledgement of that frame can arrive after it was raised.
RetryData ==
  /\ Listening
  /\ nackReceived
  /\ nackReceived' = FALSE
  /\ dataRetries' = dataRetries + 1
  /\ \/ /\ dataRetries < MaxDataRetries
        /\ c2s' = Append(c2s, Data(curTx.seq, curTx.body))
        /\ pingRetries' = 0
        /\ SetTimer
        /\ UNCHANGED <<currentState, seqVars, sendOutstanding, rfcRetries,
                       idlePingRetries, RxBufferFree, curTx, historyVars, s2c>>
     \/ /\ dataRetries >= MaxDataRetries
        /\ DisconnectDlc
        /\ UNCHANGED timerActive
  /\ UNCHANGED <<pingOutstanding, pingOrDataReceived, OkToRcvRfc,
                 reasonForDlcDeath>>

\* The timer runs out while the server's RFC is awaited.
RfcTimeout ==
  /\ timerActive
  /\ currentState = "Connecting"
  /\ Len(c2s) < MaxWire
  /\ rfcRetries' = rfcRetries + 1
  /\ \/ /\ rfcRetries < MaxRfcRetries
        /\ c2s' = Append(c2s, Rfc(0, 0))
        /\ SetTimer
        /\ UNCHANGED <<currentState, reasonForDlcDeath>>
     \/ /\ rfcRetries >= MaxRfcRetries
        /\ StartDisconnect("TooManyRetries")
        /\ timerActive' = FALSE
        /\ UNCHANGED c2s
  /\ UNCHANGED <<seqVars, sendOutstanding, flagVars, pingRetries, dataRetries,
                 idlePingRetries, RxBufferFree, curTx, historyVars, s2c>>

\* PingForAck: the timer runs out with a data frame outstanding.
PingForAck ==
  /\ timerActive
  /\ currentState = "Connected"
  /\ sendOutstanding
  /\ Len(c2s) < MaxWire
  /\ pingRetries' = pingRetries + 1
  /\ \/ /\ pingRetries + 1 < MaxPingRetries
        /\ c2s' = Append(c2s, Ping(ConnectionID, SendSequence))
        /\ SetTimer
        /\ UNCHANGED <<currentState, reasonForDlcDeath>>
     \/ /\ pingRetries + 1 >= MaxPingRetries
        /\ StartDisconnect("TooManyRetries")
        /\ timerActive' = FALSE
        /\ UNCHANGED c2s
  /\ UNCHANGED <<seqVars, sendOutstanding, flagVars, rfcRetries, dataRetries,
                 idlePingRetries, RxBufferFree, curTx, historyVars, s2c>>

\* The timer runs out on an idle link.
IdlePing ==
  LET retries == IF pingOutstanding THEN idlePingRetries + 1 ELSE 0 IN
  /\ timerActive
  /\ currentState = "Connected"
  /\ ~sendOutstanding
  /\ Len(c2s) < MaxWire
  /\ idlePingRetries' = retries
  /\ \/ /\ retries < MaxIdlePingRetries
        /\ pingOutstanding' = TRUE
        /\ c2s' = Append(c2s, Ping(ConnectionID, SendSequence))
        /\ SetTimer
        /\ UNCHANGED <<currentState, reasonForDlcDeath>>
     \/ /\ retries >= MaxIdlePingRetries
        /\ StartDisconnect("ServerNotResponding")
        /\ timerActive' = FALSE
        /\ UNCHANGED <<c2s, pingOutstanding>>
  /\ UNCHANGED <<seqVars, sendOutstanding, nackReceived, pingOrDataReceived,
                 OkToRcvRfc, pingRetries, rfcRetries, dataRetries, RxBufferFree,
                 curTx, historyVars, s2c>>

Receive ==
  \/ RcvConnecting \/ RcvRfc \/ RcvAck \/ RcvData \/ RcvOverflow \/ RcvDamaged

IsMain ==
  \/ FinishDisconnect \/ SendPendingAck \/ RetryData
  \/ RfcTimeout \/ PingForAck \/ IdlePing

=============================================================================
