------------------------------ MODULE AnyClient -----------------------------
(***************************************************************************)
(* A server session against a client of which nothing is assumed: it may   *)
(* send any frame at any time, repeat or skip sequence numbers, and ask    *)
(* for a new connection in the middle of a call.                           *)
(***************************************************************************)
EXTENDS Session

CONSTANTS
  Requests,       \* the data frames a client may send
  ConnectionIds,  \* the ids a worker may hold
  MaxTaken        \* bound on the requests taken in the session

ASSUME MaxTakenAssumption == MaxTaken \in Nat

vars == <<wire, sessionVars>>

RequestBodies == [req : Requests]

ControlFrames == [type : {"Rfc", "Ack", "Disc", "Ping"}, seq : SeqNumbers]

DataFrames == [type : {"Data"}, seq : SeqNumbers, body : RequestBodies]

Frames == ControlFrames \cup DataFrames \cup {[type |-> "Damaged"]}

Init ==
  /\ c2s = <<>> /\ s2c = <<>>
  /\ alive = TRUE
  /\ connection_id \in ConnectionIds
  /\ last_seq_number \in SeqNumbers
  /\ recv_sequence = last_seq_number
  /\ vipc = FALSE
  /\ processed = <<>> /\ sent = <<>>

\* The client reads all there is to read and sends a frame of its choice.
Send ==
  /\ c2s = <<>>
  /\ Len(processed) < MaxTaken
  /\ \E frame \in Frames : c2s' = <<frame>>
  /\ s2c' = <<>>
  /\ UNCHANGED sessionVars

Next == Send \/ ProcessFrame

Spec == Init /\ [][Next]_vars

-----------------------------------------------------------------------------

RequestStatus == {StatusOk, StatusNotSignedOn, StatusRefused, StatusFailed}

Taken == [body : RequestBodies, status : RequestStatus]

Replies ==
  [re : 1 .. Len(processed), kind : {"Connect", "Disconnect", "SignOn", "Msg"},
   status : RequestStatus]

\* Every variable of the session has its type, and every response belongs to a
\* request that was taken.
TypeOK ==
  /\ c2s \in Seq(Frames)
  /\ alive \in BOOLEAN /\ vipc \in BOOLEAN
  /\ last_seq_number \in SeqNumbers /\ recv_sequence \in SeqNumbers
  /\ processed \in Seq(Taken)
  /\ sent \in Seq(Replies)

\* While the worker runs, it holds services exactly when the requests it has
\* taken leave it signed on (server/mod.rs:360-364, 388).
ServicesMatchHistory ==
  alive => (vipc <=> SignedOnAfter(processed, Len(processed)))

=============================================================================
