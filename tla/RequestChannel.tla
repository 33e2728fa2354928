--------------------------- MODULE RequestChannel ---------------------------
(***************************************************************************)
(* What the phone data link promises the two programs that talk over it:   *)
(* requests reach the server once each and in the order they were written, *)
(* one at a time, and a write completes with success only after its        *)
(* request has been taken.  A request is lost only with the whole call.    *)
(***************************************************************************)
EXTENDS Integers, Sequences

CONSTANT Bodies     \* what may be written

VARIABLES
  written,    \* requests written in this call, oldest first
  taken,      \* requests the server has taken, oldest first
  completed   \* number of writes that completed with success

channel == <<written, taken, completed>>

Init == written = <<>> /\ taken = <<>> /\ completed = 0

\* A new request is written once the one before it has completed.
Write ==
  /\ completed = Len(written)
  /\ \E body \in Bodies : written' = Append(written, body)
  /\ UNCHANGED <<taken, completed>>

Take ==
  /\ Len(taken) < Len(written)
  /\ taken' = Append(taken, written[Len(taken) + 1])
  /\ UNCHANGED <<written, completed>>

Complete ==
  /\ completed < Len(taken)
  /\ completed' = completed + 1
  /\ UNCHANGED <<written, taken>>

\* The call is over and a new one begins.
Redial == written' = <<>> /\ taken' = <<>> /\ completed' = 0

Next == Write \/ Take \/ Complete \/ Redial

Spec == Init /\ [][Next]_channel

=============================================================================
