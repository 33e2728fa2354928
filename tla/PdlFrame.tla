------------------------------ MODULE PdlFrame ------------------------------
(***************************************************************************)
(* The frames of the phone data link (PDL) and the two directions of the   *)
(* wire they travel on.                                                    *)
(*                                                                         *)
(* Source: src/Server/src/server/frame.rs (the frames the server builds)   *)
(* and src/GRiD Sources/GRiDLink/IsEmulator.PLM~Text~ (the ones the client *)
(* builds).  A frame keeps what the two state machines branch on: its      *)
(* type, its sequence number, the connection id of a control frame and the *)
(* body of a data frame.  Flags, window size and version are never tested. *)
(***************************************************************************)
EXTENDS Integers, Sequences

CONSTANT SeqMod     \* sequence numbers are bytes: 256 in the code

ASSUME SeqModAssumption == SeqMod \in Nat /\ SeqMod > 2

VARIABLES
  c2s,    \* frames on the wire from the client to the server, oldest first
  s2c     \* frames on the wire from the server to the client, oldest first

wire == <<c2s, s2c>>

SeqNumbers == 0 .. (SeqMod - 1)

\* Faulty variant: the number runs past the byte.
NextSeqUnwrapped(s) == s + 1

\* u8::wrapping_add(1) in the server, "(x + 1) MOD seqNumModulo" in the client.
NextSeq(s) == (s + 1) % SeqMod

Rfc(conn, seq)  == [type |-> "Rfc",  seq |-> seq, conn |-> conn]
Ack(conn, seq)  == [type |-> "Ack",  seq |-> seq, conn |-> conn]
Disc(conn, seq) == [type |-> "Disc", seq |-> seq, conn |-> conn]
Ping(conn, seq) == [type |-> "Ping", seq |-> seq, conn |-> conn]
Data(seq, body) == [type |-> "Data", seq |-> seq, body |-> body]

=============================================================================
