--------------------------- MODULE ConnectionPool ---------------------------
(***************************************************************************)
(* The accept loop, the workers it spawns and the pool of connection ids   *)
(* they share.                                                             *)
(*                                                                         *)
(* Source: src/Server/src/server/mod.rs (ConnectionId, serve, worker).     *)
(* The pool is only touched under its mutex, so an acquisition and the     *)
(* drop of an id are one step each; threads interleave between them.  A    *)
(* thread::spawn that fails panics on the main thread and ends the         *)
(* process, and the pool with it.                                          *)
(***************************************************************************)
EXTENDS IdMap

CONSTANT Clients    \* TCP clients that come and go

VARIABLES
  pool,       \* connection_ids: the shared IdMap8
  phase,      \* what each client has come to
  holding     \* the id owned on behalf of each client, or NoId

vars == <<pool, phase, holding>>

Init ==
  /\ pool = Empty
  /\ phase = [c \in Clients |-> "away"]
  /\ holding = [c \in Clients |-> NoId]

\* Faulty variant: the id is not marked as taken.
TakeIdUnmarked(id) == pool' = pool

\* ConnectionId::acquire once an id is found.
TakeId(id) == pool' = Set(pool, id)

\* Faulty variant: the id is not handed back.
DropIdKept(c) == UNCHANGED pool /\ holding' = [holding EXCEPT ![c] = NoId]

\* ConnectionId::drop
DropId(c) ==
  /\ pool' = Clear(pool, holding[c])
  /\ holding' = [holding EXCEPT ![c] = NoId]

\* listener.accept, with an id for the client.
Accept(c) ==
  /\ phase[c] = "away"
  /\ FindFree(pool) # NoId
  /\ TakeId(FindFree(pool))
  /\ holding' = [holding EXCEPT ![c] = FindFree(pool)]
  /\ phase' = [phase EXCEPT ![c] = "accepted"]

\* No id is free: the client is dropped and the loop goes on.
Refuse(c) ==
  /\ phase[c] = "away"
  /\ FindFree(pool) = NoId
  /\ phase' = [phase EXCEPT ![c] = "refused"]
  /\ UNCHANGED <<pool, holding>>

Spawn(c) ==
  /\ phase[c] = "accepted"
  /\ phase' = [phase EXCEPT ![c] = "serving"]
  /\ UNCHANGED <<pool, holding>>

\* The session ends: it returns, or it panics and worker catches the unwinding.
\* Either way its ConnectionId is dropped.
WorkerEnds(c) ==
  /\ phase[c] = "serving"
  /\ phase' = [phase EXCEPT ![c] = "gone"]
  /\ DropId(c)

\* The client's socket is closed; it may call again.
Leave(c) ==
  /\ phase[c] \in {"gone", "refused"}
  /\ phase' = [phase EXCEPT ![c] = "away"]
  /\ UNCHANGED <<pool, holding>>

\* The loop is sequential: it spawns the client it accepted before the next.
Settled == \A c \in Clients : phase[c] # "accepted"

Next ==
  \E c \in Clients :
    \/ Settled /\ (Accept(c) \/ Refuse(c))
    \/ Spawn(c) \/ WorkerEnds(c) \/ Leave(c)

Spec == Init /\ [][Next]_vars

-----------------------------------------------------------------------------

\* Every variable has its type.
TypeOK ==
  /\ pool \subseteq 0 .. SIZE
  /\ phase \in [Clients -> {"away", "accepted", "serving", "gone", "refused"}]
  /\ holding \in [Clients -> Ids \cup {NoId}]

\* A client holds an id from its acceptance to the end of its worker.
Attached == {c \in Clients : phase[c] \in {"accepted", "serving"}}

\* "A connection id only has to be unique among the clients currently attached"
\* (server/mod.rs:38): no two of them ever share one, whatever ends and panics
\* came before.
IdsUnique ==
  /\ \A c \in Attached : holding[c] \in Ids
  /\ \A c, d \in Attached : holding[c] = holding[d] => c = d

\* No id leaks and none is handed back while in use: the pool's bits are the
\* ids held, also after a worker that panicked (server/mod.rs:121-126).
PoolIsHeldIds == pool = {holding[c] - 1 : c \in Attached}

\* A client is turned away only when every id is attached to another one.
RefusedOnlyWhenFull ==
  [][\A c \in Clients :
       phase'[c] = "refused" /\ phase[c] # "refused" =>
         {holding[d] : d \in Attached} = Ids]_vars

=============================================================================
