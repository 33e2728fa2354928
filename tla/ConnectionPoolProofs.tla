------------------------ MODULE ConnectionPoolProofs ------------------------
(***************************************************************************)
(* Connection ids are unique among the attached clients and none leaks,    *)
(* for any number of clients and any size of the pool.                     *)
(***************************************************************************)
EXTENDS ConnectionPool, IdMapProofs

\* Neither property is inductive without the other: a new id is unique because
\* the pool holds the others, and dropping one leaves the others in the pool
\* because they differ from it.
Inv ==
  /\ TypeOK
  /\ IdsUnique
  /\ PoolIsHeldIds

LEMMA InitInv == Init => Inv
BY SizeIsNatural DEF Init, Inv, TypeOK, IdsUnique, PoolIsHeldIds, Attached, Empty, NoId

LEMMA AcceptInv ==
  ASSUME Inv, NEW c \in Clients, Accept(c)
  PROVE  Inv'
<1> DEFINE id == FindFree(pool)
<1>1. id \in Ids /\ id - 1 \notin pool
  BY FindFreeIsFree DEF Accept
<1>2. Attached' = Attached \cup {c} /\ c \notin Attached
  BY DEF Inv, TypeOK, Accept, Attached
<1>3. /\ holding'[c] = id
      /\ \A d \in Clients : d # c => holding'[d] = holding[d]
      /\ pool' = pool \cup {id - 1}
  BY DEF Inv, TypeOK, Accept, TakeId, Set
<1> HIDE DEF id
<1>4. TypeOK'
  <2>1. pool' \subseteq 0 .. SIZE
    BY <1>1, <1>3, SizeIsNatural DEF Inv, TypeOK, Ids
  <2>2. phase' \in [Clients -> {"away", "accepted", "serving", "gone", "refused"}]
    BY DEF Inv, TypeOK, Accept
  <2>3. holding' \in [Clients -> Ids \cup {NoId}]
    BY <1>1 DEF Inv, TypeOK, Accept, id
  <2> QED
    BY <2>1, <2>2, <2>3 DEF TypeOK
<1>5. \A d \in Attached : holding[d] \in Ids /\ holding[d] # id
  BY <1>1 DEF Inv, IdsUnique, PoolIsHeldIds
<1>6. IdsUnique'
  BY <1>1, <1>2, <1>3, <1>5 DEF Inv, IdsUnique, Attached
<1>7. PoolIsHeldIds'
  BY <1>2, <1>3 DEF Inv, PoolIsHeldIds, Attached
<1> QED
  BY <1>4, <1>6, <1>7 DEF Inv

LEMMA WorkerEndsInv ==
  ASSUME Inv, NEW c \in Clients, WorkerEnds(c)
  PROVE  Inv'
<1>1. Attached' = Attached \ {c} /\ c \in Attached
  BY DEF Inv, TypeOK, WorkerEnds, Attached
<1>2. /\ \A d \in Clients : d # c => holding'[d] = holding[d]
      /\ pool' = pool \ {holding[c] - 1}
  BY DEF Inv, TypeOK, WorkerEnds, DropId, Clear
<1>3. TypeOK'
  BY DEF Inv, TypeOK, WorkerEnds, DropId, Clear
<1>4. IdsUnique'
  BY <1>1, <1>2 DEF Inv, IdsUnique, Attached
<1>5. \A d \in Attached : d # c => holding[d] - 1 # holding[c] - 1
  BY <1>1 DEF Inv, IdsUnique, Ids
<1>6. PoolIsHeldIds'
  BY <1>1, <1>2, <1>5 DEF Inv, PoolIsHeldIds, Attached
<1> QED
  BY <1>3, <1>4, <1>6 DEF Inv

\* Spawning, refusing and leaving move no id.
LEMMA OtherStepsInv ==
  ASSUME Inv, NEW c \in Clients, Refuse(c) \/ Spawn(c) \/ Leave(c)
  PROVE  Inv'
<1>1. pool' = pool /\ holding' = holding
  BY DEF Refuse, Spawn, Leave
<1>2. phase' \in [Clients -> {"away", "accepted", "serving", "gone", "refused"}]
  BY DEF Inv, TypeOK, Refuse, Spawn, Leave
<1>3. Attached' = Attached
  BY DEF Inv, TypeOK, Refuse, Spawn, Leave, Attached
<1> QED
  BY <1>1, <1>2, <1>3 DEF Inv, TypeOK, IdsUnique, PoolIsHeldIds

LEMMA NextInv == Inv /\ [Next]_vars => Inv'
<1> SUFFICES ASSUME Inv, [Next]_vars
             PROVE  Inv'
  OBVIOUS
<1>1. CASE Next
  BY <1>1, AcceptInv, WorkerEndsInv, OtherStepsInv DEF Next
<1>2. CASE UNCHANGED vars
  BY <1>2 DEF vars, Inv, TypeOK, IdsUnique, PoolIsHeldIds, Attached
<1> QED
  BY <1>1, <1>2

LEMMA InvHolds == Spec => []Inv
BY InitInv, NextInv, PTL DEF Spec

\* No two attached clients ever share a connection id (server/mod.rs:38-55).
THEOREM Unique == Spec => []IdsUnique
<1>1. Inv => IdsUnique
  BY DEF Inv
<1> QED
  BY <1>1, InvHolds, PTL

\* The pool's bits are exactly the ids of the attached clients, so an id comes
\* back however its session ended (server/mod.rs:62-66, 121-126).
THEOREM NoLeak == Spec => []PoolIsHeldIds
<1>1. Inv => PoolIsHeldIds
  BY DEF Inv
<1> QED
  BY <1>1, InvHolds, PTL

\* A client is turned away only while every id is attached to another one
\* (server/mod.rs:44-55, 97-100), for any size of the pool.
THEOREM OnlyFullRefuses == Spec => RefusedOnlyWhenFull
<1> DEFINE Refused(c) == phase'[c] = "refused" /\ phase[c] # "refused"
           Step == \A c \in Clients : Refused(c) => {holding[d] : d \in Attached} = Ids
<1>1. ASSUME Inv, [Next]_vars
      PROVE  [Step]_vars
  <2> SUFFICES ASSUME Next, NEW c \in Clients, Refused(c)
               PROVE  {holding[d] : d \in Attached} = Ids
    BY <1>1
  <2>1. FindFree(pool) = NoId
    BY <1>1 DEF Next, Inv, TypeOK, Accept, Refuse, Spawn, WorkerEnds, Leave
  <2>2. ASSUME NEW id \in Ids
        PROVE  \E d \in Attached : holding[d] = id
    <3>1. id - 1 \in pool
      BY <2>1, NoneOnlyWhenFull
    <3>2. PICK d \in Attached : holding[d] - 1 = id - 1
      BY <1>1, <3>1 DEF Inv, PoolIsHeldIds
    <3>3. holding[d] \in Ids
      BY <1>1 DEF Inv, IdsUnique
    <3>4. id \in Int /\ holding[d] \in Int
      BY <3>3, SizeIsNatural DEF Ids
    <3> QED
      BY <3>2, <3>4
  <2>3. \A d \in Attached : holding[d] \in Ids
    BY <1>1 DEF Inv, IdsUnique
  <2> QED
    BY <2>2, <2>3
<1>2. Spec => [][Step]_vars
  BY <1>1, InvHolds, PTL DEF Spec
<1> QED
  BY <1>2 DEF RefusedOnlyWhenFull

=============================================================================
