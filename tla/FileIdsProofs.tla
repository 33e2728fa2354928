---------------------------- MODULE FileIdsProofs ---------------------------
(***************************************************************************)
(* File ids are unique and stable for any number of sessions, disks,       *)
(* objects and ids, through failed scans, removals and crashes.            *)
(***************************************************************************)
EXTENDS FileIds, IdMapProofs

Holding == {"scan", "recheck", "assign", "record"}
Steps == {"idle", "lock"} \cup Holding

\* The mutex is held exactly during the steps between its locking and the return.
Exclusive == \A w \in Workers : pc[w] \in Holding <=> lock = w

\* While a disk is scanned it has no map yet, and every id on it was found or is
\* yet to be.
ScanCovers ==
  \A w \in Workers : pc[w] = "scan" =>
    /\ Disk[object[w]] \notin loaded
    /\ \A o \in Objects : Disk[o] = Disk[object[w]] /\ attr[o] \in Ids =>
         o \in pending \/ attr[o] - 1 \in found

\* After the scan the disk has its map.
LoadedAfterScan ==
  \A w \in Workers :
    pc[w] \in {"recheck", "assign", "record"} => Disk[object[w]] \in loaded

\* Every id on a disk with a map is in the map, or about to be recorded there.
Covered ==
  \A o \in Objects : Disk[o] \in loaded /\ attr[o] \in Ids =>
    \/ attr[o] - 1 \in file_ids[Disk[o]]
    \/ \E w \in Workers : /\ pc[w] = "record" /\ chosen = attr[o]
                          /\ Disk[object[w]] = Disk[o]

\* An object about to receive an id has none, and there is one for it.
AssignReady ==
  \A w \in Workers : pc[w] = "assign" =>
    attr[object[w]] \notin Ids /\ FindFree(file_ids[Disk[object[w]]]) # NoId

\* The id about to be recorded is one.
RecordReady == \A w \in Workers : pc[w] = "record" => chosen \in Ids

Inv ==
  /\ TypeOK /\ UniqueIds
  /\ Exclusive /\ ScanCovers /\ LoadedAfterScan /\ Covered
  /\ AssignReady /\ RecordReady

LEMMA IdsFacts == NoId \notin Ids /\ Absent \notin Ids /\ Ids \subseteq Nat
BY SizeIsNatural DEF Ids, NoId, Absent

LEMMA BitInRange == \A id \in Ids : id - 1 \in 0 .. (SIZE - 1)
BY SizeIsNatural DEF Ids

LEMMA InitInv == Init => Inv
<1> SUFFICES ASSUME Init PROVE Inv
  OBVIOUS
<1>1. TypeOK
  BY SizeIsNatural DEF Init, TypeOK, Empty
<1>2. \A o \in Objects : attr[o] \notin Ids
  BY IdsFacts DEF Init
<1>3. \A w \in Workers : pc[w] = "idle" /\ lock # w
  BY FileIdsAssumption DEF Init
<1> QED
  BY <1>1, <1>2, <1>3 DEF Inv, UniqueIds, Exclusive, ScanCovers, LoadedAfterScan,
       Covered, AssignReady, RecordReady, Holding, Init

\* Whoever is between lock and return is alone there.
LEMMA Alone ==
  ASSUME Inv, NEW w \in Workers, pc[w] \in Holding, NEW v \in Workers, v # w
  PROVE  pc[v] \notin Holding
BY DEF Inv, Exclusive

LEMMA ReadIdInv ==
  ASSUME Inv, NEW w \in Workers, ReadId(w)
  PROVE  Inv'
<1> USE DEF Inv, TypeOK, ReadId, Goto, Holding
<1>1. TypeOK' /\ UniqueIds'
  BY DEF UniqueIds
<1>2. Exclusive'
  BY DEF Exclusive
<1>3. ScanCovers' /\ LoadedAfterScan' /\ AssignReady' /\ RecordReady'
  BY DEF ScanCovers, LoadedAfterScan, AssignReady, RecordReady
<1>4. Covered'
  BY DEF Covered
<1> QED
  BY <1>1, <1>2, <1>3, <1>4

LEMMA LockInv ==
  ASSUME Inv, NEW w \in Workers, Lock(w)
  PROVE  Inv'
<1> USE DEF Inv, Lock, Goto, Holding
<1>1. TypeOK'
  <2>1. pending' \subseteq Objects /\ found' \subseteq 0 .. (SIZE - 1)
    BY DEF TypeOK, Tree, Empty
  <2>2. pc' \in [Workers -> Steps]
    BY DEF TypeOK, Steps
  <2> QED
    BY <2>1, <2>2 DEF TypeOK, Steps
<1>2. UniqueIds'
  BY DEF UniqueIds
<1>3. Exclusive'
  BY FileIdsAssumption DEF Exclusive, TypeOK
<1>4. \A v \in Workers : v # w => pc'[v] = pc[v] /\ pc[v] \notin Holding
  BY FileIdsAssumption DEF TypeOK, Exclusive
<1>5. ScanCovers'
  BY <1>4, IdsFacts DEF ScanCovers, TypeOK, Tree, Exists
<1>6. LoadedAfterScan' /\ AssignReady' /\ RecordReady'
  BY <1>4 DEF LoadedAfterScan, AssignReady, RecordReady, TypeOK
<1>7. Covered'
  BY <1>4 DEF Covered, TypeOK
<1> QED
  BY <1>1, <1>2, <1>3, <1>5, <1>6, <1>7

LEMMA ScanObjectInv ==
  ASSUME Inv, NEW w \in Workers, ScanObject(w)
  PROVE  Inv'
<1> USE DEF Inv, ScanObject
<1>1. TypeOK'
  BY BitInRange DEF TypeOK, Set
<1>2. ScanCovers'
  BY IdsFacts DEF ScanCovers, Set
<1>3. UniqueIds' /\ Exclusive' /\ LoadedAfterScan' /\ AssignReady' /\ RecordReady'
  BY DEF UniqueIds, Exclusive, LoadedAfterScan, AssignReady, RecordReady
<1>4. Covered'
  BY DEF Covered
<1> QED
  BY <1>1, <1>2, <1>3, <1>4

\* A return without an assignment, from a step other than the recording.
LEMMA ReturnInv ==
  ASSUME Inv, NEW w \in Workers, pc[w] \in Holding \ {"record"}, Return(w),
         UNCHANGED <<attr, loaded, file_ids, object, pending, found, chosen>>
  PROVE  Inv'
<1> USE DEF Inv, Return, Goto, Holding
<1>1. TypeOK'
  BY DEF TypeOK
<1>2. UniqueIds'
  BY DEF UniqueIds
<1>3. \A v \in Workers : pc'[v] \notin Holding
  BY Alone DEF TypeOK
<1>4. Exclusive'
  BY <1>3, FileIdsAssumption DEF Exclusive
<1>5. ScanCovers' /\ LoadedAfterScan' /\ AssignReady' /\ RecordReady'
  BY <1>3 DEF ScanCovers, LoadedAfterScan, AssignReady, RecordReady
<1>6. Covered'
  BY <1>3, Alone DEF Covered
<1> QED
  BY <1>1, <1>2, <1>4, <1>5, <1>6

LEMMA ScanEndsInv ==
  ASSUME Inv, NEW w \in Workers, ScanEnds(w)
  PROVE  Inv'
<1> USE DEF Inv, ScanEnds, Goto, Holding
<1>1. TypeOK'
  BY FileIdsAssumption DEF TypeOK
<1>2. UniqueIds'
  BY DEF UniqueIds
<1>3. \A v \in Workers : v # w => pc'[v] = pc[v] /\ pc[v] \notin Holding
  BY Alone DEF TypeOK
<1>4. Exclusive'
  BY <1>3 DEF Exclusive, TypeOK
<1>5. ScanCovers' /\ LoadedAfterScan' /\ AssignReady' /\ RecordReady'
  BY <1>3 DEF ScanCovers, LoadedAfterScan, AssignReady, RecordReady, TypeOK
<1>6. Covered'
  BY <1>3, FileIdsAssumption DEF Covered, ScanCovers, TypeOK
<1> QED
  BY <1>1, <1>2, <1>4, <1>5, <1>6

LEMMA RecheckInv ==
  ASSUME Inv, NEW w \in Workers, Recheck(w)
  PROVE  Inv'
<1>1. CASE Return(w)
  BY <1>1, ReturnInv DEF Recheck, Holding
<1>2. CASE ~Return(w)
  <2> USE <1>2 DEF Inv, Recheck, Goto, Holding
  <2>1. TypeOK'
    BY DEF TypeOK
  <2>2. \A v \in Workers : v # w => pc'[v] = pc[v] /\ pc[v] \notin Holding
    BY Alone DEF TypeOK
  <2>3. UniqueIds' /\ Exclusive'
    BY <2>2 DEF UniqueIds, Exclusive, TypeOK
  <2>4. ScanCovers' /\ LoadedAfterScan' /\ RecordReady'
    BY <2>2 DEF ScanCovers, LoadedAfterScan, RecordReady, TypeOK
  <2>5. AssignReady'
    BY <2>2, IdsFacts DEF AssignReady, StillWithoutId, TypeOK
  <2>6. Covered'
    BY <2>2 DEF Covered, TypeOK
  <2> QED
    BY <2>1, <2>3, <2>4, <2>5, <2>6
<1> QED
  BY <1>1, <1>2

LEMMA AssignInv ==
  ASSUME Inv, NEW w \in Workers, Assign(w)
  PROVE  Inv'
<1> DEFINE o == object[w]
           d == Disk[o]
           id == FindFree(file_ids[d])
<1>1. o \in Objects /\ d \in loaded /\ attr[o] \notin Ids
  BY DEF Inv, TypeOK, Assign, LoadedAfterScan, AssignReady
<1>2. id \in Ids /\ id - 1 \notin file_ids[d]
  <2>1. id # NoId
    BY DEF Inv, Assign, AssignReady
  <2> QED
    BY <2>1, FindFreeIsFree
<1>3. /\ attr' = [attr EXCEPT ![o] = id] /\ chosen' = id
      /\ pc' = [pc EXCEPT ![w] = "record"] /\ pc[w] = "assign"
      /\ UNCHANGED <<loaded, file_ids, lock, object, pending, found>>
  BY DEF Assign, Goto
<1>4. \A v \in Workers : v # w => pc'[v] = pc[v] /\ pc[v] \notin Holding
  BY <1>3, Alone DEF Inv, TypeOK, Holding
<1> HIDE DEF o, d, id
<1> USE DEF Inv, Holding
<1>5. TypeOK'
  BY <1>1, <1>2, <1>3 DEF TypeOK
\* The ids of the disk are in its map, since nobody is about to record one.
<1>6. \A p \in Objects : Disk[p] = d /\ attr[p] \in Ids => attr[p] # id
  BY <1>1, <1>2, <1>3, <1>4 DEF Covered
<1>7. UniqueIds'
  BY <1>1, <1>2, <1>3, <1>6 DEF UniqueIds, TypeOK, d
<1>8. Exclusive' /\ ScanCovers' /\ LoadedAfterScan' /\ AssignReady' /\ RecordReady'
  BY <1>1, <1>2, <1>3, <1>4 DEF Exclusive, ScanCovers, LoadedAfterScan, AssignReady,
       RecordReady, TypeOK
<1>9. Covered'
  BY <1>1, <1>2, <1>3, <1>4 DEF Covered, TypeOK, o, d
<1> QED
  BY <1>5, <1>7, <1>8, <1>9

LEMMA RecordInv ==
  ASSUME Inv, NEW w \in Workers, Record(w)
  PROVE  Inv'
<1> USE DEF Inv, Record, Return, Goto, Holding
<1>1. TypeOK'
  <2>1. chosen - 1 \in 0 .. (SIZE - 1)
    BY BitInRange DEF RecordReady
  <2> QED
    BY <2>1 DEF TypeOK, Set
<1>2. UniqueIds'
  BY DEF UniqueIds
<1>3. \A v \in Workers : v # w => pc[v] \notin Holding
  BY Alone
<1>4. \A v \in Workers : pc'[v] \notin Holding
  BY <1>3 DEF TypeOK
<1>5. Exclusive' /\ ScanCovers' /\ LoadedAfterScan' /\ AssignReady' /\ RecordReady'
  BY <1>4, FileIdsAssumption DEF Exclusive, ScanCovers, LoadedAfterScan, AssignReady, RecordReady
<1>6. Covered'
  BY <1>3, FileIdsAssumption DEF Covered, Set, TypeOK
<1> QED
  BY <1>1, <1>2, <1>5, <1>6

\* Objects come without an id and go with theirs.
LEMMA ObjectInv ==
  ASSUME Inv, NEW o \in Objects, Create(o) \/ Remove(o)
  PROVE  Inv'
<1> USE DEF Inv, Create, Remove
<1>1. TypeOK'
  BY DEF TypeOK
<1>2. \A p \in Objects : attr'[p] \in Ids => attr'[p] = attr[p]
  BY IdsFacts DEF TypeOK
<1>3. UniqueIds' /\ Exclusive' /\ ScanCovers' /\ LoadedAfterScan' /\ RecordReady'
  BY <1>2 DEF UniqueIds, Exclusive, ScanCovers, LoadedAfterScan, RecordReady
<1>4. AssignReady'
  BY <1>2 DEF AssignReady, TypeOK
<1>5. Covered'
  BY <1>2 DEF Covered
<1> QED
  BY <1>1, <1>3, <1>4, <1>5

LEMMA CrashInv ==
  ASSUME Inv, Crash
  PROVE  Inv'
<1> USE DEF Inv, Crash
<1>1. TypeOK'
  BY SizeIsNatural DEF TypeOK, Empty
<1>2. \A w \in Workers : pc'[w] = "idle" /\ lock' # w
  BY FileIdsAssumption
<1> QED
  BY <1>1, <1>2 DEF UniqueIds, Exclusive, ScanCovers, LoadedAfterScan, Covered,
       AssignReady, RecordReady, Holding

LEMMA NextInv == Inv /\ [Next]_vars => Inv'
<1> SUFFICES ASSUME Inv, [Next]_vars
             PROVE  Inv'
  OBVIOUS
<1>1. CASE UNCHANGED vars
  BY <1>1 DEF vars, Inv, TypeOK, UniqueIds, Exclusive, ScanCovers, LoadedAfterScan,
       Covered, AssignReady, RecordReady
<1>2. ASSUME NEW w \in Workers, ReadId(w) \/ Worker(w)
      PROVE  Inv'
  <2>1. ScanFails(w) \/ AssignFails(w) => Inv'
    BY ReturnInv DEF ScanFails, AssignFails, Holding
  <2> QED
    BY <1>2, <2>1, ReadIdInv, LockInv, ScanObjectInv, ScanEndsInv, RecheckInv,
       AssignInv, RecordInv DEF Worker
<1> QED
  BY <1>1, <1>2, ObjectInv, CrashInv DEF Next

LEMMA InvHolds == Spec => []Inv
BY InitInv, NextInv, PTL DEF Spec

\* No two objects of a disk ever have the same id (dirmanager.rs:146-172).
THEOREM Unique == Spec => []UniqueIds
<1>1. Inv => UniqueIds
  BY DEF Inv
<1> QED
  BY <1>1, InvHolds, PTL

\* An object's id never changes while the object exists: only Assign writes an
\* attribute, and what it writes to had none (dirmanager.rs:163-169).
THEOREM Stable == Spec => StableIds
<1> DEFINE Keeps == \A o \in Objects : attr[o] \in Ids => attr'[o] \in {attr[o], Absent}
<1>1. Inv /\ [Next]_vars => [Keeps]_vars
  <2> SUFFICES ASSUME Inv, Next
               PROVE  Keeps
    OBVIOUS
  <2>1. ASSUME NEW w \in Workers, Assign(w) PROVE Keeps
    BY <2>1 DEF Inv, TypeOK, Assign, AssignReady
  <2>2. ASSUME NEW o \in Objects, Create(o) \/ Remove(o) PROVE Keeps
    BY <2>2, IdsFacts DEF Inv, TypeOK, Create, Remove, Exists
  <2>3. ASSUME attr' = attr PROVE Keeps
    BY <2>3
  <2> QED
    BY <2>1, <2>2, <2>3 DEF Next, Worker, ReadId, Lock, ScanObject, ScanFails, ScanEnds,
         Recheck, AssignFails, Record, Crash
<1> QED
  BY <1>1, InvHolds, PTL DEF Spec, StableIds

=============================================================================
