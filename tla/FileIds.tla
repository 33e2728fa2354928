------------------------------- MODULE FileIds ------------------------------
(***************************************************************************)
(* The allocator of file ids: sessions ask for the id of an object of a    *)
(* virtual disk, which is assigned on first use and kept in an extended    *)
(* attribute of the object.                                                *)
(*                                                                         *)
(* Source: src/Server/src/vfs/dirmanager.rs (allocate_file_id and          *)
(* collect_file_ids).  Threads interleave at every file system call: the   *)
(* first read takes no lock, and objects come and go during the scan that  *)
(* rebuilds the map of a disk.  The attributes survive a crash, the maps   *)
(* do not.                                                                 *)
(***************************************************************************)
EXTENDS IdMap

CONSTANTS
  Workers,     \* threads of the signed-on sessions
  Objects,     \* paths of files and directories
  Disks,       \* the directories the virtual disks are mapped to
  Disk         \* the disk of each path

Absent == -1        \* in place of the attribute of an object that does not exist
NoOne == "no one"

ASSUME FileIdsAssumption == Disk \in [Objects -> Disks] /\ NoOne \notin Workers

VARIABLES
  attr,      \* the id in the attribute of each object, NoId if unset, or Absent
  loaded,    \* the disks that have an entry in file_ids
  file_ids,  \* the maps of those disks
  lock,      \* who holds the mutex around them
  pc,        \* the next step of allocate_file_id, or "idle"
  object,    \* the path each worker asks about
  pending,   \* the objects the scan has yet to visit
  found,     \* the map the scan has built so far
  chosen     \* the id a worker is about to record as taken

vars == <<attr, loaded, file_ids, lock, pc, object, pending, found, chosen>>

Exists(o) == attr[o] # Absent

Init ==
  /\ attr \in [Objects -> {Absent, NoId}]
  /\ loaded = {}
  /\ file_ids = [d \in Disks |-> Empty]
  /\ lock = NoOne
  /\ pc = [w \in Workers |-> "idle"]
  /\ object \in [Workers -> Objects]
  /\ pending = {}
  /\ found = Empty
  /\ chosen = NoId

-----------------------------------------------------------------------------

Goto(w, step) == pc' = [pc EXCEPT ![w] = step]

\* Faulty variant: an error return leaves the mutex locked.
ReturnLocked(w) == Goto(w, "idle") /\ UNCHANGED lock

\* Leaving allocate_file_id unlocks, whatever is returned.
Return(w) == Goto(w, "idle") /\ lock' = NoOne

\* read_file_id before the lock: an object that has its id needs nothing else,
\* and one that is gone is an error.
ReadId(w) ==
  /\ pc[w] = "idle"
  /\ \E o \in Objects :
       /\ object' = [object EXCEPT ![w] = o]
       /\ Goto(w, IF attr[o] = NoId THEN "lock" ELSE "idle")
  /\ UNCHANGED <<attr, loaded, file_ids, lock, pending, found, chosen>>

\* Faulty variant: the map of a disk starts empty.
TreeSkipped(d) == {}

\* What read_dir finds below a disk.
Tree(d) == {o \in Objects : Disk[o] = d /\ Exists(o)}

Lock(w) ==
  /\ pc[w] = "lock" /\ lock = NoOne
  /\ lock' = w
  /\ IF Disk[object[w]] \notin loaded
       THEN /\ Goto(w, "scan")
            /\ pending' = Tree(Disk[object[w]])
            /\ found' = Empty
       ELSE Goto(w, "recheck") /\ UNCHANGED <<pending, found>>
  /\ UNCHANGED <<attr, loaded, file_ids, object, chosen>>

\* collect_file_ids visits one object.  One that is gone by then is skipped.
ScanObject(w) ==
  /\ pc[w] = "scan"
  /\ \E o \in pending :
       /\ pending' = pending \ {o}
       /\ found' = IF attr[o] \in Ids THEN Set(found, attr[o]) ELSE found
  /\ UNCHANGED <<attr, loaded, file_ids, lock, pc, object, chosen>>

\* An object that is gone, a directory that cannot be read or an attribute that
\* is malformed fails the scan, and the disk keeps no map.
ScanFails(w) ==
  /\ pc[w] = "scan"
  /\ Return(w)
  /\ UNCHANGED <<attr, loaded, file_ids, object, pending, found, chosen>>

ScanEnds(w) ==
  /\ pc[w] = "scan"
  /\ pending = {}
  /\ loaded' = loaded \cup {Disk[object[w]]}
  /\ file_ids' = [file_ids EXCEPT ![Disk[object[w]]] = found]
  /\ Goto(w, "recheck")
  /\ UNCHANGED <<attr, lock, object, pending, found, chosen>>

\* Faulty variant: no second look at the object once the lock is held.
StillWithoutIdUnchecked(w) == Exists(object[w])

\* "Another attachment may have assigned an id while the tree was scanned."
StillWithoutId(w) == attr[object[w]] = NoId

\* The second read_file_id, under the lock: the object has its id by now, or is
\* gone, or no id is left for it.
Recheck(w) ==
  /\ pc[w] = "recheck"
  /\ IF StillWithoutId(w) /\ FindFree(file_ids[Disk[object[w]]]) # NoId
       THEN Goto(w, "assign") /\ UNCHANGED lock
       ELSE Return(w)
  /\ UNCHANGED <<attr, loaded, file_ids, object, pending, found, chosen>>

\* xattr::set
Assign(w) ==
  LET o == object[w] IN
  /\ pc[w] = "assign"
  /\ Exists(o)
  /\ attr' = [attr EXCEPT ![o] = FindFree(file_ids[Disk[o]])]
  /\ chosen' = FindFree(file_ids[Disk[o]])
  /\ Goto(w, "record")
  /\ UNCHANGED <<loaded, file_ids, lock, object, pending, found>>

\* xattr::set fails: the object is gone, or the host refuses the attribute.
AssignFails(w) ==
  /\ pc[w] = "assign"
  /\ Return(w)
  /\ UNCHANGED <<attr, loaded, file_ids, object, pending, found, chosen>>

\* ids.set
Record(w) ==
  /\ pc[w] = "record"
  /\ file_ids' = [file_ids EXCEPT ![Disk[object[w]]] = Set(@, chosen)]
  /\ Return(w)
  /\ UNCHANGED <<attr, loaded, object, pending, found, chosen>>

-----------------------------------------------------------------------------

\* A session opens a new file or attaches below a new directory (fsproxy.rs):
\* the object has no id yet.
Create(o) ==
  /\ ~Exists(o)
  /\ attr' = [attr EXCEPT ![o] = NoId]
  /\ UNCHANGED <<loaded, file_ids, lock, pc, object, pending, found, chosen>>

\* The server removes nothing; the operator may.
Remove(o) ==
  /\ Exists(o)
  /\ attr' = [attr EXCEPT ![o] = Absent]
  /\ UNCHANGED <<loaded, file_ids, lock, pc, object, pending, found, chosen>>

\* The process ends at any step and starts again (VfsDirManager::new).
Crash ==
  /\ loaded' = {} /\ file_ids' = [d \in Disks |-> Empty]
  /\ lock' = NoOne
  /\ pc' = [w \in Workers |-> "idle"]
  /\ pending' = {} /\ found' = Empty /\ chosen' = NoId
  /\ UNCHANGED <<attr, object>>

Worker(w) ==
  \/ Lock(w) \/ ScanObject(w) \/ ScanFails(w) \/ ScanEnds(w)
  \/ Recheck(w) \/ Assign(w) \/ AssignFails(w) \/ Record(w)

Next ==
  \/ \E w \in Workers : ReadId(w) \/ Worker(w)
  \/ \E o \in Objects : Create(o) \/ Remove(o)
  \/ Crash

Spec == Init /\ [][Next]_vars

\* Threads run, and the mutex (parking_lot, eventually fair) serves each waiter.
FairSpec ==
  /\ Spec
  /\ \A w \in Workers : WF_vars(Worker(w)) /\ SF_vars(Lock(w))

-----------------------------------------------------------------------------

\* Every variable has its type.
TypeOK ==
  /\ attr \in [Objects -> Ids \cup {NoId, Absent}]
  /\ loaded \subseteq Disks
  /\ file_ids \in [Disks -> SUBSET (0 .. (SIZE - 1))]
  /\ lock \in Workers \cup {NoOne}
  /\ pc \in [Workers -> {"idle", "lock", "scan", "recheck", "assign", "record"}]
  /\ object \in [Workers -> Objects]
  /\ pending \subseteq Objects
  /\ found \subseteq 0 .. (SIZE - 1)
  /\ chosen \in Ids \cup {NoId}

\* "file ids are only unique within a single disk" (dirmanager.rs:41), and there
\* they are: no interleaving, failed scan or crash gives two objects one id.
UniqueIds ==
  \A o, p \in Objects :
    Disk[o] = Disk[p] /\ attr[o] \in Ids /\ attr[o] = attr[p] => o = p

\* An object keeps its id for as long as it exists, across sessions and restarts
\* (dirmanager.rs:130, "assigning and persisting one on first use").
StableIds ==
  [][\A o \in Objects : attr[o] \in Ids => attr'[o] \in {attr[o], Absent}]_vars

\* Every request for an id is answered: nobody keeps the mutex, whatever fails.
RequestEnds == \A w \in Workers : pc[w] = "lock" ~> pc[w] = "idle"

=============================================================================
