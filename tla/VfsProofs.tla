----------------------------- MODULE VfsProofs ------------------------------
(***************************************************************************)
(* The file service keeps its ids and its files in order for any number of *)
(* sessions, files and ids, and any limits: no connection id is lost or    *)
(* given out twice, and no file gets a body it cannot be opened with.      *)
(***************************************************************************)
EXTENDS Vfs, IdMapProofs

-----------------------------------------------------------------------------
(* What the proofs need of the operators.                                   *)

LEMMA LimitsAreNatural ==
  MAX_WRITE \in Nat /\ MAX_DATA \in Nat /\ \A f \in Files : PropertyLength[f] \in Nat
BY VfsAssumption

\* A connection that exists is told from Detached by its target.
LEMMA DetachedIsNone == Detached \notin Descriptors
BY VfsAssumption DEF Detached, Descriptors, Folder

LEMMA NoWriteIsNone ==
  NoWrite \notin [id : Ids, length : 1 .. MAX_WRITE]
BY DEF NoWrite, Ids, NoId

LEMMA AttachmentIsDescriptor ==
  ASSUME NEW target \in Files \cup {Folder}
  PROVE  Attachment(target) \in Descriptors
BY DEF Attachment, Descriptors

\* A read moves the position forward, or leaves it behind the end.
LEMMA AvailableIsNatural ==
  ASSUME NEW d, NEW length \in Nat, body[d.target] \in Int, d.pos \in Nat
  PROVE  Available(d, length) \in Nat
<1>1. BoundedLength(length) \in Nat
  BY MinOfTwo, VfsAssumption DEF BoundedLength
<1> DEFINE left == body[d.target] - d.pos
           read == Min({BoundedLength(length), left})
<1>2. left \in Int
  OBVIOUS
<1>3. read \in Int
  <2> HIDE DEF left
  <2> QED
    BY <1>1, <1>2, MinOfTwo
<1>4. Available(d, length) = Max({0, read})
  BY DEF Available
<1> HIDE DEF read
<1>5. \E x \in {0, read} : \A y \in {0, read} : x >= y
  BY <1>3
<1> QED
  BY <1>3, <1>4, <1>5 DEF Max

\* A page is part of the listing it is taken from.
LEMMA PageOfListing ==
  ASSUME NEW listing \in SUBSET Files, NEW next, NEW n
  PROVE  Page(listing, next, n) \in SUBSET Files /\ Cardinality(Page(listing, next, n)) \in Nat
<1>1. Page(listing, next, n) \subseteq listing
  BY DEF Page
<1>2. IsFiniteSet(Page(listing, next, n))
  BY <1>1, FS_Subset, VfsAssumption, Zenon
<1> QED
  BY <1>1, <1>2, FS_CardinalityType

-----------------------------------------------------------------------------
(* The inductive invariant.                                                 *)

\* The file of an open connection has its header: a file is opened only when
\* its length is valid, and it is removed only when nobody has it open.
OpenHasHeader ==
  \A s \in Sessions, id \in Ids :
    LET d == table[s][id] IN
    d # Detached /\ d.target # Folder /\ d.open => body[d.target] \in Nat

\* A write of some length to an open file ends within the limit.
ValidWrite(d, length) ==
  /\ d # Detached /\ d.target # Folder /\ d.open
  /\ d.pos + length <= PropertyLength[d.target] + MAX_DATA

\* A write that was checked stays valid, whatever the others do to the file before
\* it happens: its end depends on the session's own position alone, and the limit
\* on none.
WriteStaysValid ==
  \A s \in Sessions : writing[s] # NoWrite =>
    ValidWrite(table[s][writing[s].id], writing[s].length)

\* StaysOpenable is not inductive by itself: a pending write could reach past the
\* limit, or turn a file without a header into one with a body too short.
Inv ==
  /\ TypeOK
  /\ IdsMatchTable
  /\ StaysOpenable
  /\ OpenHasHeader
  /\ WriteStaysValid

LEMMA InitInv == Init => Inv
<1> SUFFICES ASSUME Init
             PROVE  Inv
  OBVIOUS
<1>1. TypeOK
  BY DEF Init, TypeOK, Empty, NoConnections
<1>2. IdsMatchTable
  BY DEF Init, IdsMatchTable, Empty, NoConnections
<1>3. StaysOpenable /\ OpenHasHeader /\ WriteStaysValid
  BY DEF Init, StaysOpenable, OpenHasHeader, WriteStaysValid, NoConnections
<1> QED
  BY <1>1, <1>2, <1>3 DEF Inv

\* Every connection has a descriptor, every pending write is one.
LEMMA Typed ==
  ASSUME Inv, NEW s \in Sessions, NEW id \in Ids
  PROVE  /\ table[s][id] # Detached => table[s][id] \in Descriptors
         /\ writing[s] # NoWrite => writing[s].id \in Ids /\ writing[s].length \in 1 .. MAX_WRITE
BY DEF Inv, TypeOK

-----------------------------------------------------------------------------
(* Steps that change one descriptor and nothing else.                       *)

\* Another descriptor for a connection that stays attached to its target.
LEMMA DescriptorInv ==
  ASSUME Inv, NEW s \in Sessions, NEW id \in Ids, NEW d \in Descriptors,
         Attached(s, id), SetDescriptor(s, id, d), UNCHANGED <<body, ids, writing>>,
         d.target = table[s][id].target,
         d.target # Folder /\ d.open => body[d.target] \in Nat
  PROVE  Inv'
<1>1. /\ table' \in [Sessions -> [Ids -> Descriptors \cup {Detached}]]
      /\ table'[s][id] = d
      /\ \A t \in Sessions, i \in Ids : t # s \/ i # id => table'[t][i] = table[t][i]
  BY DEF Inv, TypeOK, SetDescriptor
<1>2. d # Detached /\ table[s][id] # Detached /\ writing[s] = NoWrite
  BY DetachedIsNone DEF Attached
<1>3. TypeOK'
  BY <1>1 DEF Inv, TypeOK
<1>4. \A t \in Sessions, i \in Ids : table'[t][i] = Detached <=> table[t][i] = Detached
  BY <1>1, <1>2
<1>5. IdsMatchTable'
  BY <1>4 DEF Inv, IdsMatchTable
<1>6. StaysOpenable'
  BY DEF Inv, StaysOpenable
<1>7. OpenHasHeader'
  BY <1>1 DEF Inv, OpenHasHeader
<1>8. WriteStaysValid'
  BY <1>1, <1>2, Typed DEF Inv, WriteStaysValid
<1> QED
  BY <1>3, <1>5, <1>6, <1>7, <1>8 DEF Inv

LEMMA OpenInv ==
  ASSUME Inv, NEW s \in Sessions, NEW id \in Ids, Open(s, id)
  PROVE  Inv'
<1> DEFINE d == table[s][id]
           e == [d EXCEPT !.open = TRUE]
<1>1. d \in Descriptors /\ Attached(s, id)
  BY Typed DEF Open, Attached
<1>2. e \in Descriptors /\ e.target = d.target
  BY <1>1, Zenon DEF Descriptors
<1>3. d.target # Folder => body[d.target] \in Nat
  BY <1>1, VfsAssumption DEF Open, ValidBodyLength, Inv, TypeOK, NoFile, NoHeader, Descriptors
<1>4. SetDescriptor(s, id, e) /\ UNCHANGED <<body, ids, writing>>
  BY DEF Open
<1> HIDE DEF e
<1> QED
  BY <1>1, <1>2, <1>3, <1>4, DescriptorInv

LEMMA CloseInv ==
  ASSUME Inv, NEW s \in Sessions, NEW id \in Ids, Close(s, id)
  PROVE  Inv'
<1> DEFINE d == table[s][id]
           e == [d EXCEPT !.open = FALSE, !.pos = 0]
<1>1. d \in Descriptors /\ Attached(s, id)
  BY Typed DEF Close, Attached
<1>2. e \in Descriptors /\ e.target = d.target /\ ~e.open
  BY <1>1, Zenon DEF Descriptors
<1>3. SetDescriptor(s, id, e) /\ UNCHANGED <<body, ids, writing>>
  BY DEF Close
<1> HIDE DEF e
<1> QED
  BY <1>1, <1>2, <1>3, DescriptorInv

\* A read or a seek moves the position of an open file.
LEMMA MoveInv ==
  ASSUME Inv, NEW s \in Sessions, NEW id \in Ids, NEW pos \in Nat,
         OpenFile(s, id), MoveTo(s, id, pos)
  PROVE  Inv'
<1> DEFINE d == table[s][id]
           e == [d EXCEPT !.pos = pos]
<1>1. d \in Descriptors /\ Attached(s, id)
  BY Typed DEF OpenFile, Attached
<1>2. e \in Descriptors /\ e.target = d.target
  BY <1>1 DEF Descriptors
<1>3. body[d.target] \in Nat
  BY DEF Inv, OpenHasHeader, OpenFile, Attached
<1>4. SetDescriptor(s, id, e) /\ UNCHANGED <<body, ids, writing>>
  BY DEF MoveTo
<1> HIDE DEF e
<1> QED
  BY <1>1, <1>2, <1>3, <1>4, DescriptorInv

LEMMA ReadInv ==
  ASSUME Inv, NEW s \in Sessions, NEW id \in Ids, NEW n \in Lengths, Read(s, id, n)
  PROVE  Inv'
<1> DEFINE d == table[s][id]
<1>1. d \in Descriptors /\ OpenFile(s, id)
  BY Typed DEF Read, OpenFile, Attached
<1>2. d.pos \in Nat /\ body[d.target] \in Nat /\ n \in Nat
  BY <1>1, VfsAssumption DEF Descriptors, Inv, OpenHasHeader, OpenFile, Attached
<1>3. Available(d, n) \in Nat
  BY <1>2, AvailableIsNatural
<1>4. MoveTo(s, id, d.pos + Available(d, n))
  BY DEF Read
<1>5. d.pos + Available(d, n) \in Nat
  BY <1>2, <1>3
<1> QED
  BY <1>1, <1>4, <1>5, MoveInv

LEMMA SeekInv ==
  ASSUME Inv, NEW s \in Sessions, NEW id \in Ids, NEW n, Seek(s, id, n)
  PROVE  Inv'
<1>1. PICK pos \in 0 .. MaxPos : MoveTo(s, id, pos)
  BY DEF Seek
<1>2. pos \in Nat /\ OpenFile(s, id)
  BY VfsAssumption DEF Seek
<1> QED
  BY <1>1, <1>2, MoveInv

LEMMA ReadDirPageInv ==
  ASSUME Inv, NEW s \in Sessions, NEW id \in Ids, NEW n, ReadDirPage(s, id, n)
  PROVE  Inv'
<1> DEFINE d == table[s][id]
           listing == Listing(d)
           page == Page(listing, d.next, n)
           held == IF d.listed THEN d.held ELSE Entries
           ended == n > 0 /\ page = {}
           next == d.next + Cardinality(page)
           shown == d.shown \cup page
           again == d.again \cup (d.shown \cap page)
           e == [d EXCEPT !.listed = TRUE, !.listing = listing, !.next = next, !.held = held,
                          !.shown = shown, !.again = again, !.ended = ended]
<1>1. d \in Descriptors /\ Attached(s, id) /\ d.target = Folder
  BY Typed DEF ReadDirPage, Attached
<1>2. listing \in SUBSET Files /\ held \in SUBSET Files
  BY <1>1 DEF Listing, Entries, Present, Descriptors
<1>3. page \in SUBSET Files /\ Cardinality(page) \in Nat
  BY <1>2, PageOfListing
<1>4. /\ next \in Nat /\ ended \in BOOLEAN
      /\ shown \in SUBSET Files /\ again \in SUBSET Files
  BY <1>1, <1>3 DEF Descriptors
<1>5. SetDescriptor(s, id, e) /\ UNCHANGED <<body, ids, writing>>
  BY DEF ReadDirPage
<1> HIDE DEF listing, page, held, ended, next, shown, again
<1>6. e \in Descriptors /\ e.target = d.target
  BY <1>1, <1>2, <1>3, <1>4, Zenon DEF Descriptors
<1> HIDE DEF e
<1> QED
  BY <1>1, <1>5, <1>6, DescriptorInv

-----------------------------------------------------------------------------
(* Steps that attach, detach or end a session.                              *)

LEMMA AttachInv ==
  ASSUME Inv, NEW s \in Sessions, NEW target \in Files \cup {Folder}, Attach(s, target)
  PROVE  Inv'
<1> DEFINE id == FindFree(ids[s])
           d == Attachment(target)
<1>1. id \in Ids /\ id - 1 \notin ids[s] /\ writing[s] = NoWrite
  BY FindFreeIsFree DEF Attach
<1>2. d \in Descriptors /\ ~d.open
  BY AttachmentIsDescriptor DEF Attachment
<1>3. /\ table' = [table EXCEPT ![s][id] = d]
      /\ ids' = [ids EXCEPT ![s] = @ \cup {id - 1}]
      /\ body' = body /\ writing' = writing
  BY DEF Attach, Set
<1> HIDE DEF id, d
<1>4. /\ table' \in [Sessions -> [Ids -> Descriptors \cup {Detached}]]
      /\ table'[s][id] = d /\ d # Detached
      /\ \A t \in Sessions, i \in Ids : t # s \/ i # id => table'[t][i] = table[t][i]
  BY <1>1, <1>2, <1>3, DetachedIsNone DEF Inv, TypeOK
<1>5. /\ ids' \in [Sessions -> SUBSET (0 .. (SIZE - 1))]
      /\ ids'[s] = ids[s] \cup {id - 1}
      /\ \A t \in Sessions : t # s => ids'[t] = ids[t]
  <2>1. id - 1 \in 0 .. (SIZE - 1)
    BY <1>1, SizeIsNatural DEF Ids
  <2> QED
    BY <1>3, <2>1 DEF Inv, TypeOK
<1>6. TypeOK'
  BY <1>3, <1>4, <1>5 DEF Inv, TypeOK
<1>7. IdsMatchTable'
  BY <1>1, <1>4, <1>5 DEF Inv, IdsMatchTable
<1>8. StaysOpenable'
  BY <1>3 DEF Inv, StaysOpenable
<1>9. OpenHasHeader'
  BY <1>2, <1>3, <1>4 DEF Inv, OpenHasHeader
<1>10. WriteStaysValid'
  BY <1>1, <1>3, <1>4, Typed DEF Inv, WriteStaysValid
<1> QED
  BY <1>6, <1>7, <1>8, <1>9, <1>10 DEF Inv

LEMMA DetachInv ==
  ASSUME Inv, NEW s \in Sessions, NEW id \in Ids, Detach(s, id)
  PROVE  Inv'
<1>1. /\ table' \in [Sessions -> [Ids -> Descriptors \cup {Detached}]]
      /\ table'[s][id] = Detached /\ table[s][id] # Detached
      /\ \A t \in Sessions, i \in Ids : t # s \/ i # id => table'[t][i] = table[t][i]
  BY DEF Inv, TypeOK, Detach, Attached
<1>2. /\ ids' \in [Sessions -> SUBSET (0 .. (SIZE - 1))]
      /\ ids'[s] = ids[s] \ {id - 1}
      /\ \A t \in Sessions : t # s => ids'[t] = ids[t]
  BY DEF Inv, TypeOK, Detach, Release, Clear
<1>3. writing[s] = NoWrite /\ UNCHANGED <<body, writing>>
  BY DEF Detach, Attached
<1>4. TypeOK'
  BY <1>1, <1>2, <1>3 DEF Inv, TypeOK
<1>5. IdsMatchTable'
  <2>1. \A i \in Ids : i - 1 = id - 1 => i = id
    BY DEF Ids
  <2> QED
    BY <1>1, <1>2, <2>1 DEF Inv, IdsMatchTable
<1>6. StaysOpenable' /\ OpenHasHeader'
  BY <1>1, <1>3 DEF Inv, StaysOpenable, OpenHasHeader
<1>7. WriteStaysValid'
  BY <1>1, <1>3, Typed DEF Inv, WriteStaysValid
<1> QED
  BY <1>4, <1>5, <1>6, <1>7 DEF Inv

LEMMA EndSessionInv ==
  ASSUME Inv, NEW s \in Sessions, EndSession(s)
  PROVE  Inv'
<1>1. /\ table' \in [Sessions -> [Ids -> Descriptors \cup {Detached}]]
      /\ \A i \in Ids : table'[s][i] = Detached
      /\ \A t \in Sessions : t # s => table'[t] = table[t]
  BY DEF Inv, TypeOK, EndSession, NoConnections
<1>2. /\ ids' \in [Sessions -> SUBSET (0 .. (SIZE - 1))]
      /\ ids'[s] = {}
      /\ \A t \in Sessions : t # s => ids'[t] = ids[t]
  BY DEF Inv, TypeOK, EndSession, Empty
<1>3. /\ writing' \in [Sessions -> {NoWrite} \cup [id : Ids, length : 1 .. MAX_WRITE]]
      /\ writing'[s] = NoWrite
      /\ \A t \in Sessions : t # s => writing'[t] = writing[t]
      /\ body' = body
  BY DEF Inv, TypeOK, EndSession
<1>4. TypeOK'
  BY <1>1, <1>2, <1>3 DEF Inv, TypeOK
<1>5. IdsMatchTable'
  BY <1>1, <1>2 DEF Inv, IdsMatchTable
<1>6. StaysOpenable' /\ OpenHasHeader'
  BY <1>1, <1>3 DEF Inv, StaysOpenable, OpenHasHeader
<1>7. WriteStaysValid'
  BY <1>1, <1>3 DEF Inv, WriteStaysValid
<1> QED
  BY <1>4, <1>5, <1>6, <1>7 DEF Inv

-----------------------------------------------------------------------------
(* Steps that change the length of a body.                                  *)

\* A file gets another valid length, or its first one.
LEMMA BodyInv ==
  ASSUME Inv, NEW f \in Files, NEW length \in Nat \cup {NoHeader},
         body' = [body EXCEPT ![f] = length], UNCHANGED <<ids, table, writing>>,
         length = NoHeader => body[f] = NoFile,
         length # NoHeader => ValidBodyLength(f, length)
  PROVE  Inv'
<1>1. /\ body' \in [Files -> Nat \cup {NoFile, NoHeader}]
      /\ body'[f] = length
      /\ \A g \in Files : g # f => body'[g] = body[g]
  BY DEF Inv, TypeOK
<1>2. TypeOK'
  BY <1>1 DEF Inv, TypeOK
<1>3. IdsMatchTable' /\ WriteStaysValid'
  BY DEF Inv, IdsMatchTable, WriteStaysValid
<1>4. StaysOpenable'
  BY <1>1 DEF Inv, StaysOpenable, ValidBodyLength
<1>5. OpenHasHeader'
  <2> SUFFICES ASSUME NEW s \in Sessions, NEW id \in Ids, table[s][id] # Detached,
                      table[s][id].target # Folder, table[s][id].open
               PROVE  body'[table[s][id].target] \in Nat
    BY DEF OpenHasHeader
  <2>1. table[s][id].target \in Files
    BY Typed DEF Descriptors
  <2>2. body[table[s][id].target] \in Nat
    BY DEF Inv, OpenHasHeader
  <2> QED
    BY <1>1, <2>1, <2>2 DEF NoFile
<1> QED
  BY <1>2, <1>3, <1>4, <1>5 DEF Inv

LEMMA OpenFailsInv ==
  ASSUME Inv, NEW s \in Sessions, NEW id \in Ids, OpenFails(s, id)
  PROVE  Inv'
<1>1. table[s][id].target \in Files
  BY Typed DEF OpenFails, Attached, Descriptors
<1> QED
  BY <1>1, BodyInv, Zenon DEF OpenFails

LEMMA TruncateInv ==
  ASSUME Inv, NEW s \in Sessions, NEW id \in Ids, Truncate(s, id)
  PROVE  Inv'
<1>1. table[s][id].target \in Files /\ table[s][id].pos \in Nat
  BY Typed DEF Truncate, OpenFile, Attached, Descriptors
<1>2. table[s][id].pos # NoHeader
  BY <1>1 DEF NoHeader
<1> QED
  BY <1>1, <1>2, BodyInv, Zenon DEF Truncate

LEMMA PutFileInv ==
  ASSUME Inv, NEW f \in Files, PutFile(f)
  PROVE  Inv'
<1>1. PropertyLength[f] \in Nat /\ MAX_DATA \in Nat
  BY VfsAssumption
<1>2. PropertyLength[f] # NoHeader /\ ValidBodyLength(f, PropertyLength[f])
  BY <1>1 DEF NoHeader, ValidBodyLength
<1> QED
  BY <1>1, <1>2, BodyInv, Zenon DEF PutFile

\* The host's operator removes a file that nobody has open.
LEMMA RemoveFileInv ==
  ASSUME Inv, NEW f \in Files, RemoveFile(f)
  PROVE  Inv'
<1> DEFINE after(d) == IF d = Detached THEN Detached ELSE [d EXCEPT !.held = @ \ {f}]
<1>1. \A d \in Descriptors : /\ after(d) \in Descriptors /\ after(d) # Detached
                            /\ after(d).target = d.target /\ after(d).open = d.open
                            /\ after(d).pos = d.pos
  BY DetachedIsNone DEF Descriptors
<1>2. after(Detached) = Detached
  OBVIOUS
<1>3. table' = [s \in Sessions |-> [id \in Ids |-> after(table[s][id])]]
  BY DEF RemoveFile
<1> HIDE DEF after
<1>4. \A s \in Sessions, id \in Ids :
        /\ table[s][id] = Detached => table'[s][id] = Detached
        /\ table[s][id] # Detached =>
             /\ table'[s][id] \in Descriptors /\ table'[s][id] # Detached
             /\ table'[s][id].target = table[s][id].target
             /\ table'[s][id].open = table[s][id].open
             /\ table'[s][id].pos = table[s][id].pos
  BY <1>1, <1>2, <1>3, Typed
<1>5. /\ body' \in [Files -> Nat \cup {NoFile, NoHeader}]
      /\ body'[f] = NoFile
      /\ \A g \in Files : g # f => body'[g] = body[g]
      /\ UNCHANGED <<ids, writing>>
  BY DEF Inv, TypeOK, RemoveFile
<1>6. TypeOK'
  <2>1. table' \in [Sessions -> [Ids -> Descriptors \cup {Detached}]]
    BY <1>3, <1>4
  <2> QED
    BY <1>5, <2>1 DEF Inv, TypeOK
<1>7. IdsMatchTable'
  BY <1>4, <1>5 DEF Inv, IdsMatchTable
<1>8. StaysOpenable'
  BY <1>5 DEF Inv, StaysOpenable
<1>9. OpenHasHeader'
  <2> SUFFICES ASSUME NEW s \in Sessions, NEW id \in Ids, table'[s][id] # Detached,
                      table'[s][id].target # Folder, table'[s][id].open
               PROVE  body'[table'[s][id].target] \in Nat
    BY DEF OpenHasHeader
  <2>1. /\ table[s][id] # Detached /\ table[s][id].target # Folder /\ table[s][id].open
        /\ table'[s][id].target = table[s][id].target
    BY <1>4
  <2>2. table[s][id].target \in Files \ {f}
    BY <2>1, Typed DEF RemoveFile, Descriptors
  <2> QED
    BY <1>5, <2>1, <2>2 DEF Inv, OpenHasHeader
<1>10. WriteStaysValid'
  <2> SUFFICES ASSUME NEW s \in Sessions, writing[s] # NoWrite
               PROVE  ValidWrite(table'[s][writing[s].id], writing[s].length)
    BY <1>5 DEF WriteStaysValid
  <2>1. PICK d, e : d = table[s][writing[s].id] /\ e = table'[s][writing[s].id]
    OBVIOUS
  <2>2. ValidWrite(d, writing[s].length)
    BY <2>1 DEF Inv, WriteStaysValid
  <2>3. writing[s].id \in Ids
    BY DEF Inv, TypeOK
  <2>4. d # Detached
    BY <2>2 DEF ValidWrite
  <2>5. e # Detached /\ e.target = d.target /\ e.open = d.open /\ e.pos = d.pos
    BY <1>4, <2>1, <2>3, <2>4
  <2>6. ValidWrite(e, writing[s].length)
    BY <2>2, <2>5 DEF ValidWrite
  <2> QED
    BY <2>1, <2>6
<1> QED
  BY <1>6, <1>7, <1>8, <1>9, <1>10 DEF Inv

-----------------------------------------------------------------------------
(* The two halves of a write.                                               *)

LEMMA CheckWriteInv ==
  ASSUME Inv, NEW s \in Sessions, NEW id \in Ids, NEW n \in 1 .. MAX_WRITE,
         CheckWrite(s, id, n)
  PROVE  Inv'
<1> DEFINE d == table[s][id]
<1>1. d \in Descriptors /\ OpenFile(s, id) /\ d # Detached
  BY Typed DEF CheckWrite, OpenFile, Attached
<1>2. d.pos \in Nat /\ d.target \in Files /\ body[d.target] \in Nat /\ n \in Nat
  BY <1>1, VfsAssumption DEF Descriptors, OpenFile, Inv, OpenHasHeader
<1>3. d.pos + n <= PropertyLength[d.target] + MAX_DATA
  <2> DEFINE end == d.pos + n
  <2>1. end \in Int /\ body[d.target] \in Int
    BY <1>2
  <2>2. Max({end, body[d.target]}) <= PropertyLength[d.target] + MAX_DATA
    BY DEF CheckWrite, ValidBodyLength
  <2>3. PropertyLength[d.target] + MAX_DATA \in Int
    <3>1. PropertyLength[d.target] \in Nat /\ MAX_DATA \in Nat
      BY <1>2, LimitsAreNatural
    <3> QED
      BY <3>1
  <2> HIDE DEF end
  <2>4. Max({end, body[d.target]}) >= end /\ Max({end, body[d.target]}) \in Int
    BY <2>1, MaxOfTwo, Zenon
  <2>5. end <= PropertyLength[d.target] + MAX_DATA
    BY <2>1, <2>2, <2>3, <2>4
  <2> QED
    BY <2>5 DEF end
<1>4. /\ writing' \in [Sessions -> {NoWrite} \cup [id : Ids, length : 1 .. MAX_WRITE]]
      /\ writing'[s] = [id |-> id, length |-> n]
      /\ \A t \in Sessions : t # s => writing'[t] = writing[t]
      /\ UNCHANGED <<body, ids, table>>
  BY DEF Inv, TypeOK, CheckWrite
<1>5. TypeOK' /\ IdsMatchTable' /\ StaysOpenable' /\ OpenHasHeader'
  BY <1>4 DEF Inv, TypeOK, IdsMatchTable, StaysOpenable, OpenHasHeader
<1>6. WriteStaysValid'
  <2> SUFFICES ASSUME NEW t \in Sessions, writing'[t] # NoWrite
               PROVE  ValidWrite(table[t][writing'[t].id], writing'[t].length)
    BY <1>4, Zenon DEF WriteStaysValid
  <2>1. CASE t = s
    <3>1. writing'[t].id = id /\ writing'[t].length = n
      BY <1>4, <2>1
    <3> QED
      BY <1>1, <1>3, <2>1, <3>1 DEF OpenFile, ValidWrite
  <2>2. CASE t # s
    BY <1>4, <2>2 DEF Inv, WriteStaysValid
  <2> QED
    BY <2>1, <2>2
<1> QED
  BY <1>5, <1>6 DEF Inv

\* A file that has a header has a length it can be opened with.
LEMMA OpenableBody ==
  ASSUME Inv, NEW f \in Files, body[f] \in Nat
  PROVE  PropertyLength[f] <= body[f] /\ body[f] <= PropertyLength[f] + MAX_DATA
<1>1. body[f] \notin {NoFile, NoHeader}
  BY DEF NoFile, NoHeader
<1> QED
  BY <1>1 DEF Inv, StaysOpenable

\* A session has written: one body, one position and its own check are all that
\* changes.
LEMMA WroteInv ==
  ASSUME Inv, NEW s \in Sessions, NEW id \in Ids, NEW f \in Files, NEW length \in Nat,
         PropertyLength[f] <= length, length <= PropertyLength[f] + MAX_DATA,
         NEW d \in Descriptors, d = table[s][id], d.target = f, d.open,
         NEW e \in Descriptors, e.target = f, e.open,
         body' = [body EXCEPT ![f] = length],
         table' = [table EXCEPT ![s][id] = e],
         writing' = [writing EXCEPT ![s] = NoWrite],
         ids' = ids
  PROVE  Inv'
<1>1. /\ body' \in [Files -> Nat \cup {NoFile, NoHeader}]
      /\ body'[f] = length
      /\ \A g \in Files : g # f => body'[g] = body[g]
  BY DEF Inv, TypeOK
<1>2. /\ table' \in [Sessions -> [Ids -> Descriptors \cup {Detached}]]
      /\ table'[s][id] = e
      /\ \A t \in Sessions, i \in Ids : t # s \/ i # id => table'[t][i] = table[t][i]
  BY DEF Inv, TypeOK
<1>3. /\ writing' \in [Sessions -> {NoWrite} \cup [id : Ids, length : 1 .. MAX_WRITE]]
      /\ writing'[s] = NoWrite
      /\ \A t \in Sessions : t # s => writing'[t] = writing[t]
  BY DEF Inv, TypeOK
<1>4. d # Detached /\ e # Detached
  BY DetachedIsNone
<1>5. TypeOK'
  BY <1>1, <1>2, <1>3 DEF Inv, TypeOK
<1>6. IdsMatchTable'
  <2>1. \A t \in Sessions, i \in Ids : table'[t][i] = Detached <=> table[t][i] = Detached
    BY <1>2, <1>4
  <2> QED
    BY <2>1 DEF Inv, IdsMatchTable
<1>7. StaysOpenable'
  BY <1>1 DEF Inv, StaysOpenable
<1>8. OpenHasHeader'
  <2> SUFFICES ASSUME NEW t \in Sessions, NEW i \in Ids, table'[t][i] # Detached,
                      table'[t][i].target # Folder, table'[t][i].open
               PROVE  body'[table'[t][i].target] \in Nat
    BY DEF OpenHasHeader
  <2>1. CASE t = s /\ i = id
    BY <1>1, <1>2, <2>1
  <2>2. CASE t # s \/ i # id
    <3>1. table'[t][i] = table[t][i]
      BY <1>2, <2>2
    <3>2. PICK g : g = table[t][i].target
      OBVIOUS
    <3>3. g \in Files /\ body[g] \in Nat
      BY <3>1, <3>2, Typed DEF Descriptors, Inv, OpenHasHeader
    <3> QED
      BY <1>1, <3>1, <3>2, <3>3
  <2> QED
    BY <2>1, <2>2
<1>9. WriteStaysValid'
  <2> SUFFICES ASSUME NEW t \in Sessions, writing'[t] # NoWrite
               PROVE  ValidWrite(table'[t][writing'[t].id], writing'[t].length)
    BY DEF WriteStaysValid
  <2>1. t # s /\ writing'[t] = writing[t] /\ writing[t] # NoWrite
    BY <1>3
  <2>2. writing[t].id \in Ids
    BY <2>1 DEF Inv, TypeOK
  <2>3. table'[t][writing'[t].id] = table[t][writing[t].id]
    BY <1>2, <2>1, <2>2
  <2> QED
    BY <2>1, <2>3 DEF Inv, WriteStaysValid
<1> QED
  BY <1>5, <1>6, <1>7, <1>8, <1>9 DEF Inv

\* The body a write leaves is no shorter than before and ends where it ended or
\* where the write ends.
LEMMA WriteInv ==
  ASSUME Inv, NEW s \in Sessions, NEW count \in 0 .. MAX_WRITE, Write(s, count)
  PROVE  Inv'
<1>1. PICK id, checked : id = writing[s].id /\ checked = writing[s].length
  OBVIOUS
<1>2. PICK d : d = table[s][id]
  OBVIOUS
<1>3. PICK f : f = d.target
  OBVIOUS
<1>4. id \in Ids /\ checked \in 1 .. MAX_WRITE /\ writing[s] # NoWrite
  BY <1>1 DEF Inv, TypeOK, Write
<1>5. d # Detached /\ f # Folder /\ d.open /\ d.pos + checked <= PropertyLength[f] + MAX_DATA
  BY <1>1, <1>2, <1>3, <1>4, Zenon DEF Inv, WriteStaysValid, ValidWrite
<1>6. d \in Descriptors
  BY <1>2, <1>4, <1>5, Typed
<1>7. d.pos \in Nat /\ f \in Files
  BY <1>3, <1>5, <1>6 DEF Descriptors
<1>8. body[f] \in Nat
  BY <1>2, <1>3, <1>4, <1>5 DEF Inv, OpenHasHeader
<1>9. PropertyLength[f] \in Nat /\ MAX_DATA \in Nat /\ MAX_WRITE \in Nat
  BY <1>7, LimitsAreNatural
<1>10. PropertyLength[f] <= body[f] /\ body[f] <= PropertyLength[f] + MAX_DATA
  BY <1>7, <1>8, OpenableBody
<1>11. PICK e : e = [d EXCEPT !.pos = d.pos + count]
  BY Zenon
<1>12. PICK length : length = IF count = 0 THEN body[f] ELSE Max({body[f], d.pos + count})
  OBVIOUS
<1>13. /\ body' = [body EXCEPT ![f] = length]
       /\ table' = [table EXCEPT ![s][id] = e]
       /\ writing' = [writing EXCEPT ![s] = NoWrite]
       /\ ids' = ids
       /\ count <= checked
  BY <1>1, <1>2, <1>3, <1>11, <1>12, Zenon DEF Write, SetDescriptor
<1>14. count \in Nat /\ checked \in Nat
  BY <1>4, <1>9
<1>15. /\ length \in Nat /\ PropertyLength[f] <= length
       /\ length <= PropertyLength[f] + MAX_DATA
  <2> DEFINE least == PropertyLength[f]
             limit == PropertyLength[f] + MAX_DATA
             was == body[f]
             pos == d.pos
  <2>1. least \in Nat /\ was \in Nat /\ pos \in Nat
    BY <1>7, <1>8, <1>9
  <2>2. limit \in Nat
    BY <1>9
  <2>3. /\ count <= checked /\ pos + checked <= limit /\ least <= was /\ was <= limit
        /\ length = IF count = 0 THEN was ELSE Max({was, pos + count})
    BY <1>5, <1>10, <1>12, <1>13
  <2> SUFFICES length \in Nat /\ least <= length /\ length <= limit
    OBVIOUS
  <2> HIDE DEF least, limit, was, pos
  <2>4. CASE count = 0
    BY <2>1, <2>3, <2>4
  <2>5. CASE count # 0
    <3>1. PICK end \in Nat : end = pos + count /\ end <= limit
      BY <1>14, <2>1, <2>2, <2>3
    <3>2. length = Max({was, end})
      BY <2>3, <2>5, <3>1
    <3>3. length \in {was, end} /\ length >= was
      <4>1. was \in Int /\ end \in Int
        BY <2>1, <3>1
      <4>2. Max({was, end}) \in {was, end} /\ Max({was, end}) >= was
        BY <4>1, MaxOfTwo
      <4> QED
        BY <3>2, <4>2
    <3>4. length \in Nat /\ least <= length /\ length <= limit
      BY <2>1, <2>2, <2>3, <3>1, <3>3
    <3> QED
      BY <3>4
  <2> QED
    BY <2>4, <2>5
<1>16. e \in Descriptors /\ e.target = f /\ e.open
  <2>1. PICK end \in Nat : end = d.pos + count
    BY <1>7, <1>14
  <2>2. e = [d EXCEPT !.pos = end]
    BY <1>11, <2>1
  <2> QED
    BY <1>3, <1>5, <1>6, <2>2 DEF Descriptors
<1> QED
  BY <1>2, <1>3, <1>4, <1>5, <1>6, <1>7, <1>13, <1>15, <1>16, WroteInv, Zenon

-----------------------------------------------------------------------------

LEMMA RequestInv ==
  ASSUME Inv, NEW s \in Sessions, Request(s)
  PROVE  Inv'
BY AttachInv, DetachInv, OpenInv, OpenFailsInv, CloseInv, TruncateInv, CheckWriteInv,
   ReadInv, SeekInv, ReadDirPageInv, WriteInv DEF Request

LEMMA NextInv == Inv /\ [Next]_vars => Inv'
<1> SUFFICES ASSUME Inv, [Next]_vars
             PROVE  Inv'
  OBVIOUS
<1>1. CASE Next
  BY <1>1, RequestInv, EndSessionInv, PutFileInv, RemoveFileInv DEF Next
<1>2. CASE UNCHANGED vars
  BY <1>2 DEF vars, Inv, TypeOK, IdsMatchTable, StaysOpenable, OpenHasHeader, WriteStaysValid
<1> QED
  BY <1>1, <1>2

LEMMA InvHolds == Spec => []Inv
BY InitInv, NextInv, PTL DEF Spec

\* Every variable of the file service keeps its type.
THEOREM TypeCorrect == Spec => []TypeOK
<1>1. Inv => TypeOK
  BY DEF Inv
<1> QED
  BY <1>1, InvHolds, PTL

\* The bitmap and the table of a session agree after any sequence of attaches,
\* detaches and ended sessions (vipc/vfs/mod.rs:313-331, 339-349).
THEOREM IdsAgree == Spec => []IdsMatchTable
<1>1. Inv => IdsMatchTable
  BY DEF Inv
<1> QED
  BY <1>1, InvHolds, PTL

\* However many sessions write and truncate one file, each between another's
\* check and its write, its body keeps a length it can be opened with
\* (vfs/file/mod.rs:219-231).
THEOREM BodiesStayValid == Spec => []StaysOpenable
<1>1. Inv => StaysOpenable
  BY DEF Inv
<1> QED
  BY <1>1, InvHolds, PTL

=============================================================================
