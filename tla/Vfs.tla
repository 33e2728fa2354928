--------------------------------- MODULE Vfs --------------------------------
(***************************************************************************)
(* The file service: each session's table of connections, the files and    *)
(* directories they are attached to, and the shared file system below.     *)
(*                                                                         *)
(* Source: src/Server/src/vipc/vfs/mod.rs (the table), vfs/fsproxy.rs (the *)
(* backend) and vfs/file/mod.rs (a file with its header).  Of a file's     *)
(* contents only the length of the body is kept.  A write compares the     *)
(* length the body would have with its limits and then writes, and another *)
(* session may come between.  Requests that fail before they change        *)
(* anything are not actions.                                               *)
(***************************************************************************)
EXTENDS IdMap

CONSTANTS
  Sessions,
  Files,            \* file names of one directory, numbered in their order
  PropertyLength,   \* property_length of the header of each file
  NameLength,       \* bytes of a file's name on the host
  PREAMBLE_LEN,     \* DIRECTORY_ENTRY_PREAMBLE_LEN: 9
  MAX_NAME_LENGTH,  \* 80
  PAGE_SIZE,        \* VFS_PAGE_SIZE and VFS_MAX_READ_LENGTH: 504
  HEADER_LEN,       \* VfsResponseHeader: 8
  LENGTH_LEN,       \* the u16 length of a response's data: 2
  STATUS_LEN,       \* VfsGetStatusBody: 15
  DESCRIPTOR_LEN,   \* VFS_DESCRIPTOR_LENGTH: 198
  MAX_MESSAGE,      \* VFS_MAX_MESSAGE_LENGTH: 514
  MAX_OBJECTS,      \* VFS_MAX_DIRECTORY_OBJECTS_PER_PAGE: 30
  MAX_WRITE,        \* VFS_MAX_WRITE_LENGTH: 504
  MAX_DATA,         \* u32::MAX: the data of a body besides its properties
  Lengths,          \* lengths clients ask for in a read or a page
  MaxPos            \* bound: positions a client seeks to

ASSUME VfsAssumption ==
  /\ Files \subseteq Nat \ {0} /\ IsFiniteSet(Files)
  /\ PropertyLength \in [Files -> Nat]
  /\ Lengths \subseteq Nat
  /\ NameLength \in [Files -> Nat \ {0}]
  /\ {PREAMBLE_LEN, MAX_NAME_LENGTH, PAGE_SIZE, MAX_OBJECTS, MAX_WRITE, MAX_DATA, MaxPos,
      HEADER_LEN, LENGTH_LEN, STATUS_LEN, DESCRIPTOR_LEN, MAX_MESSAGE} \subseteq Nat
  /\ PREAMBLE_LEN + MAX_NAME_LENGTH <= PAGE_SIZE
  /\ {STATUS_LEN, DESCRIPTOR_LEN} \subseteq 0 .. PAGE_SIZE
  /\ HEADER_LEN + LENGTH_LEN + PAGE_SIZE <= MAX_MESSAGE

VARIABLES
  body,      \* the body length of each file, or NoHeader, or NoFile
  ids,       \* connection_ids of each session
  table,     \* files: the descriptor of each connection id, or Detached
  writing    \* the write of a session that has been checked, or NoWrite

vars == <<body, ids, table, writing>>

NoFile == -2
NoHeader == -1     \* created by an open, without a header
Present == {f \in Files : body[f] # NoFile}

Folder == 0        \* the directory, as the target of an attachment
Detached == [target |-> -1]
NoWrite == [id |-> NoId]

\* VfsFileDescriptor and FsAttachment; "held" to "ended" record what the
\* client has seen of a directory: the objects that were there all along, the ones
\* shown, the ones shown again, and whether an empty page came.
Attachment(target) ==
  [target |-> target, open |-> FALSE, pos |-> 0, listed |-> FALSE, listing |-> {},
   next |-> 0, held |-> {}, shown |-> {}, again |-> {}, ended |-> FALSE]

NoConnections == [id \in Ids |-> Detached]

Init ==
  /\ body \in [Files -> {NoFile, NoHeader}]
  /\ ids = [s \in Sessions |-> Empty]
  /\ table = [s \in Sessions |-> NoConnections]
  /\ writing = [s \in Sessions |-> NoWrite]

-----------------------------------------------------------------------------
(* Attaching and detaching.                                                 *)

Attach(s, target) ==
  LET id == FindFree(ids[s]) IN
  /\ writing[s] = NoWrite
  /\ id # NoId
  /\ table' = [table EXCEPT ![s][id] = Attachment(target)]
  /\ ids' = [ids EXCEPT ![s] = Set(@, id)]
  /\ UNCHANGED <<body, writing>>

\* Faulty variant: the id of a detached connection stays taken.
ReleaseNone(map, id) == map

Release(map, id) == Clear(map, id)

Attached(s, id) == writing[s] = NoWrite /\ table[s][id] # Detached

\* An open handle is closed with it.
Detach(s, id) ==
  /\ Attached(s, id)
  /\ table' = [table EXCEPT ![s][id] = Detached]
  /\ ids' = [ids EXCEPT ![s] = Release(@, id)]
  /\ UNCHANGED <<body, writing>>

\* The session ends and drops the service.
EndSession(s) ==
  /\ table' = [table EXCEPT ![s] = NoConnections]
  /\ ids' = [ids EXCEPT ![s] = Empty]
  /\ writing' = [writing EXCEPT ![s] = NoWrite]
  /\ UNCHANGED body

-----------------------------------------------------------------------------
(* Opening and closing.                                                     *)

\* Faulty variant: a body may be cut inside the properties.
ValidAnyShort(f, length) == length <= PropertyLength[f] + MAX_DATA

\* validate_body_length
ValidBodyLength(f, length) ==
  PropertyLength[f] <= length /\ length <= PropertyLength[f] + MAX_DATA

SetDescriptor(s, id, descriptor) == table' = [table EXCEPT ![s][id] = descriptor]

Open(s, id) ==
  LET d == table[s][id] IN
  /\ Attached(s, id) /\ ~d.open
  /\ d.target \in {Folder} \cup {f \in Files : ValidBodyLength(f, body[f])}
  /\ SetDescriptor(s, id, [d EXCEPT !.open = TRUE])
  /\ UNCHANGED <<body, ids, writing>>

\* The file is created before its header is read, and stays when that fails.
OpenFails(s, id) ==
  LET f == table[s][id].target IN
  /\ Attached(s, id) /\ ~table[s][id].open
  /\ f # Folder /\ body[f] = NoFile
  /\ body' = [body EXCEPT ![f] = NoHeader]
  /\ UNCHANGED <<ids, table, writing>>

Close(s, id) ==
  /\ Attached(s, id) /\ table[s][id].open
  /\ SetDescriptor(s, id, [table[s][id] EXCEPT !.open = FALSE, !.pos = 0])
  /\ UNCHANGED <<body, ids, writing>>

-----------------------------------------------------------------------------
(* Reading, seeking, writing and truncating an open file.                   *)

OpenFile(s, id) ==
  Attached(s, id) /\ table[s][id].open /\ table[s][id].target # Folder

MoveTo(s, id, pos) ==
  SetDescriptor(s, id, [table[s][id] EXCEPT !.pos = pos]) /\ UNCHANGED <<body, ids, writing>>

\* bounded_length
BoundedLength(length) == Min({length, PAGE_SIZE})

\* What is left of the body behind the position, as much as was asked for.
Available(d, length) == Max({0, Min({BoundedLength(length), body[d.target] - d.pos})})

Read(s, id, length) ==
  LET d == table[s][id] IN
  /\ OpenFile(s, id)
  /\ MoveTo(s, id, d.pos + Available(d, length))

\* Absolute, forward, backward and from the end; before the start is refused.
SeekTargets(s, id, n) ==
  {n, table[s][id].pos + n, table[s][id].pos - n, body[table[s][id].target] - n}

Seek(s, id, n) ==
  /\ OpenFile(s, id)
  /\ \E target \in SeekTargets(s, id, n) \cap (0 .. MaxPos) : MoveTo(s, id, target)

CheckWrite(s, id, n) ==
  LET d == table[s][id] IN
  /\ OpenFile(s, id)
  /\ ValidBodyLength(d.target, Max({d.pos + n, body[d.target]}))
  /\ writing' = [writing EXCEPT ![s] = [id |-> id, length |-> n]]
  /\ UNCHANGED <<body, ids, table>>

\* All the bytes are written, or the host fails after some of them.
Write(s, count) ==
  LET id == writing[s].id
      d == table[s][id]
      end == d.pos + count
  IN
  /\ writing[s] # NoWrite
  /\ count <= writing[s].length
  /\ body' = [body EXCEPT ![d.target] = IF count = 0 THEN @ ELSE Max({@, end})]
  /\ SetDescriptor(s, id, [d EXCEPT !.pos = end])
  /\ writing' = [writing EXCEPT ![s] = NoWrite]
  /\ UNCHANGED ids

Truncate(s, id) ==
  LET d == table[s][id] IN
  /\ OpenFile(s, id)
  /\ ValidBodyLength(d.target, d.pos)
  /\ body' = [body EXCEPT ![d.target] = d.pos]
  /\ UNCHANGED <<ids, table, writing>>

-----------------------------------------------------------------------------
(* Reading a directory page by page.                                        *)

\* directory_entries leaves out what has too long a name.
Entries == {f \in Present : NameLength[f] <= MAX_NAME_LENGTH}

EntryLength(f) == PREAMBLE_LEN + NameLength[f]

EntriesLength == [set \in SUBSET Files |-> MapThenSumSet(EntryLength, set)]

\* Faulty variant: every page is taken from a listing of its own.
ListingPerPage(d) == Entries

\* The listing is taken with the first page and kept.
Listing(d) == IF d.listed THEN d.listing ELSE Entries

\* Faulty variant: a page of many entries has no limit of its own.
PageBytesUncapped(n) == n * (PREAMBLE_LEN + MAX_NAME_LENGTH)

PageBytes(n) == Min({n * (PREAMBLE_LEN + MAX_NAME_LENGTH), PAGE_SIZE})

\* The entries from a position on, in their order, as many as a page of so many
\* entries holds.
Page(listing, next, n) ==
  LET place(f) == Cardinality({g \in listing : g < f})
      count == Min({n, MAX_OBJECTS})
      upTo(k) == {f \in listing : next <= place(f) /\ place(f) < next + k}
      fits(k) == EntriesLength[upTo(k)] <= PageBytes(count)
  IN upTo(Max({k \in 0 .. count : fits(k)}))

ReadDirPage(s, id, n) ==
  LET d == table[s][id]
      listing == Listing(d)
      page == Page(listing, d.next, n)
  IN
  /\ Attached(s, id) /\ d.target = Folder /\ ~d.ended
  /\ SetDescriptor(s, id,
       [d EXCEPT !.listed = TRUE, !.listing = listing, !.next = @ + Cardinality(page),
                 !.held = IF d.listed THEN @ ELSE Entries,
                 !.shown = @ \cup page, !.again = @ \cup (d.shown \cap page),
                 !.ended = n > 0 /\ page = {}])
  /\ UNCHANGED <<body, ids, writing>>

-----------------------------------------------------------------------------
(* Answers that change nothing.                                             *)

\* The bytes of data in the answers to get status, read, read descriptor and
\* read directory page with a length.
DataLengths(s, id, n) ==
  LET d == table[s][id] IN
  {STATUS_LEN} \cup
  (IF OpenFile(s, id) THEN {Available(d, n)} ELSE {}) \cup
  (IF d.open THEN {Min({n, DESCRIPTOR_LEN})} ELSE {}) \cup
  (IF d.target = Folder THEN {EntriesLength[Page(Listing(d), d.next, n)]} ELSE {})

-----------------------------------------------------------------------------
(* The host's operator puts files into the directory and removes files that *)
(* nobody has open.                                                         *)

PutFile(f) ==
  /\ body[f] = NoFile
  /\ body' = [body EXCEPT ![f] = PropertyLength[f]]
  /\ UNCHANGED <<ids, table, writing>>

RemoveFile(f) ==
  /\ f \in Present
  /\ \A s \in Sessions, id \in Ids : ~(table[s][id] # Detached /\ table[s][id].target = f
                                         /\ table[s][id].open)
  /\ body' = [body EXCEPT ![f] = NoFile]
  /\ table' = [s \in Sessions |-> [id \in Ids |->
                 IF table[s][id] = Detached THEN Detached
                 ELSE [table[s][id] EXCEPT !.held = @ \ {f}]]]
  /\ UNCHANGED <<ids, writing>>

-----------------------------------------------------------------------------

Request(s) ==
  \/ \E target \in Files \cup {Folder} : Attach(s, target)
  \/ \E id \in Ids :
       \/ Detach(s, id) \/ Open(s, id) \/ OpenFails(s, id) \/ Close(s, id) \/ Truncate(s, id)
       \/ \E n \in 1 .. MAX_WRITE : CheckWrite(s, id, n)
       \/ \E n \in Lengths : Read(s, id, n)
       \/ \E n \in 0 .. MaxPos : Seek(s, id, n)
       \/ \E n \in Lengths : ReadDirPage(s, id, n)
  \/ \E count \in 0 .. MAX_WRITE : Write(s, count)

Next ==
  \/ \E s \in Sessions : Request(s) \/ EndSession(s)
  \/ \E f \in Files : PutFile(f) \/ RemoveFile(f)

Spec == Init /\ [][Next]_vars

-----------------------------------------------------------------------------

Descriptors ==
  [target : Files \cup {Folder}, open : BOOLEAN, pos : Nat, listed : BOOLEAN,
   listing : SUBSET Files, next : Nat, held : SUBSET Files, shown : SUBSET Files,
   again : SUBSET Files, ended : BOOLEAN]

\* Every variable has its type.
TypeOK ==
  /\ body \in [Files -> Nat \cup {NoFile, NoHeader}]
  /\ ids \in [Sessions -> SUBSET (0 .. (SIZE - 1))]
  /\ table \in [Sessions -> [Ids -> Descriptors \cup {Detached}]]
  /\ writing \in [Sessions -> {NoWrite} \cup [id : Ids, length : 1 .. MAX_WRITE]]

\* The bitmap and the table of a session agree: an id is taken exactly while a
\* connection has it, so no id is lost and none is given out twice
\* (vipc/vfs/mod.rs:313-331, 339-349).
IdsMatchTable ==
  \A s \in Sessions : ids[s] = {id - 1 : id \in {i \in Ids : table[s][i] # Detached}}

\* Whatever two sessions write and truncate at the same time, at positions before
\* or behind the end, a file that can be opened never gets a body shorter than its
\* properties or longer than its limit, so it can be opened again
\* (vfs/file/mod.rs:219-231).
StaysOpenable ==
  \A f \in Files : body[f] \notin {NoFile, NoHeader} =>
    PropertyLength[f] <= body[f] /\ body[f] <= PropertyLength[f] + MAX_DATA

\* A walk through a directory shows no object twice, and one that came to an empty
\* page has shown every object that was there all along, although "an object
\* created or removed between two pages would shift every later index"
\* (vfs/fsproxy.rs:474-478).
WalkIsFaithful ==
  \A s \in Sessions, id \in Ids : table[s][id] # Detached =>
    LET d == table[s][id] IN
    d.again = {} /\ (d.ended => d.held \subseteq d.shown)

\* Whatever length a client asks for, no answer is longer than the message the
\* client's buffer takes: write_into would refuse it and end the session
\* (vipc/vfs/protocol.rs:616-623; the limits are kept by read, read_desc and
\* read_dir_page each).
RepliesFit ==
  \A s \in Sessions, id \in Ids, n \in Lengths : Attached(s, id) =>
    \A data \in DataLengths(s, id, n) : HEADER_LEN + LENGTH_LEN + data <= MAX_MESSAGE

=============================================================================
