# A verification project for the GRiD Server reimplementation

The server in `src/Server` gives GRiD Compass computers of the 1980s the services
of the original GRiD Server over TCP. This directory models it in TLA+, checks the
models with TLC on small instances and proves theorems about them with TLAPS.

## The system

| Part | Source (`src/Server/src/`) | What it does |
|---|---|---|
| Accept loop | `server/mod.rs` 40-135 | takes a connection id from a shared pool, starts a worker thread |
| Session | `server/mod.rs` 137-470 | reads PDL frames, takes data frames in sequence, signs on and off, hands messages to the services |
| Frames | `server/frame.rs`, `raw_frame.rs`, `data_frame.rs` | byte formats, sequence numbers |
| VIPC | `vipc/mod.rs` | picks the service of a message |
| File service | `vipc/vfs`, `vfs/` | attachments and handles of a session over the host's file system |
| File ids | `vfs/dirmanager.rs` | gives every object of a disk a constant id, kept in an extended attribute |
| Mail | `vipc/mail`, `db/mailbox.rs` | fragmented requests, the messages table |
| Administration ("sentry") | `vipc/sentry.rs` | listing and changing companies, groups and users |
| Database | `db/` | one SQLite connection behind a mutex |
| Web frontend | `web/` | a thread of its own that shows the database and creates users |
| Client link | `src/GRiD Sources/GRiDLink` | the PL/M data link of the peer: retries, acknowledgements, one receive buffer |

Workers, the accept loop and the web thread run concurrently. They share the
database, the connection-id pool, the file-id maps and the host's file system; each
lock is held for one statement or lookup, so a handler that looks something up and
then writes does so in two critical sections, with others in between. That is where
most of the hazards listed in `PROJECT.json` lie; the others are in the link, where
frames are lost and repeated, and in what survives a restart.

## Modules

One module per component; `MC*` modules and `.cfg` files instantiate them for TLC,
`*Proofs` modules hold the theorems. Operators marked "Faulty variant" are not used
by any specification: each is a plausible bug in the definition that follows it, and
putting it in that definition's place makes one property fail.

**The link.** `PdlFrame` has frames and the arithmetic of sequence numbers modulo
`SeqMod` (256 in the code). `Session` is a worker: its variables are the fields of
the Rust struct (`alive`, `vipc`, `last_seq_number`, `recv_sequence`), one action per
arm of `process_frame_` and per data frame. What a service answers is left open: any
number of replies up to `MaxReplies`, or an error. `AnyClient` joins it with a peer
that sends any frame at any time. `LinkClient` is the GRiDLink state machine, with
timers that may expire whenever they run, the bounded retries and the single receive
buffer. `Link` joins the two by a line that loses or damages `MaxLoss` frames.
`RequestChannel` is what the pair promises: a channel that takes each request at most
once and in order. `Link` implements it under the mapping given in `Link.tla`.

**The wire.** `RawFrame` has the stuffing and the checksum of a frame and the reader
that looks for its start and its end; `Tlv` the tagged records; `Bytes` the primitive
encodings. `Requests` unwraps a frame to the request in it, down to the file requests of
`VfsRequests` and the mail and broadcast requests of `MailRequests`; the payload of an
administration request is kept as it is. `Wire` joins an encoder written from the
parsers with a line that changes, loses or adds bytes, and a client that cuts a frame
or a payload short or appends to it. Here bytes are bytes; everywhere else frames and
requests are values.

**Ids.** `IdMap` is the bitmap of `shared/bitmap.rs` with its search by chunk, byte
and bit. `ConnectionPool` is the accept loop around one. `FileIds` is
`allocate_file_id`: threads interleave at every file system call, the first read takes
no lock, the scan of a disk can fail, objects come and go, and a crash keeps the
attributes and loses the maps.

**Accounts.** `Directory` has the three tables of `db/users.rs` with their unique
indexes, foreign keys, reuse of row ids and the ordered listing that cursors index.
`Sentry` has every command that changes them. `update`, `delete` and the two adds with
a parent are two steps, the lookup and the write, because the code releases the
database in between. A delete is up to three statements without a transaction, and may
stop after any of them. `Query` is the row a session may read. The web page's user
creation and a restart are actions too.
`Listing` adds the row-by-row walk of an administrator (commands 0x1e and 0x1f).

**Mail.** `Mail` has the messages table, sending (lookup, then insert, which
may fail), requests put together from fragments per channel, and reading new mail (find,
then mark). Requests that only read are not distinguished. `accept_outgoing` is reached only from the
tests so far; it is modelled as the operation it is.

**Files.** `Vfs` has the per-session table of attachments and handles and the shared
files, of which it keeps the length of the body. A write is two steps, as
`GRiDFile::write` compares the length and then writes; the host may fail after any
number of bytes. Directory pages come from the listing taken with the first page. The
host's operator adds files, and removes those that nobody has open. The lengths of
answers are part of it.

**Disks and paths.** `GridPath` has the grammar of paths and of file names, over symbols
instead of characters. `Tree` maps the device of a path to a disk of the session's
account and the rest to a host path, and has the directories and files that attaching
and opening create there.

## Runs

| Run | States | What it shows |
|---|---|---|
| `session_gate` | 18,057 | whatever a client sends, services answer and connects succeed only between a successful sign-on and the next sign-off |
| `link_exactly_once` | 251,023 | a lossy line: requests exactly once in order (refinement of `RequestChannel`), responses in order, no protocol error at the client, every write ends |
| `link_responses_lost` (violated) | | a response that finds the receive buffer taken is lost for good |
| `wire` | 85,471 | what the worker takes off a damaged line are requests as they were sent; an undamaged line delivers all of them and ends only on request, with up to `MAX_FRAME_SIZE` stray bytes other than `DLE` between frames; a damaged byte, or other stray bytes, cost the session or at most one frame |
| `connection_pool` | 816 | ids distinct, none leaks however a session ends, only a full pool refuses |
| `file_ids` | 4,356 | ids of a disk distinct and constant, every request ends |
| `sentry` | 134,829 | no orphans, one record per cursor, writes within what the session's account administers and grants within its authority, nothing editable that cannot be read |
| `listing` | 8,472 | a walk ends, shows every visible row and none twice, whichever of the two requests it mixes |
| `mail` | 480,635 | correspondents exist, mail between existing accounts is stored, no request is made of two connections' fragments |
| `mail_owner` (violated) | | a session whose account was deleted serves the mailbox of the account that got its row id |
| `vfs` | 238,273 | ids and table agree, concurrent writes and truncates leave every file openable, a directory walk is complete and free of duplicates, no answer outgrows a message |
| `tree` | 71,772 | what a path addresses lies in a disk of its account, other users' disks stay out of reach, what is listed can be addressed but for the names no path can carry, nothing with contents is overwritten |

The two violated runs are disagreements between the code and a comment, or the server it
reimplements; `PROJECT.json` quotes the lines.

### Bounds

- Sequence numbers modulo 3: the protocol has one frame outstanding in each direction,
  so two numbers in a row and one more tell all cases apart; calls start at 2, so the
  numbers wrap. Two writes, one lost or damaged frame and one retry of each kind reach
  every pairing of a loss with a frame of an exchange. One call: every call has a new
  session and a new line.
- Bitmaps of one to five ids, laid out so that chunks, bytes and the unused last bit
  all matter; the pool has one client more than ids. `Vfs` gives a session one id, which
  is enough to run out and to reuse it.
- Two sessions wherever sessions interleave: every hazard is between one handler's two
  steps and one other writer. Row ids up to 2 or 3, so that ids are reused.
- `MaxWrites` bounds the changes of the directory; four are enough to delete a parent
  between lookup and insert and to create another with its id.
- `Vfs` has three objects, of which one has a name too long for an entry, pages that
  hold one entry, messages of five bytes, and reads and seeks of up to three, so every
  limit is met at once. The real sizes keep the relations the module assumes, such as
  `PREAMBLE_LEN + MAX_NAME_LENGTH <= PAGE_SIZE`.
- `wire` sends up to two requests, of every kind and with bytes that look like markers,
  and has one mishap: a changed or lost byte, a run of stray bytes, or one spoiled frame.
  A run is one byte, `MAX_FRAME_SIZE` bytes or one more of any kind, `DLE` included. The
  longest request is exactly `MAX_FRAME_SIZE` long. Two damaged bytes can cancel out in the
  16-bit checksum, so more mishaps would show only what the checksum cannot.
- `tree` has three accounts in two groups, whose ids repeat between the tables, paths of
  every shape (a device alone, empty names, names with dots and slashes, a fourth
  component), host files whose own names end with the suffix, and eleven objects.
- `sentry` has administrators of every level, a company name in two spellings and a
  group name that is also the company's. What it keeps of a prepared write is what the
  write uses, so requests with the same effect are one state.
- The directories of `listing` have names that differ from level to level; see the
  observations for those that do not. A walk is over a directory that stays as it is.
  The code loads it anew for every request, so a record added or deleted during a walk
  shifts the rest, and the code promises nothing about such a walk.
- The accounts of `tree` are constants: that a row id, and with it a disk, passes to a
  new account is shown by `mail_owner` for the mailbox and noted below for the disk.
- In `mail` both sessions send and one of them also asks for new mail; either's account
  may be deleted at any time.
- Deadlock is not checked for the session and the link, where both ends stop when the
  bounds on calls and requests are used up. It is checked everywhere else.

### Fairness

- `Link`: the worker's loop reads when there is a frame; the client's polling process
  runs, so its timers expire; a dropped line is noticed at both ends; whoever received a
  response frees the buffer. Nobody has to write, and the line need not lose anything.
- `FileIds`: a thread inside `allocate_file_id` goes on; the scheduler and the mutex
  serve every thread in the end. `parking_lot` mutexes hand over to waiters eventually.
- `Listing`: the client asks for the next row and the server answers.

## Proofs

| Module | Theorems | For every |
|---|---|---|
| `SessionProofs` | `TypeCorrect`, `Services`, `Gate` | modulus, number of replies, client behaviour |
| `IdMapProofs` | `FindFreeIsFree`, `NoneOnlyWhenFull` | geometry and map |
| `ConnectionPoolProofs` | `Unique`, `NoLeak`, `OnlyFullRefuses` | number of clients and ids |
| `FileIdsProofs` | `Unique`, `Stable` | number of sessions, disks, objects and ids |
| `VfsProofs` | `TypeCorrect`, `IdsAgree`, `BodiesStayValid` | number of sessions, files and ids, sizes and limits |
| `MailProofs` | `NoDanglingMail`, `RequestsAreWhole`, `MailIsStored` | number of sessions, accounts, channels and connections, request size |
| `SentryProofs` | `TypeCorrect`, `Rooted`, `NoEscalation`, `ScopeKept` | number of sessions, names, grants, row ids and changes |

`NumberProofs` has lemmas about `Max`, `Min`, division and row ids that the others share.

The only assumptions are those of the modules (`IdMapAssumption` and its like), which
TLC evaluates in the runs.

*Session.* The inductive invariant is the conjunction of the type invariant and the two
properties: the history of sign-ons must determine `vipc` (`ServicesMatchHistory`) for
a step to serve only signed-on clients, and the history's elements must be typed for
the sequence lemmas to apply. Each frame either leaves history alone (`QuietStep`) or
appends one request to it (`TakeStep`).

*Bitmap.* The search returns the least free bit: the first chunk, byte and bit with a
zero make the smallest number, by division with remainder (`Division`, `Place`). So a
candidate beyond `SIZE` means that every id is taken, and `OnlyFullRefuses` follows from
`NoLeak`.

*Pool.* Uniqueness needs that the pool's bits are the ids held, and that needs
uniqueness, since dropping one of two equal ids would clear the other's bit.

*File ids.* `UniqueIds` is far from inductive. `Inv` in `FileIdsProofs` adds: who holds
the mutex is where (`Exclusive`); during a scan every id on the disk was found or is in
an object yet to be visited (`ScanCovers`); after it, every id on the disk is in the
map, or is the one about to be recorded (`Covered`); an object about to get an id has
none and the map has a free one (`AssignReady`). `Stable` follows, as `Assign` is the
only step that writes an attribute.

*Files.* `Inv` in `VfsProofs` adds to the three properties that an open file has its
header (`OpenHasHeader`) and that a write between its check and its effect stays valid
whatever the others do to the file (`WriteStaysValid`): where it ends depends on the
session's own position and on a limit that never moves.

*Mail.* The messages name existing users because the foreign keys delete a user's mail
with the user and are checked again at the insert, after the lookup. `RequestsAreWhole`
needs that the fragments waiting on a channel come from one connection
(`FragmentsFromOne`), `MailIsStored` that a new mail id exceeds all of its mailbox.

*Accounts.* `TablesOK` has the types, unique ids and `NoOrphans`; `SessionsOK` says that
a prepared write has passed the checks for the account it is made for. `Rooted` and
`NoEscalation` follow. `ScopeKept` says more than the check: the names that were checked
are looked up again for the write, and every record reached then has these names, by
uniqueness of ids (`FoundNames`), and keeps its place (`ChangedRows`). No name
need be distinct from another: where a group has the name of its company, `Outside`
compares the company alone, which is why `Administers` has that exception.

Only model-checked: everything about liveness (outside the prover's reach), the
refinement of `RequestChannel` and the other properties of `Link`, `OneRowPerCursor` and
`EditableIsReadable` of `Sentry`, the walks of `Listing` and `Vfs`, the lengths of
answers, and everything about `Wire` and `Tree`, whose definitions work on sequences by
recursion.

## Not modelled

- The byte layout of responses, beyond their lengths in the file service and the frame
  around them; the fields of administration requests; the records of a mail message.
- The numbers in a directory's descriptor.
- Dates and the layout of file descriptors: conversions without state.
- The generator of initial sequence numbers: a session starts from any number.
- The listing of resources, which is fixed; get status, set status and flush, which
  change nothing that another request reads.
- Web pages other than user creation; logging, configuration, start-up.
- Disk usage, which the account tables report and nothing compares with the quotas.
- In the client link: the activity timeout, modem control and counters, and Ping and
  Disc frames from the server, which this server never sends.
- The rest of `GRiD Sources` and the modem firmware.

## Observations

Behaviours met while modelling that no run is about. For most of them the code and its
docs promise nothing; where a comment says otherwise, it is named.

- `update` fills the fields a request leaves out from a row it read under an earlier
  lock, so it can undo another session's change (`vipc/sentry.rs:405`).
- A new group or user can land under a parent that got the row id of the one named in
  the request, when that one is deleted in between (`vipc/sentry.rs:689`, `750`).
- A cursor is an index into the directory as it is now: a record added or deleted after
  a query shifts it (`vipc/sentry.rs:400`).
- Levels are told apart by names. A user named like its group counts as the group at a
  delete. A group named like its company counts as the company in the scope of a group
  administrator, so the administrators of all groups of the company can change its
  users, although the comment has "a group administrator over its own group"
  (`vipc/sentry.rs:192`, `579-606`).
- A session keeps the authority and the names of its sign-on: an account that is demoted
  or deleted administers until it signs off (`vipc/sentry.rs:226`).
- The gate for changing one's own password compares spellings, while every lookup
  ignores case (`vipc/sentry.rs:521`).
- Opening a file that does not exist creates it without a header, so that the open
  fails and an empty file stays, which cannot be opened later either
  (`vfs/fsproxy.rs:266`).
- Two sessions of one account can both be given the same new mail
  (`vipc/mail/postoffice.rs:203`).
- A company is deleted by three statements without a transaction; a crash between them
  leaves the company without some of its users, never an orphan (`db/users.rs:303`).
- An administrator is kept from deleting the own account, lest the session be
  "authenticated against a record that no longer exists" (`vipc/sentry.rs:478-479`), but
  not from deleting the group or the company it is in, nor another session's account.
- A user named like its group makes a walk by names jump over users, as the level of a
  row is read off its names.
- Row ids are reused, and the directory of a user's disk is named by the id: a new
  account finds the files of the deleted one whose id it got.
- Frames the server sends are not held to `MAX_FRAME_SIZE`, which the comment at
  `server/mod.rs:199-202` takes as a bound of all frames.
- Values set by a set-status request are kept and read by nothing, although a comment
  has them "reported back verbatim by get-status" (`vfs/fsproxy.rs:69-70`).
- A path's fourth component is ignored, and `~Subject~` alone addresses the disk itself,
  the only way to the files directly in its root.
- A file whose own name ends with `~Subject~`, which a client can create, is listed but
  its path addresses the file without the suffix; a name with a separator in it, which
  only the operator can give, is listed and cannot be written as a path. Names
  longer than 80 bytes are left out of listings; a directory with `~` in its own name has
  no descriptor.

## Plan

1. The refinement of `RequestChannel` by `Link` as a theorem, from an invariant that
   relates the numbers of the two ends to the frames on the wire.
2. An abstract specification of the directory (a tree that grows and shrinks
   atomically) and the part of `Sentry` that implements it.
3. Composition: a session with its file and mail services over a directory that
   changes, in place of the open answers of `Session`.
4. Dates and descriptors as operators against a reference definition.
