-------------------------------- MODULE Tree --------------------------------
(***************************************************************************)
(* Which host file a GRiD path means: the virtual disks below the server's *)
(* directory, the mapping of device, folder and file to a host path, and   *)
(* the directories and files that attaching and opening leave behind.      *)
(*                                                                         *)
(* Source: src/Server/src/vfs/fsproxy.rs (map_gridpath, is_attachable,     *)
(* open, directory_entries) and vfs/dirmanager.rs (the disks and           *)
(* map_file_path).  A name is a sequence of symbols as in GridPath, a host *)
(* path a sequence of names below the server's directory.  A session has   *)
(* one attachment here; Vfs models its table of them.                      *)
(***************************************************************************)
EXTENDS GridPath, FiniteSets, TLC

CONSTANTS
  Sessions,
  Accounts,     \* records of the symbols of a company, a group and a user id
  Paths,        \* the paths clients attach
  HostFiles,    \* names of files the operator puts into a folder
  MAX_LENGTH,   \* of a name, in symbols
  MaxObjects,   \* bound: objects below the server's directory
  NoAccount

VARIABLES
  tree,         \* host path -> "dir", "file" (with a header) or "empty"
  account,      \* FsProxy of a session: the account it signed on with
  attached      \* the attachment of a session, or Detached

vars == << tree, account, attached >>

SUBJECT_SUFFIX == << KIND, "Subject", KIND >>

(***************************************************************************)
(* The disks.                                                              *)
(***************************************************************************)
CompanyDir(a) == << << "Sentry" >>, << "Companies" >>, << a.company >> >>

GroupDir(a) == CompanyDir(a) \o << << "Groups" >>, << a.group >> >>

\* Faulty variant: the shared disk of a group is the whole of its directory.
GroupDiskUnshared(a) == GroupDir(a)

GroupDisk(a) == Append(GroupDir(a), << "Shared" >>)

UserDisk(a) == GroupDir(a) \o << << "Users" >>, << a.user >> >>

CompanyDisk(a) == Append(CompanyDir(a), << "Shared" >>)

Devices == {"Mail", "User Subjects", "Group Subjects", "Company Subjects", "Software Subjects",
            "Server Subjects", "Shared Subjects"}

\* The match on the device in map_gridpath.
Disk(device, a) ==
  CASE device = "Mail" -> << << "Mail" >> >>
    [] device = "User Subjects" -> UserDisk(a)
    [] device = "Group Subjects" -> GroupDisk(a)
    [] device = "Company Subjects" -> CompanyDisk(a)
    [] device = "Software Subjects" -> << << "Software" >> >>
    [] device = "Server Subjects" -> << << "Server" >> >>
    [] device = "Shared Subjects" -> << << "Sentry" >>, << "Shared" >> >>

Disks == {Disk(d, a) : d \in Devices, a \in Accounts}

(***************************************************************************)
(* The host path of an attachment.                                         *)
(***************************************************************************)
\* Faulty variant: the suffix stays.
KeepSuffix(name) == name

StripSuffix(name) ==
  IF IsSuffix(SUBJECT_SUFFIX, name) THEN SubSeq(name, 1, Len(name) - Len(SUBJECT_SUFFIX)) ELSE name

Forbidden == {<< "." >>, << ".." >>}

\* Faulty variant: a slash is let through.
MayPushSlash(name) == ~ HasSymbol(StripSuffix(name), "NUL") /\ StripSuffix(name) \notin Forbidden

\* push_component refuses what would leave the directory.
MayPush(name) ==
  LET component == StripSuffix(name)
  IN  ~ HasSymbol(component, "/") /\ ~ HasSymbol(component, "NUL") /\ component \notin Forbidden

\* PathBuf::push: an empty component only adds a slash to the path.
Push(path, name) == IF StripSuffix(name) = << >> THEN path ELSE Append(path, StripSuffix(name))

Refused == [kind |-> "Refused"]

\* map_file_path, then the kind of the target.  "slash" tells that the path ends
\* with a slash, which the host does not open as a file.
MapFilePath(disk, names) ==
  LET step[i \in 0 .. Len(names)] == IF i = 0 THEN disk ELSE Push(step[i - 1], names[i])
  IN  IF \A i \in DOMAIN names : MayPush(names[i])
        THEN [kind |-> IF Len(names) = 2 THEN "File" ELSE "Directory",
              disk |-> disk, path |-> step[Len(names)],
              slash |-> names # << >> /\ StripSuffix(Last(names)) = << >>]
        ELSE Refused

RESOURCES == << << "Name Device" >>, << "Resources" >> \o SUBJECT_SUFFIX >>

MapGridPath(a, path) ==
  LET components == Components(path)
      device == Head(components)
  IN  CASE components = << >> -> Refused
        [] Len(components) > 1 /\ SubSeq(components, 1, 2) = RESOURCES -> [kind |-> "Resources"]
        [] Len(device) = 1 /\ Head(device) \in Devices ->
            MapFilePath(Disk(Head(device), a), Tail(components))
        [] OTHER -> Refused

\* What an account means by a path.
Target(a, path) == IF ValidPath(path) THEN MapGridPath(a, path) ELSE Refused

Targets == [a \in Accounts, path \in Paths |-> Target(a, path)]

(***************************************************************************)
(* The host's file system.                                                 *)
(***************************************************************************)
Objects == DOMAIN tree

IsDir(path) == path \in Objects /\ tree[path] = "dir"

With(paths, kind) == [p \in Objects \cup paths |-> IF p \in Objects THEN tree[p] ELSE kind]

Parent(path) == Front(path)

\* Faulty variant: the directory, not the ones above it.
DirAlone(path) == {path}

\* create_dir_all: every directory on the way.
DirsTo(path) == Prefixes(path)

Detached == [target |-> Refused, open |-> FALSE]

Init ==
  /\ tree = (<< >> :> "dir")
  /\ account = [s \in Sessions |-> NoAccount]
  /\ attached = [s \in Sessions |-> Detached]

SignOn(s, a) ==
  /\ account[s] = NoAccount
  /\ account' = [account EXCEPT ![s] = a]
  /\ UNCHANGED << tree, attached >>

SignOff(s) ==
  /\ account[s] # NoAccount
  /\ account' = [account EXCEPT ![s] = NoAccount]
  /\ attached' = [attached EXCEPT ![s] = Detached]
  /\ UNCHANGED tree

\* The directory an attachment makes sure of, and the ones made for it.
DirOf(target) == IF target.kind = "File" THEN Parent(target.path) ELSE target.path

DirsFor(target) == IF target.kind = "Resources" THEN {} ELSE DirsTo(DirOf(target))

\* is_attachable; a file where a directory has to be fails it.
Attach(s, path) ==
  LET target == Targets[account[s], path]
  IN  /\ account[s] # NoAccount
      /\ attached[s] = Detached
      /\ target # Refused
      /\ \A p \in DirsFor(target) \cap Objects : IsDir(p)
      /\ Cardinality(Objects \cup DirsFor(target)) <= MaxObjects
      /\ tree' = With(DirsFor(target), "dir")
      /\ attached' = [attached EXCEPT ![s] = [target |-> target, open |-> FALSE]]
      /\ UNCHANGED account

Detach(s) ==
  /\ attached[s] # Detached
  /\ attached' = [attached EXCEPT ![s] = Detached]
  /\ UNCHANGED << tree, account >>

MayOpen(s, kind) == attached[s] # Detached /\ ~ attached[s].open /\ attached[s].target.kind = kind

OpenDirectory(s) ==
  /\ MayOpen(s, "Directory")
  /\ attached' = [attached EXCEPT ![s].open = TRUE]
  /\ UNCHANGED << tree, account >>

\* Faulty variant: the file is truncated.
OpenTruncated(path) == [With({path}, "empty") EXCEPT ![path] = "empty"]

\* OpenOptions: created when absent, and never truncated.
OpenCreate(path) == With({path}, "empty")

\* The file is created first; its name and header are looked at afterwards.
OpenFile(s) ==
  LET target == attached[s].target
      path == target.path
  IN  /\ MayOpen(s, "File")
      /\ ~ target.slash
      /\ IsDir(Parent(path)) /\ ~ IsDir(path)
      /\ Cardinality(Objects \cup {path}) <= MaxObjects
      /\ tree' = OpenCreate(path)
      /\ attached' = [attached EXCEPT ![s].open =
                        IsValidName(Last(path), MAX_LENGTH) /\ tree'[path] = "file"]
      /\ UNCHANGED account

(***************************************************************************)
(* The operator puts GRiD files into folders of the disks and removes them *)
(* and empty folders.                                                      *)
(***************************************************************************)
Folders == {p \in Objects : p # << >> /\ IsDir(p) /\ Parent(p) \in Disks}

PutFile(folder, name) ==
  /\ Append(folder, name) \notin Objects
  /\ Cardinality(Objects) < MaxObjects
  /\ tree' = With({Append(folder, name)}, "file")
  /\ UNCHANGED << account, attached >>

RemoveObject(path) ==
  /\ \E disk \in Disks : IsStrictPrefix(disk, path)
  /\ \A p \in Objects : ~ IsStrictPrefix(path, p)
  /\ \A s \in Sessions : attached[s].open => attached[s].target.path # path
  /\ tree' = [p \in Objects \ {path} |-> tree[p]]
  /\ UNCHANGED << account, attached >>

Next ==
  \/ \E s \in Sessions :
       \/ \E a \in Accounts : SignOn(s, a)
       \/ SignOff(s)
       \/ \E path \in Paths : Attach(s, path)
       \/ Detach(s)
       \/ OpenDirectory(s)
       \/ OpenFile(s)
  \/ \E folder \in Folders, name \in HostFiles : PutFile(folder, name)
  \/ \E path \in Objects : RemoveObject(path)

Spec == Init /\ [][Next]_vars

-----------------------------------------------------------------------------
\* Every variable has its type, and the objects form a tree: each is in a
\* directory (create_dir_all in fsproxy.rs:246-250).
TypeOK ==
  /\ << >> \in Objects
  /\ \A p \in Objects : tree[p] \in {"dir", "file", "empty"} /\ (p # << >> => IsDir(Parent(p)))
  /\ account \in [Sessions -> Accounts \cup {NoAccount}]
  /\ \A s \in Sessions :
       /\ attached[s].open \in BOOLEAN
       /\ attached[s].target.kind \in {"Refused", "Resources", "File", "Directory"}

\* How the host resolves a path: it is split at slashes, an empty name and "."
\* stay where they are, ".." goes up.
HostPath(path) ==
  LET names == FlattenSeq([i \in DOMAIN path |-> SplitOn(path[i], "/")])
      enter(at, name) ==
        CASE name \in {<< >>, << "." >>} -> at
          [] name = << ".." >> -> IF at = << >> THEN at ELSE Front(at)
          [] OTHER -> Append(at, name)
  IN  FoldLeft(enter, << >>, names)

Inside(path, disk) == IsPrefix(disk, HostPath(path))

OnDisk(s) == attached[s].target.kind \in {"File", "Directory"}

\* The object whose id a descriptor carries: of a file, its directory.
IdObject(target) == DirOf(target)

\* Whatever components a path has, the object the host finds for it is the disk
\* or lies in it; and so does the object read_desc gives an id to, since file ids
\* are unique within a disk only (the checks of push_component and the parent of
\* a file, dirmanager.rs:278-292, 136-144).
InsideDisk ==
  \A s \in Sessions : OnDisk(s) =>
    LET target == attached[s].target
    IN  /\ Inside(target.path, target.disk)
        /\ attached[s].open => Inside(IdObject(target), target.disk)

\* Whose files a device holds.
Owner(device, a) ==
  CASE device = "User Subjects" -> << a.company, a.group, a.user >>
    [] device = "Group Subjects" -> << a.company, a.group >>
    [] device = "Company Subjects" -> << a.company >>

\* No session is attached to an object in the private, the group or the company
\* disk of somebody else, through whichever device (fsproxy.rs:120-156 and the
\* disks of dirmanager.rs:187-271, none of which contains another).
OwnDisksOnly ==
  \A s \in Sessions, a \in Accounts, d \in {"User Subjects", "Group Subjects", "Company Subjects"} :
    OnDisk(s) /\ Owner(d, a) # Owner(d, account[s]) => ~ Inside(attached[s].target.path, Disk(d, a))

\* directory_entries: the names listed for a directory, and the object each
\* stands for.
DirectoryEntries(dir) ==
  LET listed(p) == IF IsDir(p) THEN Last(p) \o SUBJECT_SUFFIX ELSE Last(p)
      there == {p \in Objects : p # << >> /\ Parent(p) = dir}
  IN  {[name |-> listed(p), object |-> p] : p \in {q \in there : Len(listed(q)) <= MAX_LENGTH}}

\* The path a client writes for a device and the names below it.
Path(parts) ==
  << PATH, "server", SERVER >> \o FlattenSeq([i \in DOMAIN parts |-> parts[i] \o << PATH >>])

\* Names a listing shows and a path cannot carry: a file's own suffix is taken
\* for the one that marks a folder, and a separator ends the name.
Unaddressable(object) ==
  \/ ~ IsDir(object) /\ IsSuffix(SUBJECT_SUFFIX, Last(object))
  \/ \E separator \in {PATH, SERVER, PASS} : HasSymbol(Last(object), separator)

\* A client that takes a name out of a listing, writes it into a path and attaches
\* that reaches the object that was listed: a folder of a disk by its name with
\* the suffix it was listed with, one whose own name ends with the suffix
\* included, and a file of a folder by both names (directory_entries,
\* fsproxy.rs:165-193, against GRiDPath and map_file_path).  The exceptions are a
\* file whose own name ends with the suffix, which a client can create, and a
\* name with a separator in it, which only the operator can.
ListedIsAddressed ==
  \A a \in Accounts, d \in Devices :
    \A folder \in DirectoryEntries(Disk(d, a)) : IsDir(folder.object) =>
      /\ Target(a, Path(<< << d >>, folder.name >>)).path = folder.object
      /\ \A file \in DirectoryEntries(folder.object) :
           \/ Unaddressable(file.object)
           \/ Target(a, Path(<< << d >>, folder.name, file.name >>)).path = file.object

\* An object keeps what it is: attaching and opening, which create before they
\* look, never empty a file that has contents and never put one where a directory
\* is (fsproxy.rs:246-250, 265-276).
ContentsKept ==
  [][\A p \in Objects \cap DOMAIN tree' : tree'[p] = tree[p]]_vars

=============================================================================
