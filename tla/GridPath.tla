------------------------------ MODULE GridPath ------------------------------
(***************************************************************************)
(* GRiD paths and file names (vfs/file/path.rs and vfs/file/name.rs):      *)
(* server, device, folder, file and password, and title~kind~.            *)
(* A path or a name is a sequence of symbols: the four separators and, for *)
(* the text between them, any other symbol.                                *)
(***************************************************************************)
EXTENDS Integers, Sequences, SequencesExt

PATH == "PATH"      \* the grave accent, COMPONENT_SEPARATOR
SERVER == ":"       \* SERVER_SEPARATOR
PASS == "|"         \* PASSWORD_SEPARATOR
KIND == "~"         \* sep::KIND

\* splitn(2, separator): what comes before the first separator, what after.
HasSymbol(s, separator) == \E i \in DOMAIN s : s[i] = separator

FirstOf(s, separator) ==
  CHOOSE i \in DOMAIN s : s[i] = separator /\ \A j \in 1 .. (i - 1) : s[j] # separator

Before(s, separator) ==
  IF HasSymbol(s, separator) THEN SubSeq(s, 1, FirstOf(s, separator) - 1) ELSE s

After(s, separator) == SubSeq(s, FirstOf(s, separator) + 1, Len(s))

\* split(separator): the parts between separators, empty ones included.
RECURSIVE SplitOn(_, _)
SplitOn(s, separator) ==
  IF HasSymbol(s, separator)
    THEN << Before(s, separator) >> \o SplitOn(After(s, separator), separator)
    ELSE << s >>

\* strip_suffix of one component separator
WithoutTrailingSeparator(s) == IF s # << >> /\ Last(s) = PATH THEN Front(s) ELSE s

\* GRiDPath::validate
ValidPath(path) ==
  /\ path # << >>
  /\ Head(path) = PATH
  /\ LET body == Before(Tail(path), PASS)
         password == After(Tail(path), PASS)
         server == Before(body, SERVER)
         components == After(body, SERVER)
     IN  /\ HasSymbol(Tail(path), PASS) => password # << >> /\ ~ HasSymbol(password, PASS)
         /\ HasSymbol(body, SERVER)
         /\ server # << >>
         /\ ~ HasSymbol(server, PATH)
         /\ ~ HasSymbol(components, SERVER)
         /\ \A i \in DOMAIN SplitOn(WithoutTrailingSeparator(components), PATH) :
              SplitOn(WithoutTrailingSeparator(components), PATH)[i] # << >>

IsNonEmpty(s) == s # << >>

\* GRiDPath::components: device, folder and file, as many as there are.
Components(path) ==
  LET all == SelectSeq(SplitOn(Before(After(path, SERVER), PASS), PATH), IsNonEmpty)
  IN  SubSeq(all, 1, IF Len(all) < 3 THEN Len(all) ELSE 3)

\* GRiDFileName::is_valid_name: title~kind~ with no other separator.
IsValidName(name, maxLength) ==
  /\ Len(name) \in 1 .. maxLength
  /\ Last(name) = KIND
  /\ Len(SelectSeq(Front(name), LAMBDA symbol : symbol = KIND)) = 1
  /\ ~ HasSymbol(name, PASS)
  /\ ~ HasSymbol(name, PATH)

=============================================================================
