------------------------------- MODULE MCTree -------------------------------
(***************************************************************************)
(* The disks for TLC: two sessions, three accounts of two groups, ids that *)
(* repeat between tables.  The paths cover a device alone, a folder with   *)
(* and without its suffix, a file, a folder and a file whose own names end *)
(* with the suffix, names the host would read as directories, empty names  *)
(* and a fourth component.  The operator also puts in a name no path can   *)
(* carry.                                                                  *)
(***************************************************************************)
EXTENDS Tree

MCAccounts ==
  {[company |-> "1", group |-> "1", user |-> "1"],
   [company |-> "1", group |-> "1", user |-> "2"],
   [company |-> "1", group |-> "2", user |-> "3"]}

Subject(name) == name \o SUBJECT_SUFFIX
Memo == << "memo", KIND, "Text", KIND >>
User == << "User Subjects" >>
Group == << "Group Subjects" >>

MCPaths ==
  {Path(<< User >>), Path(<< User, Subject(<< "a" >>) >>), Path(<< User, << "a" >>, Memo >>),
   Path(<< User, << "a" >>, << "b" >> >>), Path(<< User, << "a" >>, Subject(Subject(<< "b" >>)) >>),
   Path(<< User, Subject(<< "a" >>), Subject(<< "b" >>), Memo >>),
   Path(<< User, Subject(<< ".." >>), Memo >>), Path(<< User, << "..", "/", "x" >> >>),
   Path(<< User, Subject(<< >>), Subject(<< >>) >>), Path(<< User, Subject(Subject(<< "a" >>)) >>),
   Path(<< Group, Subject(<< "Users" >>), << "2" >> >>),
   Path(<< << "Mail" >>, << "a" >>, Memo >>),
   Path(<< << "Name Device" >>, Subject(<< "Resources" >>) >>), Path(<< << "Elsewhere" >> >>)}

MCHostFiles == {Memo, << "memo", SERVER >>}

Symmetry == Permutations(Sessions)

=============================================================================
