-------------------------------- MODULE MCVfs -------------------------------
(***************************************************************************)
(* The file service for TLC: two sessions over one directory.  A page holds*)
(* one entry, a body may be longer than a page, and one name is too long   *)
(* for an entry.  Sessions are interchangeable.                            *)
(***************************************************************************)
EXTENDS Vfs, TLC

Properties == [f \in Files |-> IF f = 2 THEN 1 ELSE 0]
NameLengths == [f \in Files |-> <<1, 1, 2>>[f]]
Symmetry == Permutations(Sessions)

=============================================================================
