------------------------------ MODULE MCSentry ------------------------------
(***************************************************************************)
(* The administration service for TLC: two spellings of one company name,  *)
(* a second company, two group names, one of which is the company's, and   *)
(* one user name.  Administrators of all three levels come about.          *)
(***************************************************************************)
EXTENDS Sentry, TLC

MCNames == {"grid", "GRID", "acme", "dev", "ann"}

MCRank ==
  [n \in MCNames |-> CASE n = "acme" -> 1 [] n = "ann" -> 2 [] n = "dev" -> 3
                       [] n \in {"grid", "GRID"} -> 4]

MCSeed == <<"grid", "dev", "ann">>

Symmetry == Permutations(Sessions)

=============================================================================
