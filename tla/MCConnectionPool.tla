-------------------------- MODULE MCConnectionPool --------------------------
(***************************************************************************)
(* The pool for TLC: one client more than there are ids.  Clients are      *)
(* interchangeable.                                                        *)
(***************************************************************************)
EXTENDS ConnectionPool, TLC

Symmetry == Permutations(Clients)

=============================================================================
