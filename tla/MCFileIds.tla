------------------------------ MODULE MCFileIds -----------------------------
(***************************************************************************)
(* The allocator for TLC: two sessions and a disk with two paths, whose     *)
(* objects come and go, so that the mutex is contended and two ids run out. *)
(***************************************************************************)
EXTENDS FileIds

CONSTANTS w1, w2, a1, a2

MCWorkers == {w1, w2}
MCObjects == {a1, a2}
MCDisks == {"A"}
MCDisk == [o \in MCObjects |-> "A"]

=============================================================================
