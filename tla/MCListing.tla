------------------------------ MODULE MCListing -----------------------------
(***************************************************************************)
(* Listings for TLC.  The names are ordered so that the walker's company   *)
(* need not be the first of the listing.                                   *)
(***************************************************************************)
EXTENDS Listing

MCNames == {"acme", "ann", "bob", "dev", "grid", "ops"}

MCRank ==
  [n \in MCNames |-> CASE n = "acme" -> 1 [] n = "ann" -> 2 [] n = "bob" -> 3
                       [] n = "dev" -> 4 [] n = "grid" -> 5 [] n = "ops" -> 6]

MCSeed == <<"grid", "dev", "ann">>

=============================================================================
