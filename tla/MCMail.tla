-------------------------------- MODULE MCMail ------------------------------
(***************************************************************************)
(* Mail for TLC: accounts of one group and two sessions, both of which     *)
(* send mail and one of which asks for new mail, over two connections.     *)
(***************************************************************************)
EXTENDS Mail

CONSTANTS s1, s2

MCNames == {"company", "group", "ann", "bob", "cal"}

MCRank ==
  [n \in MCNames |-> CASE n = "ann" -> 1 [] n = "bob" -> 2 [] n = "cal" -> 3
                       [] n = "company" -> 4 [] n = "group" -> 5]

MCSeed == <<"company", "group", "ann">>

MCSessions == {s1, s2}
MCConnections == [s \in MCSessions |-> IF s = s1 THEN {1, 2} ELSE {}]

=============================================================================
