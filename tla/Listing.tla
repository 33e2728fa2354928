------------------------------- MODULE Listing ------------------------------
(***************************************************************************)
(* The walk through the directory: a client asks for the first row and     *)
(* then, by the names or by the cursor of the last answer, for the next.   *)
(*                                                                         *)
(* Source: list, seek, resume and listing_response of                      *)
(* src/Server/src/vipc/sentry.rs.  The directory is built by the commands  *)
(* of Sentry and stays as it is during the walk.                           *)
(***************************************************************************)
EXTENDS Sentry

VARIABLE walk    \* the walk of the client, or NotStarted

listingVars == <<vars, walk>>

NotStarted == [phase |-> "not started"]
Walking == walk.phase = "walking"

ListingInit == Init /\ walk = NotStarted

\* The rows the walker may see, in terms of which the promise is stated.
Visible(s) == {r \in Rows : ~Outside(actor[s], r.names)}

\* deny_below, and the zero-filled filter of the first request.
StartWalk(s) ==
  /\ walk = NotStarted
  /\ \A t \in Sessions : pending[t] = Idle
  /\ SignedOn(s)
  /\ actor[s].authority >= GROUP_ADMIN
  /\ walk' = [phase |-> "walking", by |-> s, from |-> 0, last |-> NotStarted,
              seen |-> {}, skipped |-> {}]
  /\ UNCHANGED vars

\* Faulty variant: the walk stops at a row outside the walker's subtree.
AnswerStopping(s, from) == {r \in RowsAt(from) : ~Outside(actor[s], r.names)}

\* The first visible row from an index on, as the set of one or no row.
Answer(s, from) ==
  LET later == {r \in Visible(s) : Index(r) >= from}
  IN {r \in later : \A other \in later : Index(r) <= Index(other)}

ListRow ==
  /\ Walking
  /\ \E row \in Answer(walk.by, walk.from) :
       walk' = [walk EXCEPT !.last = row, !.seen = @ \cup {row}, !.phase = "answered"]
  /\ UNCHANGED vars

\* Past the last row the answer is the status that ends the listing.
ListEnds ==
  /\ Walking
  /\ Answer(walk.by, walk.from) = {}
  /\ walk' = [walk EXCEPT !.phase = "ended"]
  /\ UNCHANGED vars

Ask(from, skipped) ==
  walk' = [walk EXCEPT !.phase = "walking", !.from = from, !.skipped = @ \cup skipped]

\* Faulty variant: the next request is answered from the first match.
SeekFirst(prefix) ==
  1 + Min({Index(r) : r \in {x \in Rows : Matches(x, prefix)}})

\* "the row right after the last one matching them"
Seek(prefix) == 1 + Max({Index(r) : r \in FindRows(prefix)})

\* 0x1e with the names of the last row, some of them 0xff filled to skip the
\* rest of its subtree.
ListFirst(length) ==
  LET prefix == SubSeq(walk.last.names, 1, length) IN
  /\ walk.phase = "answered"
  /\ Ask(Seek(prefix), IF length = 3 THEN {} ELSE {r \in Rows : Matches(r, prefix)})
  /\ UNCHANGED vars

\* Faulty variant: the row the cursor addresses is answered again.
ResumeSame(cursor) == cursor

Resume(cursor) == cursor + 1

\* 0x1f with the cursor of the last row.
ListNext ==
  /\ walk.phase = "answered"
  /\ Ask(Resume(Index(walk.last)), {})
  /\ UNCHANGED vars

ListingNext ==
  \/ walk = NotStarted /\ Next /\ UNCHANGED walk
  \/ \E s \in Sessions : StartWalk(s)
  \/ ListRow \/ ListEnds \/ ListNext
  \/ \E length \in 1 .. 3 : ListFirst(length)
  \/ walk.phase = "ended" /\ UNCHANGED listingVars

ListingSpec == ListingInit /\ [][ListingNext]_listingVars

\* The client asks for the next row and the server answers.
FairListing ==
  /\ ListingSpec
  /\ WF_listingVars(ListRow \/ ListEnds \/ ListNext \/ \E n \in 1 .. 3 : ListFirst(n))

-----------------------------------------------------------------------------

\* A walk that has ended has shown every row of the walker's subtree that it did
\* not skip, and none outside (sentry.rs:363-366, 814-816; the test at
\* sentry.rs:1641, walks_the_directory_row_by_row).
ListingComplete ==
  walk.phase = "ended" =>
    /\ walk.seen \subseteq Visible(walk.by)
    /\ Visible(walk.by) \ walk.skipped \subseteq walk.seen

\* Whichever of the two requests the client mixes, it never gets a row twice.
NoRowTwice ==
  [][walk.phase = "walking" /\ walk'.phase = "answered" => walk'.last \notin walk.seen]_listingVars

\* Every walk comes to the status that ends it.
ListingEnds == Walking ~> walk.phase = "ended"

=============================================================================
