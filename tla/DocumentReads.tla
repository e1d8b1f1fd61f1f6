--------------------------- MODULE DocumentReads ---------------------------
(***************************************************************************)
(* A client of GET /jobs: it walks through the whole list, page by page,   *)
(* while uploads insert rows and the cleanup deletes them.  Each page is a *)
(* query of its own (list_jobs), in a transaction of its own.              *)
(***************************************************************************)
EXTENDS Documents

CONSTANT Limit  \* rows on a page

ASSUME LimitAssumption == Limit \in Nat \ {0}

VARIABLE listing  \* the client: how far it is, and a job it looks for

\* step    "idle", "walking", or "missed" at the end of the list
\* offset  that of the next page
\* watch   a job that was stored when the walk began and was on no page yet
NoListing == [step |-> "idle", offset |-> 0, watch |-> None]

readVars == <<vars, listing>>

ReadsInit == Init /\ listing = NoListing

Stored == {j \in Jobs : row[j] \notin {"none", "deleted"}}

(* Seeded defect: ORDER BY created_at, oldest first. *)
PageOldestFirst(offset) ==
  {j \in Stored :
     Cardinality({k \in Stored : Older(k, j)}) \in offset..(offset + Limit - 1)}

\* ORDER BY created_at DESC LIMIT l OFFSET o, without a status filter
Page(offset) ==
  {j \in Stored :
     Cardinality({k \in Stored : Older(j, k)}) \in offset..(offset + Limit - 1)}

StartListing ==
  /\ listing.step = "idle"
  /\ \E j \in Stored : listing' = [step |-> "walking", offset |-> 0, watch |-> j]
  /\ UNCHANGED vars

\* The page shows the job; or it is empty, which is the end of the list; or
\* the client asks for the next one.
NextPage ==
  /\ listing.step = "walking"
  /\ LET page == Page(listing.offset)
     IN  listing' = IF listing.watch \in page THEN NoListing
                    ELSE IF page = {} THEN [listing EXCEPT !.step = "missed", !.offset = 0]
                    ELSE [listing EXCEPT !.offset = @ + Limit]
  /\ UNCHANGED vars

ReadsNext ==
  \/ Next /\ UNCHANGED listing
  \/ StartListing \/ NextPage

ReadsSpec == ReadsInit /\ [][ReadsNext]_readVars

\* Offsets count from the newest row.  An upload pushes the rows that were
\* not shown yet further down, where they are still met, and the cleanup
\* removes rows from the far end only: the walk shows every job that was
\* there when it began, except ones past their retention.
ListingMissesNone == listing.step = "missed" => listing.watch \in Aged
=============================================================================
