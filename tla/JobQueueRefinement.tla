------------------------- MODULE JobQueueRefinement -------------------------
(* JobQueue implements JobLease as long as no unexpected error occurs. *)
EXTENDS JobQueue

phase == [j \in Jobs |-> CASE jobs[j].status = "queued"     -> "waiting"
                           [] jobs[j].status = "processing" -> "leased"
                           [] OTHER                         -> "settled"]

\* The thread whose write would pass the fence of a job in processing.
Owns(w, j) == Holds(w) /\ task[w].job = j /\ jobs[j].status = "processing"

owner == [j \in Jobs |-> IF \E w \in Workers : Owns(w, j)
                         THEN CHOOSE w \in Workers : Owns(w, j) ELSE Null]

results == [j \in Jobs |-> Len(extractions[j])]

Lease == INSTANCE JobLease WITH Nobody <- Null

(***************************************************************************)
(* The inductive invariant behind the fence, when no unexpected error      *)
(* occurs.  A lease names one attempt; a queued row has no lease, in the   *)
(* table and in what a retry request has loaded, so a flush that requeues  *)
(* a row always takes its lease away with it; an attempt that still holds  *)
(* the lease finds its job in processing.                                  *)
(***************************************************************************)
TokensDistinct ==
  \A v, w \in Workers : Active(v) /\ Active(w) /\ task[v].token = task[w].token => v = w

LeaseNamesAttempt ==
  \A w \in Workers, j \in Jobs :
    Active(w) /\ jobs[j].lease = task[w].token => task[w].job = j

Unleased(r) == r.status = "queued" <=> r.lease = Null

HolderIsProcessing ==
  \A w \in Workers :
    Holds(w) /\ task[w].step # "written" => jobs[task[w].job].status = "processing"

ResultsCounted ==
  \A j \in Jobs :
    Len(extractions[j]) <= audit[j] + (IF jobs[j].status \in Terminal THEN 1 ELSE 0)

\* Whatever is reclaimed, crashed and retried by hand, the lease of a row
\* always says who may write it and whether anybody may.
FenceInv ==
  /\ \A w \in Workers : task[w].step # "handling"
  /\ TokensDistinct
  /\ LeaseNamesAttempt
  /\ \A j \in Jobs : Unleased(jobs[j])
  /\ \A h \in Handlers : Unleased(request[h].loaded)
  /\ HolderIsProcessing
  /\ ResultsCounted

\* The lease is what README and claim.py say it is: only its holder settles
\* a job, and a reclaimed attempt publishes nothing.  (Who may open a settled
\* job again is SettledStays: Reopen of JobLease has no guard.)
LeaseSpec == Lease!Spec
=============================================================================
