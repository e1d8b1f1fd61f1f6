------------------------------ MODULE JobLease ------------------------------
(***************************************************************************)
(* What the queue promises about leases, without saying how: a waiting job *)
(* is leased to one worker, and only the worker that has the lease settles *)
(* it.  A lease can be lost with its worker and the job be reclaimed;      *)
(* neither produces a result.  Any job can be opened again at any time:    *)
(* when the queue does so is not a matter of leases.                       *)
(***************************************************************************)
EXTENDS Naturals

CONSTANTS Jobs, Workers, Nobody

VARIABLES phase,    \* per job: "waiting", "leased" or "settled"
          owner,    \* per job, the worker that has the lease, or Nobody
          results   \* per job, how many results were published

vars == <<phase, owner, results>>

Init ==
  /\ phase = [j \in Jobs |-> "waiting"]
  /\ owner = [j \in Jobs |-> Nobody]
  /\ results = [j \in Jobs |-> 0]

\* o is Nobody when the worker never learns that it has the lease.
Grant(j, o) ==
  /\ phase[j] = "waiting"
  /\ phase' = [phase EXCEPT ![j] = "leased"]
  /\ owner' = [owner EXCEPT ![j] = o]
  /\ UNCHANGED results

\* With a result (n = 1) or with a failure (n = 0).
Settle(j, n) ==
  /\ owner[j] # Nobody
  /\ phase' = [phase EXCEPT ![j] = "settled"]
  /\ owner' = [owner EXCEPT ![j] = Nobody]
  /\ results' = [results EXCEPT ![j] = @ + n]

\* The owners of the jobs in S are gone; the jobs stay leased.
Lose(S) ==
  /\ owner' = [j \in Jobs |-> IF j \in S THEN Nobody ELSE owner[j]]
  /\ UNCHANGED <<phase, results>>

\* Leases that took too long are taken away.
Reclaim(S) ==
  /\ \A j \in S : phase[j] = "leased"
  /\ phase' = [j \in Jobs |-> IF j \in S THEN "waiting" ELSE phase[j]]
  /\ owner' = [j \in Jobs |-> IF j \in S THEN Nobody ELSE owner[j]]
  /\ UNCHANGED results

Reopen(j) ==
  /\ phase' = [phase EXCEPT ![j] = "waiting"]
  /\ owner' = [owner EXCEPT ![j] = Nobody]
  /\ UNCHANGED results

Next ==
  \/ \E j \in Jobs : \/ \E o \in Workers \cup {Nobody} : Grant(j, o)
                     \/ \E n \in {0, 1} : Settle(j, n)
                     \/ Reopen(j)
  \/ \E S \in SUBSET Jobs : Lose(S) \/ Reclaim(S)

Spec == Init /\ [][Next]_vars
=============================================================================
