------------------------------- MODULE JobRows -------------------------------
(***************************************************************************)
(* The rows of the jobs table and the UPDATE statements that change them.  *)
(*                                                                         *)
(* A row keeps the columns the queue decides on:                           *)
(*   status   Job.status                                                   *)
(*   retries  Job.retry_count, saturated at MaxRetries: the code only asks *)
(*            whether it has reached worker_max_retries or is 0            *)
(*   lease    Job.lease_token, Null when the column is NULL                *)
(*   due      time left until Job.next_attempt_at; NoDelay for NULL        *)
(*   age      time since Job.updated_at of a row in processing, saturated  *)
(*            one above StaleThreshold; 0 in every other status, where no  *)
(*            query reads the column                                       *)
(* failure_reason is wording and is left out.                              *)
(***************************************************************************)
EXTENDS Integers

CONSTANTS Tokens,          \* lease tokens (uuid4 values)
          Null,            \* SQL NULL, Python None
          MaxRetries,      \* worker_max_retries
          BaseDelay,       \* worker_retry_base_delay_seconds
          MaxDelay,        \* worker_retry_max_delay_seconds
          StaleThreshold   \* worker_stale_threshold_seconds

ASSUME RowAssumption ==
  /\ Null \notin Tokens
  /\ MaxRetries \in Nat \ {0}
  /\ BaseDelay \in Nat \ {0}
  /\ MaxDelay \in Nat \ {0}
  /\ StaleThreshold \in Nat

Completed == {"success", "needs_review"}
Terminal  == Completed \cup {"failed"}
Statuses  == {"queued", "processing"} \cup Terminal

NoDelay == -1

Retries == 0..MaxRetries
Leases  == Tokens \cup {Null}
Delays  == NoDelay..MaxDelay
Ages    == 0..(StaleThreshold + 1)

Rows == [status: Statuses, retries: Retries, lease: Leases, due: Delays, age: Ages]

\* The row an upload inserts.
NewRow == [status |-> "queued", retries |-> 0, lease |-> Null,
           due |-> NoDelay, age |-> 0]
-----------------------------------------------------------------------------
(* Seeded defects of this module, each one a plausible slip in the code.   *)

\* No min(..., worker_retry_max_delay_seconds).
BackoffUncapped(n) == BaseDelay * 2^(n - 1)

\* The claim query without "OR next_attempt_at <= now()".
DueOnlyWhenNull(r) == r.status = "queued" /\ r.due = NoDelay

\* The reaper scanning for queued rows instead of processing ones.
StaleWrongStatus(r) == r.status = "queued" /\ r.age > StaleThreshold

\* The reaper leaving lease_token in place.
ReapedKeepsLease(r) ==
  [r EXCEPT !.status = "queued", !.due = NoDelay, !.age = 0,
            !.retries = IF @ < MaxRetries THEN @ + 1 ELSE @]

\* retry_job leaving lease_token in place.
AfterManualRetryKeepsLease(old) ==
  [old EXCEPT !.status = "queued", !.retries = 0, !.due = NoDelay]
-----------------------------------------------------------------------------
(* What the queries select.                                                *)

\* WHERE status = 'queued' AND (next_attempt_at IS NULL OR next_attempt_at <= now())
Due(r) == r.status = "queued" /\ r.due <= 0

\* WHERE status = 'processing' AND updated_at < cutoff
Stale(r) == r.status = "processing" /\ r.age > StaleThreshold

(* What the statements write. Every UPDATE also refreshes updated_at.      *)

\* base * 2^(n-1), capped at MaxDelay.
Backoff(n) == LET delay == BaseDelay * 2^(n - 1)
              IN  IF delay \in 0..MaxDelay THEN delay ELSE MaxDelay

OneMore(n) == IF n < MaxRetries THEN n + 1 ELSE n

Claimed(r, t) == [r EXCEPT !.status = "processing", !.lease = t, !.age = 0]

Reaped(r) == [r EXCEPT !.status = "queued", !.retries = OneMore(@),
                       !.lease = Null, !.due = NoDelay, !.age = 0]

Settled(r, st) == [r EXCEPT !.status = st, !.age = 0]

(***************************************************************************)
(* The two ORM writers load a row, assign attributes and commit. The flush *)
(* writes the columns whose new value differs from the LOADED one and      *)
(* leaves the others as they are in the table by then; its WHERE clause is *)
(* the primary key alone.                                                  *)
(***************************************************************************)
Snapshot(r) == [r EXCEPT !.due = IF @ = NoDelay THEN NoDelay ELSE 0, !.age = 0]

Flush(r, old, new) ==
  LET Col(c) == IF new[c] # old[c] THEN new[c] ELSE r[c]
  IN  [status |-> Col("status"), retries |-> Col("retries"),
       lease |-> Col("lease"), due |-> Col("due"), age |-> 0]

\* What the except branch of process_job makes of the row it loaded.
AfterError(old) ==
  IF old.retries >= MaxRetries
  THEN [old EXCEPT !.status = "failed"]
  ELSE [old EXCEPT !.status = "queued", !.retries = @ + 1, !.lease = Null,
                   !.due = Backoff(old.retries + 1)]

\* What retry_job makes of the row it loaded.
AfterManualRetry(old) ==
  [old EXCEPT !.status = "queued", !.retries = 0, !.lease = Null, !.due = NoDelay]

\* One unit of time passes.
Aged(r) ==
  [r EXCEPT !.due = IF @ > 0 THEN @ - 1 ELSE @,
            !.age = IF r.status = "processing" /\ @ <= StaleThreshold
                    THEN @ + 1 ELSE @]
=============================================================================
