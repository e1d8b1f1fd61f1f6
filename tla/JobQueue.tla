------------------------------ MODULE JobQueue ------------------------------
(***************************************************************************)
(* The Postgres-backed job queue: the jobs table, the worker process (its  *)
(* worker threads and its reaper thread) and the manual retry endpoint of  *)
(* the API, which shares nothing with the worker but the table.            *)
(*                                                                         *)
(* Every action is one database transaction of one thread, or one step of  *)
(* a process; anything can happen between two of them.  What run_pipeline  *)
(* computes is a free choice here: a result, an ExtractionError or an      *)
(* unexpected exception.                                                   *)
(***************************************************************************)
EXTENDS JobRows, Sequences, FiniteSets

CONSTANTS Jobs,         \* uploaded jobs, numbered in created_at order
          Workers,      \* worker threads of the worker process
          Handlers,     \* concurrent POST /jobs/{id}/retry requests
          MaxErrors,    \* bound: exceptions that reach process_job's handler
          MaxFaults,    \* bound: restarts, kills and lost database replies
          MaxRequests,  \* bound: manual retry requests
          Timely        \* attempts end before the reaper's threshold

ASSUME QueueAssumption ==
  /\ Jobs \subseteq Nat
  /\ Null \notin Jobs \cup Workers
  /\ {MaxErrors, MaxFaults, MaxRequests} \subseteq Nat
  /\ Timely \in BOOLEAN

VARIABLES
  jobs,         \* the jobs table
  extractions,  \* per job, the status of each invoice_extractions row, oldest first
  audit,        \* per job, its 'retried' events in audit_events
  task,         \* per worker thread, where it is in process_job and what it read
  request,      \* per retry request, the job and the row it loaded
  process,      \* the worker process: "up", "draining" (after SIGTERM) or "down"
  errors, faults, requests  \* how much of the bounds is spent

dbVars   == <<jobs, extractions, audit>>
budgets  == <<errors, faults, requests>>
vars     == <<dbVars, task, request, process, budgets>>

(***************************************************************************)
(* step of a worker thread:                                                *)
(*   idle      top of _worker_loop                                         *)
(*   claimed   claim committed, process_job about to load the job          *)
(*   running   processing_started committed, pipeline at work              *)
(*   written   final status committed, still inside the try block          *)
(*   handling  except branch: row loaded, its lease found to match         *)
(***************************************************************************)
Steps == {"idle", "claimed", "running", "written", "handling"}
Idle  == [step |-> "idle", job |-> Null, token |-> Null, loaded |-> NewRow]
NoRequest == [job |-> Null, loaded |-> NewRow]

JobOrNull == Jobs \cup {Null}
Tasks     == [step: Steps, job: JobOrNull, token: Leases, loaded: Rows]
Requests  == [job: JobOrNull, loaded: Rows]

TypeOK ==
  /\ jobs \in [Jobs -> Rows]
  /\ extractions \in [Jobs -> Seq(Completed)]
  /\ audit \in [Jobs -> Nat]
  /\ task \in [Workers -> Tasks]
  /\ \A w \in Workers : task[w].step # "idle" => task[w].job \in Jobs /\ task[w].token \in Tokens
  /\ request \in [Handlers -> Requests]
  /\ process \in {"up", "draining", "down"}
  /\ errors \in 0..MaxErrors /\ faults \in 0..MaxFaults /\ requests \in 0..MaxRequests

Init ==
  /\ jobs = [j \in Jobs |-> NewRow]
  /\ extractions = [j \in Jobs |-> <<>>]
  /\ audit = [j \in Jobs |-> 0]
  /\ task = [w \in Workers |-> Idle]
  /\ request = [h \in Handlers |-> NoRequest]
  /\ process = "up"
  /\ errors = 0 /\ faults = 0 /\ requests = 0

Active(w) == task[w].step # "idle"
Release(w) == task' = [task EXCEPT ![w] = Idle]

(* Seeded defects: the fence dropped, the token reused.                    *)
HoldsAlways(w) == Active(w)
FreshTokensAny == Tokens

\* WHERE id = job_id AND lease_token = lease_token
Holds(w) == Active(w) /\ jobs[task[w].job].lease = task[w].token
-----------------------------------------------------------------------------
(* Claiming.                                                               *)

\* uuid.uuid4(): a value no row and no thread has.
FreshTokens == Tokens \ ({jobs[j].lease : j \in Jobs} \cup {task[w].token : w \in Workers})

\* Another session may hold the lock of row k while w's claim runs: a thread
\* that is claiming it, or an ORM writer that is flushing it.
Locked(w, k) ==
  \/ \E v \in Workers \ {w} : ~Active(v) \/ (task[v].step = "handling" /\ task[v].job = k)
  \/ \E h \in Handlers : request[h].job = k

\* ORDER BY created_at FOR UPDATE SKIP LOCKED LIMIT 1
NextDue(w, j) == Due(jobs[j]) /\ \A k \in Jobs : k < j /\ Due(jobs[k]) => Locked(w, k)

Claim(w, j) ==
  /\ process = "up" /\ ~Active(w)
  /\ NextDue(w, j)
  /\ \E t \in FreshTokens :
       /\ jobs' = [jobs EXCEPT ![j] = Claimed(@, t)]
       /\ task' = [task EXCEPT ![w] = [Idle EXCEPT !.step = "claimed", !.job = j, !.token = t]]
  /\ UNCHANGED <<extractions, audit, request, process, budgets>>

\* The claim commits but the thread sees an exception instead of the reply.
ClaimReplyLost(w, j) ==
  /\ process = "up" /\ ~Active(w)
  /\ faults < MaxFaults
  /\ NextDue(w, j)
  /\ \E t \in FreshTokens : jobs' = [jobs EXCEPT ![j] = Claimed(@, t)]
  /\ faults' = faults + 1
  /\ UNCHANGED <<extractions, audit, task, request, process, errors, requests>>
-----------------------------------------------------------------------------
(* process_job.                                                            *)

\* The job is already terminal: skip it.  Otherwise commit processing_started.
StartProcessing(w) ==
  /\ task[w].step = "claimed"
  /\ IF jobs[task[w].job].status \in Terminal
     THEN Release(w)
     ELSE task' = [task EXCEPT ![w].step = "running"]
  /\ UNCHANGED <<dbVars, request, process, budgets>>

\* That commit raises: it is outside the try block, so the thread gives up.
StartFails(w) ==
  /\ task[w].step = "claimed"
  /\ faults < MaxFaults
  /\ Release(w)
  /\ faults' = faults + 1
  /\ UNCHANGED <<dbVars, request, process, errors, requests>>

(* Seeded defects: no session.add(extraction); a plain UPDATE.             *)
PublishNoExtraction(w, st) ==
  /\ task[w].step = "running" /\ Holds(w)
  /\ jobs' = [jobs EXCEPT ![task[w].job] = Settled(@, st)]
  /\ task' = [task EXCEPT ![w].step = "written"]
  /\ UNCHANGED <<extractions, audit, request, process, budgets>>

FailExtractionUnfenced(w) ==
  /\ task[w].step = "running"
  /\ jobs' = [jobs EXCEPT ![task[w].job] = Settled(@, "failed")]
  /\ task' = [task EXCEPT ![w].step = "written"]
  /\ UNCHANGED <<extractions, audit, request, process, budgets>>

\* The pipeline returned: status, extraction and audit event in one commit.
Publish(w, st) ==
  /\ task[w].step = "running" /\ Holds(w)
  /\ jobs' = [jobs EXCEPT ![task[w].job] = Settled(@, st)]
  /\ extractions' = [extractions EXCEPT ![task[w].job] = Append(@, st)]
  /\ task' = [task EXCEPT ![w].step = "written"]
  /\ UNCHANGED <<audit, request, process, budgets>>

\* The pipeline raised an ExtractionError: no automatic retry.
FailExtraction(w) ==
  /\ task[w].step = "running" /\ Holds(w)
  /\ jobs' = [jobs EXCEPT ![task[w].job] = Settled(@, "failed")]
  /\ task' = [task EXCEPT ![w].step = "written"]
  /\ UNCHANGED <<extractions, audit, request, process, budgets>>

\* Either write matched no row: rollback and leave.
DiscardStaleWrite(w) ==
  /\ task[w].step = "running" /\ ~Holds(w)
  /\ Release(w)
  /\ UNCHANGED <<dbVars, request, process, budgets>>

\* End of the try block.
Finish(w) ==
  /\ task[w].step = "written"
  /\ Release(w)
  /\ UNCHANGED <<dbVars, request, process, budgets>>

\* Any other exception, before the final commit (storage, PDF library, OCR,
\* database) or after it (its reply is lost, the refresh of extraction.id
\* fails): the except branch rolls back, loads the row and compares leases.
UnexpectedError(w) ==
  /\ task[w].step \in {"running", "written"}
  /\ errors < MaxErrors
  /\ IF Holds(w)
     THEN task' = [task EXCEPT ![w].step = "handling",
                               ![w].loaded = Snapshot(jobs[task[w].job])]
     ELSE Release(w)
  /\ errors' = errors + 1
  /\ UNCHANGED <<dbVars, request, process, faults, requests>>

\* ... and commits a retry, or failed when the retries are used up.
HandleError(w) ==
  LET j == task[w].job
      old == task[w].loaded
  IN  /\ task[w].step = "handling"
      /\ jobs' = [jobs EXCEPT ![j] = Flush(@, old, AfterError(old))]
      /\ Release(w)
      /\ UNCHANGED <<extractions, audit, request, process, budgets>>

\* That commit raises too: _worker_loop logs process_job_crashed and goes on.
HandleErrorFails(w) ==
  /\ task[w].step = "handling"
  /\ faults < MaxFaults
  /\ Release(w)
  /\ faults' = faults + 1
  /\ UNCHANGED <<dbVars, request, process, errors, requests>>
-----------------------------------------------------------------------------
(* The reaper thread and the passage of time.                              *)

Reap ==
  /\ process = "up"
  /\ \E j \in Jobs : Stale(jobs[j])
  /\ jobs' = [j \in Jobs |-> IF Stale(jobs[j]) THEN Reaped(jobs[j]) ELSE jobs[j]]
  /\ UNCHANGED <<extractions, audit, task, request, process, budgets>>

\* With Timely, an attempt whose lease is current ends before it turns stale.
Tick ==
  /\ Timely => \A w \in Workers :
                 Holds(w) => jobs[task[w].job].age < StaleThreshold
  /\ jobs' = [j \in Jobs |-> Aged(jobs[j])]
  /\ UNCHANGED <<extractions, audit, task, request, process, budgets>>
-----------------------------------------------------------------------------
(* The manual retry endpoint: loads the row, later commits what it changed.*)

RetryLoad(h, j) ==
  /\ request[h].job = Null
  /\ requests < MaxRequests
  /\ request' = [request EXCEPT ![h] = [job |-> j, loaded |-> Snapshot(jobs[j])]]
  /\ requests' = requests + 1
  /\ UNCHANGED <<dbVars, task, process, errors, faults>>

\* With no column changed only the audit event is inserted, unless
\* failure_reason (not kept in a row) was set.
RetryCommit(h) ==
  LET j == request[h].job
      old == request[h].loaded
      new == AfterManualRetry(old)
  IN  /\ request[h].job # Null
      /\ \/ jobs' = [jobs EXCEPT ![j] = Flush(@, old, new)]
         \/ new = old /\ UNCHANGED jobs
      /\ audit' = [audit EXCEPT ![j] = @ + 1]
      /\ request' = [request EXCEPT ![h] = NoRequest]
      /\ UNCHANGED <<extractions, task, process, budgets>>

\* The request dies before its commit.
RetryFails(h) ==
  /\ request[h].job # Null
  /\ request' = [request EXCEPT ![h] = NoRequest]
  /\ UNCHANGED <<dbVars, task, process, budgets>>
-----------------------------------------------------------------------------
(* The worker process.                                                     *)

\* systemctl restart: no thread claims and the reaper stops.
Sigterm ==
  /\ process = "up"
  /\ faults < MaxFaults
  /\ process' = "draining"
  /\ faults' = faults + 1
  /\ UNCHANGED <<dbVars, task, request, errors, requests>>

\* Every thread has been joined.
Exit ==
  /\ process = "draining"
  /\ \A w \in Workers : ~Active(w)
  /\ process' = "down"
  /\ UNCHANGED <<dbVars, task, request, budgets>>

\* Out of memory, SIGKILL at TimeoutStopSec, power: every thread is lost.
Crash ==
  /\ process # "down"
  /\ faults < MaxFaults
  /\ process' = "down"
  /\ task' = [w \in Workers |-> Idle]
  /\ faults' = faults + 1
  /\ UNCHANGED <<dbVars, request, errors, requests>>

Start ==
  /\ process = "down"
  /\ process' = "up"
  /\ UNCHANGED <<dbVars, task, request, budgets>>
-----------------------------------------------------------------------------
EndAttempt(w) ==
  (\E st \in Completed : Publish(w, st)) \/ FailExtraction(w) \/ DiscardStaleWrite(w)

WorkerThread(w) ==
  \/ \E j \in Jobs : Claim(w, j) \/ ClaimReplyLost(w, j)
  \/ StartProcessing(w) \/ StartFails(w)
  \/ EndAttempt(w) \/ Finish(w)
  \/ UnexpectedError(w) \/ HandleError(w) \/ HandleErrorFails(w)

RetryEndpoint(h) == (\E j \in Jobs : RetryLoad(h, j)) \/ RetryCommit(h) \/ RetryFails(h)

WorkerProcess == Sigterm \/ Exit \/ Crash \/ Start

Next ==
  \/ \E w \in Workers : WorkerThread(w)
  \/ \E h \in Handlers : RetryEndpoint(h)
  \/ Reap \/ Tick \/ WorkerProcess

Spec == Init /\ [][Next]_vars

(***************************************************************************)
(* Threads keep polling, attempts end (an assumption: an OCR call that     *)
(* never returns refutes it, EveryRunEnds of Pipeline), the reaper wakes   *)
(* up every worker_reap_interval_seconds, systemd or an operator starts    *)
(* the process again, and time passes.                                     *)
(***************************************************************************)
Fairness ==
  /\ \A w \in Workers : /\ WF_vars(\E j \in Jobs : Claim(w, j))
                        /\ WF_vars(StartProcessing(w))
                        /\ WF_vars(EndAttempt(w))
                        /\ WF_vars(Finish(w))
                        /\ WF_vars(HandleError(w))
  /\ WF_vars(Reap) /\ WF_vars(Tick) /\ WF_vars(Exit) /\ WF_vars(Start)

FairSpec == Spec /\ Fairness
-----------------------------------------------------------------------------
(* Safety.                                                                 *)

\* The lease excludes: of the attempts at one job, however many are still
\* running after reaps and manual retries, at most one passes the WHERE
\* clause of _fenced_update (processing.py).
LeaseExclusion ==
  \A v, w \in Workers : Holds(v) /\ Holds(w) /\ task[v].job = task[w].job => v = w

\* GET /jobs/{id}/result never answers 500 "job finished but no extraction
\* record found" (invoices.py): a completed job's newest extraction has the
\* status the job shows.
CompletedHasExtraction ==
  \A j \in Jobs : jobs[j].status \in Completed =>
    /\ extractions[j] # <<>>
    /\ extractions[j][Len(extractions[j])] = jobs[j].status

\* A settled job stays as it is until somebody retries it by hand: reaped,
\* crashed and superseded attempts never reopen it and never change its
\* outcome ("no duplicate/corrupted result", README).
SettledStays ==
  [][\A j \in Jobs :
       jobs[j].status \in Terminal /\ jobs'[j].status # jobs[j].status
         => \E h \in Handlers : request[h].job = j /\ request'[h] = NoRequest]_vars

\* One result per upload and per manual retry, whatever was reclaimed and
\* run again in between.
NoDuplicateResults ==
  \A j \in Jobs : Len(extractions[j]) <= 1 + audit[j]

\* What breaks that promise is an unexpected error whose handler commits
\* after the job was settled or claimed again, and no error costs more than
\* one result too many, however the attempts, reclaims and retries interleave.
ExtraResultsAreErrors ==
  \A j \in Jobs : Len(extractions[j]) <= 1 + audit[j] + errors
-----------------------------------------------------------------------------
(* Liveness, under FairSpec.                                               *)

\* Once errors, faults and manual retries are over, every job is settled
\* and stays so: no row is stuck in queued or processing.
EveryJobSettles == <>[](\A j \in Jobs : jobs[j].status \in Terminal)

\* A row in processing that no thread can settle any more (its thread
\* crashed, gave up, or lost its lease) does not stay there.
Orphaned(j) ==
  /\ jobs[j].status = "processing"
  /\ \A w \in Workers : task[w].job = j => ~Holds(w)

OrphansReclaimed == \A j \in Jobs : Orphaned(j) ~> ~Orphaned(j)
=============================================================================
