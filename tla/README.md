# Verification of the invoice extraction service

TLA+ models of the service, the TLC configurations that check them, and TLAPS
proofs about them. Paths are relative to the root of the repository
(`app/...`); the names of operators are those of the code where TLA+ allows it.

    tlc -workers 2 -config queue_races.cfg MCJobQueue     # any run of PROJECT.json
    tlapm JobQueueProofs.tla                              # any *Proofs module

## 1. The system

| component | code | state it keeps | operations | talks to the others through |
|---|---|---|---|---|
| upload | `api/routers/invoices.py` `upload_invoice`, `_persist_upload` | none of its own | check backlog, save file, insert row | the jobs table, the file store |
| manual retry | `invoices.py` `retry_job` | a loaded row, until its commit | reset a row to queued | the jobs table |
| read endpoints | `invoices.py` `get_job_*`, `list_jobs` | none | reads | the tables, the file store |
| request handling | `db/base.py`, `api/deps.py`, the routers | per process: event loop, thread limiter, connection pool | dispatch to threads, check connections out and in | every endpoint |
| job queue | `worker/claim.py`, `worker/processing.py`, `worker/runner.py`, `db/models.py` | `jobs`, `invoice_extractions`, `audit_events`; threads of the worker process | claim, process, publish, fail, retry with backoff, reap, drain and restart | the tables |
| pipeline | `pipeline/run.py`, `triage.py`, `ocr.py`, `llm_structurer.py`, `services/ollama_client.py` | one OCR engine per thread, a host cycle per run | pages, OCR with a timeout, three LLM attempts | a call of the queue's `process_job` |
| review stages | `pipeline/grounding.py`, `business_rules.py`, `status.py`, `normalize.py` | none | ground, check rules, assign flags and status | arguments and results |
| file store | `storage/local_fs.py` | `{job_id}/original.pdf` | save, read, stream, delete | files |
| retention | `worker/retention.py`, a daily timer | none between runs | delete files, then rows, in batches | the tables, the file store |
| metrics, health, backups | `metrics.py`, `api/routers/{metrics,health}.py`, `scripts/pg_backup.sh` | counters, dump files | count, report, rotate | nothing that feeds back |

API, worker and cleanup are separate processes. They share nothing but Postgres
and the directory of the PDFs: no lock outlives a transaction, and every step
below is one transaction or one file operation. Inside one API process the
requests also share its event loop, its threads and its connection pool
(`pool_size` 10 and `max_overflow` 20 against the 40 threads of Starlette).

**What is hard.**
*Concurrency*: two attempts at one job exist whenever the reaper or a person
requeues a job whose attempt is slow; the retry endpoint writes a row it loaded
earlier; uploads count and insert without a lock; the cleanup deletes what it
selected earlier; a client lists page by page what both change; requests of one
process wait for connections, threads and the loop while they hold one of these.
*Failure*: kills, restarts, lost replies of commits, failed
writes and deletions, one host of several down. *Time*: backoff, stale
threshold, OCR timeout, retention. *Ordering*: file before row, file deleted
before row, extraction with status.

**What makes each part correct.**
*Queue*: one writer per job; a status and its extraction agree; a settled job
stays settled; one result per request for one; no job is forgotten.
*Documents*: the file is there while it is needed and gone when the row is;
unexpired jobs keep theirs; a refused upload leaves none; the backlog has a
bound; expired jobs go; a listing skips no job.
*API process*: no connection is lost, nobody waits for one with one in hand,
every request is answered.
*Pipeline*: an engine is used by one call; failover reaches every host; a
correction is asked for the right answer; a run ends, except where an OCR call
hangs. *Review*: what is doubtful is flagged, and nothing else.

`PROJECT.json` lists every hazard with its line and the properties aimed at it.

## 2. Modules

| module | models | extends |
|---|---|---|
| `JobRows` | the columns of `jobs` and what each statement makes of them | – |
| `JobQueue` | worker threads, reaper, retry endpoint, worker process over the rows | `JobRows` |
| `JobLease` | abstract specification: leases of jobs to workers | – |
| `JobQueueRefinement` | the mapping to `JobLease` and the inductive invariant | `JobQueue` |
| `MCJobQueue` | instances for TLC, symmetry | `JobQueueRefinement` |
| `JobQueueProofs` | theorems | `JobQueueRefinement`, `TLAPS` |
| `Documents`, `DocumentsProofs` | uploads, file store, retention, against the life of a row | – |
| `DocumentBoundsProofs` | the counts: stray files, overshoot of the backlog | `DocumentsProofs` |
| `DocumentReads`, `DocumentReadsProofs` | a client of `GET /jobs` over `Documents` | `Documents`, `DocumentsProofs` |
| `MCDocuments` | instance for TLC: job ids in order | `DocumentReads` |
| `ApiServer`, `ApiServerProofs` | loop, threads and connections of an API process | – |
| `Pipeline`, `PipelineProofs` | `run_pipeline` up to the LLM's answer | – |
| `Review`, `ReviewProofs` | the stages after the answer | – |

How they fit together: `JobQueue` treats `run_pipeline` as a free choice
between a result, an `ExtractionError` and any other exception; `Pipeline` has
what decides between these. That an attempt ends is an assumption of `JobQueue`'s
fairness, and one the code does not guarantee: `ocr_hang` refutes it for an OCR
call that never returns. `Review` has what turns an answer into `needs_review`.
`Documents` sees the worker from outside, as the states it takes a row through,
the late write of `HandleError` included. `ApiServer` sees every request, also
those of `Documents` and `JobQueue`, from below: what it holds and waits for.
A request that fails there is `UploadFails`, `RetryFails` or an answer that
got lost.

### JobRows and JobQueue

A row is `[status, retries, lease, due, age]`. Times are relative: `due` is what
is left until `next_attempt_at` (`NoDelay` for NULL), `age` what has passed
since `updated_at` of a processing row. `Tick` is the clock. `retries` saturates
at `MaxRetries`, since the code compares it with that number only (and the
backoff of a larger one is never computed). The operators `Due`, `Stale`,
`Claimed`, `Reaped`, `Settled`, `Backoff` are the WHERE and SET parts of the
statements.

Two writers do not use a fenced UPDATE: `retry_job` and the except branch of
`process_job` load a row, assign attributes and commit. SQLAlchemy writes the
attributes whose value differs from the loaded one, by primary key. `Snapshot`
is the load, `Flush(r, old, new)` that write over a row that may have changed
in between; load and flush are separate actions (`RetryLoad`/`RetryCommit`,
`UnexpectedError`/`HandleError`).

| action | code |
|---|---|
| `Claim`, `ClaimReplyLost` | `claim_next_job`; the exception path of `_worker_loop` |
| `StartProcessing`, `StartFails` | `process_job` up to the `try` |
| `Publish`, `FailExtraction`, `DiscardStaleWrite` | the fenced writes |
| `Finish`, `UnexpectedError` | the end of the `try`, with or without an exception, before or after the final commit |
| `HandleError`, `HandleErrorFails` | the except branch's commit |
| `Reap` | `reap_stale_jobs` |
| `RetryLoad`, `RetryCommit`, `RetryFails` | `retry_job` |
| `Sigterm`, `Exit`, `Crash`, `Start` | `runner.main`, systemd |

`NextDue` is `ORDER BY created_at FOR UPDATE SKIP LOCKED LIMIT 1`: an older due
row is passed over only while another session may have it locked.

All jobs of an instance are in the table from the start, queued: a later upload
only adds a due row, and `Documents` has the uploads themselves.

`extractions[j]` lists the statuses of the extraction rows of a job; `audit[j]`
counts its `retried` events, one per manual retry: what `NoDuplicateResults`
compares the number of results with. A job the retention deletes between claim and load (`job_not_found`)
is a matter of `Documents`: rows do not disappear in `JobQueue`.

### JobLease

What the queue promises: a waiting job is granted to one worker (or to nobody,
when the reply is lost), only its holder settles it, with at most one result;
leases are lost and reclaimed without a result. `Reopen` has no guard: that a
settled job waits again only after a manual retry is `SettledStays`. The mapping is in `JobQueueRefinement`: status to phase,
the thread that passes the fence to owner, the number of extractions to results.
It holds when no unexpected error occurs (`MaxErrors = 0`); with one, the
unfenced commit of the except branch breaks it (section 3, `error_after_commit`).
How much it breaks is `ExtraResultsAreErrors`: one result too many per error.

### Documents

`row[j]` is the life of a row ("none" before the insert, "done" for the three
final statuses), `files` the PDFs on disk. An upload is three steps, check,
save, insert, and may die between them. `created` is the order of `created_at`,
`aged` how many of those are past `retention_days` by now, `cleanup.cutoff` how
many were when the run computed its cutoff. A cleanup run selects a batch,
deletes the files one by one, marks the rows with `session.delete` and commits.
`session.delete` loads the events and extractions to cascade to; one inserted
later (`AddsChild`) makes the DELETE fail on its foreign key and ends the run
(`spoiled`). `StartJob` is the transaction of `processing_started`, one of its own
after the claim. `LateError` is the write of the
except branch when the row is no longer in processing: an error after the final
commit, or a commit that was overtaken (`JobQueue`). It may come at any time, also
when the cleanup has selected the job it reopens, and then costs a live job its
file just as the manual retry in `live_jobs_touched` does: `LiveJobHasFile`
excludes no more than the jobs queued again after they were settled
(`reopened`). The files in `Stuck` can never be deleted; the other deletions fail
as often as `MaxFaults` says. `reopened` and `claimed` are history.

`DocumentReads` adds a client that walks through `GET /jobs` without a filter,
one query per page, looking for a job (`watch`) that was stored when it began.

### ApiServer

A request is a coroutine on the loop. A plain function (`def`) runs in a thread;
its token of the limiter comes back when the loop takes the result. A session
checks a connection out at its first query and gives it back at a commit, a
rollback or `close`. So a request goes through: a thread (`Dispatch`), a
connection (`Connect`), work, the loop again, a thread that validates the
response model with the session still open (`TakeAnswer`, `Validate`), the loop,
`session.close` in a thread of its own (`Close`), the response. The kinds of
request differ in the connections they need:

| clients | endpoints | connections |
|---|---|---|
| `Queries` | `GET /jobs...`, `/metrics` | one, until `close` |
| `Probes` | `/api/v1/health` | one for `SELECT 1`, given back, one for the counts; goes on without either (`/readyz` is its first half) |
| `Retries` | `POST /jobs/{id}/retry` | one until the commit, one for the expired row that the answer quotes |
| `Uploads` | `POST /invoices` | the same, but the second one **on the loop** (`Reload`): `job.id` is read in the coroutine |

`ReloadTimesOut` and `ConnectTimesOut` are the `pool_timeout` of SQLAlchemy. Not
in this model: uploads refused before they need anything (400), and the threads
that stream a PDF after its session is closed.

### Pipeline

A run is a sequence of pages, each digital or scanned. A scanned page is an OCR
call in a pool thread on the engine of the worker thread. `OcrTimesOut` leaves
`future.result`, and the run then stands in the exit of the
`ThreadPoolExecutor` (`leaving`) until the call ends, if it ever does. Then up to three requests,
each to the next host of the client's cycle. `Dispose` hands the outcome to
`process_job`, whose actions for it are in `JobQueue`. Whether a page has text, how an OCR call or a request
ends and when are free choices. A prompt after the first quotes the previous answer and its error, or nothing:
`last` names the attempts the two come from.

### Review

A value is what the stages can tell apart: null, empty, blank, printed (found in
the text, by whatever match) or unprinted. Which of these a field can have comes
from the pydantic schema. `GroundExtraction`, `RunBusinessRules` and `AllFlags`
are the three stages; the fields are the ones of `constants.py` and
`invoice_schema.py`, an instance takes a subset. `additional_fields` passes
through every stage untouched and is left out.

## 3. Runs

Runs that pass:

| run | bounds | states | shows |
|---|---|---|---|
| `queue_races` | 1 job, 2 threads, 2 retry requests at once, 2 errors, 1 fault | 1.0 M | `LeaseExclusion`, `CompletedHasExtraction`, `ExtraResultsAreErrors` with everything that can go wrong |
| `queue_fencing` | 2 jobs, 2 threads, 2 manual retries, 1 fault, no errors | 0.8 M | `FenceInv`, `NoDuplicateResults`, `SettledStays`, refinement of `JobLease` |
| `queue_recovery` | 1 job, 2 threads, 2 errors, 2 faults, 1 retry, fairness | 0.5 M | `EveryJobSettles`, `OrphansReclaimed` |
| `documents` | 3 jobs, 2 uploads at once, batch 2, backlog 1, 1 fault, 1 retry, pages of 1, fairness | 1.7 M | `LiveJobHasFile`, `NoLeakedFile`, `RetentionKept`, `StrayFilesAreFailures`, `BacklogOvershoot`, `ListingMissesNone`, `ExpiredJobsGo` |
| `pipeline` | 2 threads, 2 engines, 3 hosts, PDFs of up to 2 pages, 3 runs, fairness | 90 k | `EngineExclusive`, `AllHostsAsked`, `CorrectionMatches`, `OnlyPoolHolds` |
| `api` | 1 client of each kind, 2 threads, 2 connections, fairness | 25 k | `NoHoldAndWait`, `NoConnectionLost`, `EveryRequestAnswered` |
| `review` | 4 header and 3 line fields, one per kind, up to 1 line | 0.3 M | `FlagsAreTheDoubts`, `AlwaysReviewed`, `CriticalDoubtIsCritical` |

Runs that find the program at odds with what the repository says of it:

| run | the code | says otherwise |
|---|---|---|
| `error_after_commit` | an exception after the final commit (`processing.py:107-110`) requeues a settled job, which is processed again | README, "no duplicate/corrupted result" |
| `live_jobs_touched` | the cleanup deletes a job retried after it was selected | README, "never touched" |
| `cleanup_stuck` | a row whose file cannot be deleted is selected again by the next batch of the same run (`retention.py:33`), which never ends | `retention.py:51`, "leave this row for the next cycle" |
| `ocr_hang` | after an OCR timeout the exit of the `ThreadPoolExecutor` waits for the call (`run.py:45`), so a call that never returns keeps its thread for ever | README:240-242, "fails cleanly instead of tying up a worker thread indefinitely" |
| `loop_stall` | the answer to an upload reloads the committed job on the event loop, which waits there for a connection | README:143-145, "doesn't stall the event loop either way" |

Each run of the second table has one property, and the counterexample is a short
trace that can be followed in the code.

Seen while modelling, with no run of their own; the models do what the code does
in each case:

- `additional_fields` is never compared with the text; `grounding.py:108-110` has
  "every field the LLM populated".
- The commit of the except branch (`processing.py:138`) is not conditioned on the
  lease: a manual retry, a reap and a new claim between the load of the row and
  that commit are overwritten (`HandleError` with `Flush`), against
  `models.py:50-52`, "every write a worker makes back to this job ... is
  conditioned on matching this token". How much that can do is
  `ExtraResultsAreErrors`.
- Nobody sets `version` (`models.py:70`), so after a manual retry of a finished job
  `ORDER BY version DESC` (`invoices.py:155`) may return the old extraction.
- Two uploads of one file at the same time are not flagged `possible_duplicate`:
  neither count sees the other row (`invoices.py:70-75`).
- With `?status=` the pages of `GET /jobs` can skip a job: a row that leaves the
  status between two pages moves the others up. `ListingMissesNone` is about the
  list without a filter.
- `health.py:87` keeps the "ok" of the first check when the counts fail.
- `metrics.py:1-5` says the counters of the worker "end up in the same registry
  that the API's /metrics endpoint serves"; the worker is a process of its own,
  so they do not, and neither do those of the other three API processes.
- The guard of `processing.py:51-54` "should never trigger", and can: a claimed
  job is retried by hand, claimed again and settled before its first thread
  loads it (`StartProcessing` on a settled row).
- The reaper spends the retries of errors (`claim.py:64`), so a job reclaimed
  after a restart gets fewer than the "3 attempts" of the service's README, or none.
- Uploads that pass the backlog check together all insert (`invoices.py:48`), so
  `.env.example:45` ("503 once this many jobs are queued") holds only up to the
  number of concurrent uploads, which is what `BacklogOvershoot` states.
- An OCR timeout is an `ExtractionError` and fails the job (`processing.py:67`);
  `.env.example:57-58` has it "eligible for automatic retry".
- Every HTTP error of Ollama ends as an `LLMFormatError`, by `exceptions.py:10` an
  answer that is not schema-conformant, and fails the job for good.
- The "round-robin" of `ollama_client.py:19` starts at the first host for every
  invoice, so hosts after the first serve retries only.

**The bounds.** Two threads, because the properties compare pairs of attempts
(the proofs cover any number). One job where the properties are about one job;
two where the order of claims matters and a lease might name the wrong job; three
documents so that a batch of two leaves one behind, and so that a page of one
has rows before and behind it. `MCDocuments` draws job ids in order: ids are
uuids, no action compares them, and so the states it leaves out are renamings. It
also leaves out a retry request under way while a client walks the list, which
stores no row and moves none; `NoneMissed` is proved with both. No file is stuck in
`documents`, where `ExpiredJobsGo` needs every file to go in the end, nor in
`live_jobs_touched`, which has no faults either; one is in `cleanup_stuck`.
Two connections, because a circle needs every connection held by somebody else,
and two threads, because then both circles of `api` exist in it: the loop at
`Reload` with both connections in returned requests, and both threads waiting
for connections that two requests hold while they wait for a thread;
`loop_stall` has a third thread, as the service has more threads than
connections, and finds the first circle there too. Three tokens for one job,
one more than the attempts that can be alive plus the one in the row, so a claim
always finds a fresh one. `MaxErrors`, `MaxFaults`, `MaxRequests` and
`MaxRuns` bound how often something goes wrong or is asked for, in the guards of
the actions that name them. `StaleThreshold = 0` in the safety runs makes every
attempt reclaimable at once, the worst case; `queue_recovery` has 1 with
`Timely`, an attempt ends before it is stale (20 minutes against the 6.5 minutes
of `config.py`): without it a slow attempt can be reclaimed and run again
for ever, which is how the design is meant. `BaseDelay = 2`, `MaxDelay = 1` in
`queue_races` makes the cap of the backoff bite at the first retry. `OcrTimeout =
1` distinguishes before, at and after the timeout. `ticks` saturates
one above what is compared. No run stops: the clock, the timer and the next
invoice always can go on, so deadlock is checked in every run.

**Fairness.** `JobQueue`: worker threads poll (`_worker_loop` never leaves its
loop otherwise), an attempt ends (an assumption, see above), the except branch commits, the
reaper wakes up every `worker_reap_interval_seconds`, a worker that is down is
started again (`Restart=on-failure`, or the operator who stopped it), time
passes. All of it is weak fairness; nothing is assumed of errors, faults and
requests. `Pipeline`: the threads go on and requests are answered or time out
(`ollama_timeout_seconds`). Nothing is assumed of OCR calls: one may never return.
That is what `OnlyPoolHolds` is about, a run that does not end stands in the exit of
the executor, and what refutes `EveryRunEnds` in `ocr_hang`.
`Documents`: the worker settles what it claims, the timer fires, a run goes on
whatever becomes of its deletions. `ApiServer`: strong fairness for what a request waits
for on the loop and at the limiter, because both serve first come, first served;
weak for the rest: queries end, and a wait for a connection ends with a
connection or with `pool_timeout`. Nothing is assumed of the pool's order, so
the same request may time out each time it is sent.

## 4. Proofs

All for any values of the constants that satisfy the named assumptions
(`RowAssumption`, `QueueAssumption`, `DocumentsAssumption`,
`PipelineAssumption`, `ReviewAssumption`, `ApiAssumption`, `LimitAssumption`).
They are ranges of the settings, finitely many uploads or clients at a time where
these are counted, and that the value for "none" is none of the things it
stands in for. `MaxErrors`, `MaxFaults` and the like are any numbers, so no
theorem depends on how often something goes wrong, except those that say so by
the hypothesis `MaxErrors = 0`.

`JobQueueProofs`
: `TypeCorrect` is inductive as it stands, split into the tables, the tasks and
  the rest; the lemmas before it say that each statement of `JobRows` makes a row
  of a row. `OnlyOneHolder`: `LeaseExclusion` is not inductive, `TokensDistinct`
  is, since a claim takes a token no task and no row has, and no other step gives
  a task a token (`AttemptKept`). It needs no assumption about errors.
  `CompletedServed` is proved step by step: a step either keeps the status and the
  extractions of a job, or appends the extraction whose status it writes, or
  (reaper, manual retry, except branch) writes a status that promises none.
  `Fence`, `NoDuplicates` and `SettledForGood` assume `MaxErrors = 0` and rest on
  `FenceInv`: tokens are distinct, a lease names one attempt, a row has no lease
  exactly when it is queued, *in the table and in what a retry request has
  loaded*, a holder that has not written finds its job in processing, and the
  results are counted by the requests. The part about loaded rows is what makes
  it inductive: a retry that loaded a queued row changes no column and so
  cannot reopen a row that was settled meanwhile, while any other retry takes
  the lease away together with the status.

  `ImplementsLease` is the refinement of `JobLease`, under the same hypothesis.
  `OwnerKnown` takes the `CHOOSE` out of `owner`: by `TokensDistinct` a job has
  one owner at most. `Claim` maps to `Grant(j, w)`, `ClaimReplyLost` to
  `Grant(j, Null)`, `Publish` and `FailExtraction` to `Settle`, `Reap` to
  `Reclaim`, a `RetryCommit` that writes the status to `Reopen`. Every other step
  changes no row and starts no attempt, so it can only lose owners (`QuietStep`):
  `Lose` of those that have none any more, of no job when it is a stutter.
  `ErrorsArePaid` has no hypothesis on errors. `NoDuplicateResults` is false with
  them, and `ExtraResultsAreErrors` is not inductive: a settled job may have a
  result to come, when the handler of a superseded attempt has failed it under a
  running one, or when a handler that has loaded its row is about to requeue it.
  So `ResultsPaid` counts the result a job still awaits (`Open`) on the left, and
  on the right only the errors whose handler is through (`Spent`); a handler
  that commits pays for what it opens, a retry for what it reopens, and `Publish`
  shuts the job, since by `TokensDistinct` no other thread is running under
  its lease.

`DocumentsProofs`
: The invariant adds to the properties that ids of uploads under way are
  distinct and have no row yet, that a retry request knows its job, and that what
  a cleanup run has in hand is expired, and final or queued again since.
  `NothingLeaked` needs that a marked row has no file; `LiveJobsHaveFiles` that a
  saved upload has one and that a step which queues a settled job is a retry or a
  late error, which note it in `reopened`; `RetentionIsKept` that a run touches jobs behind its
  cutoff only (`CleanupOnAged`) and that a job between save and insert has its file.

`DocumentBoundsProofs`
: `StrayFilesBounded`: no step but `UploadFails` adds a file without a row and a
  request (`StrayStep`), and it spends a fault. `OvershootBounded`: each upload
  past its check has a place to fill, so unclaimed rows and active uploads are
  counted together (`PlacesBounded`). A check succeeds only while fewer than
  `MaxBacklog` rows are queued, an insert turns a place into a row, and no other
  step queues a row that was never claimed (`WorkIsClaimed`: also what a retry
  request loaded past "queued" has been claimed).

`DocumentReadsProofs`
: `NoneMissed`: the job looked for is expired, or stored with at least as many
  rows before it as the walk has passed (`WatchAhead`). Writers keep that
  (`RowsMoveDown`): rows are appended to `created`, those before an unexpired row
  are unexpired, and so none of them is deleted (`RetentionIsKept`). A page that does
  not show the job cannot be empty (`PageReached`): the ranks of the job and of
  the rows before it are distinct, so they take every value up to its own, the
  offset of the page among them.

`ApiServerProofs`
: `ConnectionsComeBack` says where a request may hold a connection and
  `NeverHoldAndWait` follows, with one more conjunct: an upload whose handler
  returned has none (`UploadsReleased`), so that its reload on the loop takes its
  first. `LimitsKept` counts: of two finite sets of clients only the actions that
  ask for room add a member (`Grows`), all others keep or shrink them (`Shrinks`).

`PipelineProofs`
: A call belongs to a thread that waits for it or is leaving, a thread has one
  call at most, and the engines of two threads differ; `OneCallPerEngine` follows.
  `CorrectionsMatch`: nothing is recalled before the first request
  (`Recollections`), and a failed one overwrites both halves. `HostsExhausted`: the
  hosts a run has asked are consecutive on the cycle, which starts at the first
  (`CycleInv`), so a round of it repeats none before all were asked; a run that
  ends with `LLMFormat` has made `MaxAttempts` requests.

`ReviewProofs`
: `FlagsExact` follows from what each stage flags: the rules exactly the missing
  mandatory values (`RuleFlags`), grounding exactly the unprinted and inferred
  ones it checks (`GroundingFlags`, `DoubtsOfChecked`). `NeverSuccess` from the
  flag on `currency` (`CurrencyFlagged`). `CriticalFlagged`: of a critical field,
  the rules flag the empty value (`EmptyIsCritical`) and grounding the unprinted one
  (`UnprintedIsCritical`), both as critical.

Every invariant and action property of a passing run has its theorem. Only
model-checked: liveness (`EveryJobSettles`, `OrphansReclaimed`, `ExpiredJobsGo`,
`OnlyPoolHolds`, `EveryRequestAnswered`), since fairness and ENABLED are out of the
prover's reach. `SettledStays`, `FenceInv`, `NoDuplicateResults` and the refinement
of `JobLease` have their theorems under `MaxErrors = 0` only, and are false
otherwise; what holds otherwise is `ErrorsArePaid`.

## 5. Not modelled

Text, number and date matching, the order of lines in `source_text`, prompts and
their wording: data the properties do not tell apart. PyMuPDF, PaddleOCR, Ollama
and Postgres are seen through what the code does with their answers. Logging
changes nothing. The counters of `metrics.py` are incremented and never read by
the code: a model of them would restate the increments. The migrations, the
scripts and the backups run outside the life of the service, one at a time, on
what nothing else writes. `GET /jobs/{id}` reads one row; the checks of `/readyz`
keep no state.

## 6. Plan

Done: the queue with its abstract specification, documents with a reader, the
API process, pipeline, review; the proofs of section 4.

Next, in this order:

1. Composition: the worker of `Documents` as an abstraction of `JobQueue`. Seen
   through one job, a step of `JobQueue` should be `ClaimJob`, `StartJob`,
   `SettleJob`, `RequeueJob`, `LateError`, a step of the retry endpoint or none of these; that
   needs `claimed` as a history variable over `JobQueue`, and `Reap`, which
   requeues several jobs at once, rules out a mapping of whole states. Then the two
   models of the retry endpoint are one.
2. With errors: that a settled job is changed by a retry, by a handler or by the
   holder a handler has settled it under, and by nothing else, an action property
   that holds where `SettledStays` does not.
