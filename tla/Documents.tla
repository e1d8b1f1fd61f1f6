----------------------------- MODULE Documents -----------------------------
(***************************************************************************)
(* The stored PDFs against the rows of the jobs table: uploads, which save *)
(* a file and then insert its row, the daily retention cleanup, which      *)
(* deletes files and then their rows, and the manual retry endpoint.  The  *)
(* worker is seen from outside, as the sequence of states it takes a row   *)
(* through; JobQueue has its inside.                                       *)
(***************************************************************************)
EXTENDS Integers, FiniteSets, Sequences, Functions

CONSTANTS Jobs,        \* job ids
          Uploads,     \* POST /invoices requests handled at the same time
          Handlers,    \* POST /jobs/{id}/retry requests handled at the same time
          None,        \* no job
          Stuck,       \* jobs whose file can never be deleted
          MaxBacklog,  \* max_queue_backlog
          BatchSize,   \* retention_batch_size
          MaxFaults,   \* bound: crashes, failed writes, failed deletions, requeues
          MaxRequests  \* bound: manual retry requests

ASSUME DocumentsAssumption ==
  /\ None \notin Jobs /\ Stuck \subseteq Jobs /\ IsFiniteSet(Uploads)
  /\ MaxBacklog \in Nat \ {0} /\ BatchSize \in Nat \ {0}
  /\ MaxFaults \in Nat /\ MaxRequests \in Nat

VARIABLES
  row,      \* per job: "none", "queued", "processing", "done" or "deleted"
  files,    \* the jobs whose {job_id}/original.pdf exists
  created,  \* the jobs in the order of their created_at
  aged,     \* how many of these are more than retention_days old
  used,     \* the job ids generated so far
  claimed,  \* the jobs some worker has claimed
  reopened, \* the jobs queued again after they were settled, by hand or by an error
  upload,   \* per upload request, its step and its job
  request,  \* per retry request, its job and the status it loaded
  cleanup,  \* the retention run
  faults, requests  \* how much of the bounds is spent

budgets == <<faults, requests>>
vars == <<row, files, created, aged, used, claimed, reopened, upload, request, cleanup, budgets>>

Live == {"queued", "processing"}
RowStates == {"none", "done", "deleted"} \cup Live

NoUpload  == [step |-> "idle", job |-> None]
NoRequest == [job |-> None, loaded |-> "none"]

\* step     "idle", "selecting" or "deleting"
\* cutoff   how many of the created jobs the cutoff of the run leaves behind it
\* todo     rest of the batch; marked: rows passed to session.delete
\* spoiled  a marked row got an audit event or an extraction the session of
\*          the run has not loaded, and so will not delete
NoRun == [step |-> "idle", cutoff |-> 0, todo |-> {}, marked |-> {},
          spoiled |-> FALSE]

TypeOK ==
  /\ row \in [Jobs -> RowStates]
  /\ {files, used, claimed, reopened} \subseteq SUBSET Jobs
  /\ created \in Seq(Jobs) /\ IsInjective(created)
  /\ Range(created) = {j \in Jobs : row[j] # "none"}
  /\ aged \in 0..Len(created)
  /\ upload \in [Uploads -> [step: {"idle", "accepted", "saved"}, job: Jobs \cup {None}]]
  /\ \A u \in Uploads : upload[u].step # "idle" => upload[u].job \in Jobs
  /\ request \in [Handlers -> [job: Jobs \cup {None}, loaded: RowStates]]
  /\ cleanup \in [step: {"idle", "selecting", "deleting"}, cutoff: 0..Len(created),
                  todo: SUBSET Jobs, marked: SUBSET Jobs, spoiled: BOOLEAN]
  /\ faults \in 0..MaxFaults /\ requests \in 0..MaxRequests

Init ==
  /\ row = [j \in Jobs |-> "none"]
  /\ files = {} /\ created = <<>> /\ aged = 0 /\ used = {} /\ claimed = {} /\ reopened = {}
  /\ upload = [u \in Uploads |-> NoUpload]
  /\ request = [h \in Handlers |-> NoRequest]
  /\ cleanup = NoRun
  /\ faults = 0 /\ requests = 0

Fault == faults < MaxFaults /\ faults' = faults + 1

\* More than retention_days old.
Aged == {created[i] : i \in 1..aged}

\* A row of audit_events or invoice_extractions that refers to job j is
\* inserted; a foreign key ties it to the row of j.
AddsChild(j) ==
  cleanup' = IF j \in cleanup.marked THEN [cleanup EXCEPT !.spoiled = TRUE] ELSE cleanup

\* Whether this step puts a settled job back into the queue.
Reopens(j) ==
  reopened' = IF row[j] = "done" /\ row'[j] = "queued" THEN reopened \cup {j} ELSE reopened

Queued == {j \in Jobs : row[j] = "queued"}
-----------------------------------------------------------------------------
(* upload_invoice and _persist_upload.                                     *)

(* Seeded defects: no backlog check; the row inserted before the file is     *)
(* saved; an insert that is tried again after it was committed; the backlog  *)
(* checked after the file is saved.                                          *)
CheckBacklogNot(u) ==
  /\ upload[u].step = "idle"
  /\ \E j \in Jobs \ used :
       /\ used' = used \cup {j}
       /\ upload' = [upload EXCEPT ![u] = [step |-> "accepted", job |-> j]]
  /\ UNCHANGED <<row, files, created, aged, claimed, reopened, request, cleanup, budgets>>

SavePdfLate(u) ==
  /\ upload[u].step = "accepted"
  /\ upload' = [upload EXCEPT ![u].step = "saved"]
  /\ UNCHANGED <<row, files, created, aged, used, claimed, reopened, request, cleanup, budgets>>

InsertJobTwice(u) ==
  /\ upload[u].step = "saved"
  /\ row' = [row EXCEPT ![upload[u].job] = "queued"]
  /\ created' = Append(created, upload[u].job)
  /\ upload' \in {upload, [upload EXCEPT ![u] = NoUpload]}
  /\ UNCHANGED <<files, aged, used, claimed, reopened, request, cleanup, budgets>>

InsertJobIfRoom(u) ==
  /\ upload[u].step = "saved"
  /\ upload' = [upload EXCEPT ![u] = NoUpload]
  /\ IF Cardinality(Queued) < MaxBacklog
     THEN /\ row' = [row EXCEPT ![upload[u].job] = "queued"]
          /\ created' = Append(created, upload[u].job)
     ELSE UNCHANGED <<row, created>>
  /\ UNCHANGED <<files, aged, used, claimed, reopened, request, cleanup, budgets>>

\* Fewer than max_queue_backlog rows are queued: go on, with a new id.
\* Otherwise the answer is 503 and nothing changes.
CheckBacklog(u) ==
  /\ upload[u].step = "idle"
  /\ Cardinality(Queued) < MaxBacklog
  /\ \E j \in Jobs \ used :
       /\ used' = used \cup {j}
       /\ upload' = [upload EXCEPT ![u] = [step |-> "accepted", job |-> j]]
  /\ UNCHANGED <<row, files, created, aged, claimed, reopened, request, cleanup, budgets>>

SavePdf(u) ==
  /\ upload[u].step = "accepted"
  /\ files' = files \cup {upload[u].job}
  /\ upload' = [upload EXCEPT ![u].step = "saved"]
  /\ UNCHANGED <<row, created, aged, used, claimed, reopened, request, cleanup, budgets>>

\* The write raises with part of the file on disk, or the API process dies
\* before the commit: a file may stay behind, a row does not.
UploadFails(u) ==
  /\ upload[u].step # "idle"
  /\ Fault
  /\ files' \in {files, files \cup {upload[u].job}}
  /\ upload' = [upload EXCEPT ![u] = NoUpload]
  /\ UNCHANGED <<row, created, aged, used, claimed, reopened, request, cleanup, requests>>

InsertJob(u) ==
  /\ upload[u].step = "saved"
  /\ row' = [row EXCEPT ![upload[u].job] = "queued"]
  /\ created' = Append(created, upload[u].job)
  /\ upload' = [upload EXCEPT ![u] = NoUpload]
  /\ UNCHANGED <<files, aged, used, claimed, reopened, request, cleanup, budgets>>
-----------------------------------------------------------------------------
(* The worker, from outside.                                               *)

\* claim_next_job.
ClaimJob(j) ==
  /\ row[j] = "queued"
  /\ row' = [row EXCEPT ![j] = "processing"]
  /\ claimed' = claimed \cup {j}
  /\ UNCHANGED <<files, created, aged, used, reopened, upload, request, cleanup, budgets>>

\* An attempt loads the row, which the cleanup may have deleted since the
\* claim, and adds the processing_started event, in one transaction.  Which
\* attempts are still to do so is left to JobQueue.
StartJob(j) ==
  /\ j \in claimed /\ row[j] \in Live
  /\ AddsChild(j)
  /\ UNCHANGED <<row, files, created, aged, used, claimed, reopened, upload, request, budgets>>

\* A result, an ExtractionError or the last failed retry.
SettleJob(j) ==
  /\ row[j] = "processing"
  /\ row' = [row EXCEPT ![j] = "done"]
  /\ AddsChild(j)
  /\ UNCHANGED <<files, created, aged, used, claimed, reopened, upload, request, budgets>>

\* An unexpected error (it adds an event) or the reaper (it does not).
RequeueJob(j) ==
  /\ row[j] = "processing"
  /\ Fault
  /\ row' = [row EXCEPT ![j] = "queued"]
  /\ AddsChild(j) \/ UNCHANGED cleanup
  /\ UNCHANGED <<files, created, aged, used, claimed, reopened, upload, request, requests>>

\* The except branch commits what it made of the row it loaded, though the
\* row has been requeued or settled by now (JobQueue: UnexpectedError after
\* the commit of the result; HandleError, which is not fenced).
LateError(j) ==
  /\ j \in claimed /\ row[j] \in {"queued", "done"}
  /\ Fault
  /\ \E st \in {"queued", "done"} : row' = [row EXCEPT ![j] = st]
  /\ Reopens(j)
  /\ AddsChild(j)
  /\ UNCHANGED <<files, created, aged, used, claimed, upload, request, requests>>
-----------------------------------------------------------------------------
(* retry_job.                                                              *)

\* db.get; 404 when there is no row.
RetryLoad(h, j) ==
  /\ request[h].job = None
  /\ requests < MaxRequests
  /\ row[j] \notin {"none", "deleted"}
  /\ request' = [request EXCEPT ![h] = [job |-> j, loaded |-> row[j]]]
  /\ requests' = requests + 1
  /\ UNCHANGED <<row, files, created, aged, used, claimed, reopened, upload, cleanup, faults>>

\* The flush writes status only if it was not queued when it was loaded.
RetryCommit(h) ==
  LET j == request[h].job
  IN  /\ j # None /\ row[j] # "deleted"
      /\ row' = IF request[h].loaded = "queued" THEN row ELSE [row EXCEPT ![j] = "queued"]
      /\ Reopens(j)
      /\ AddsChild(j)
      /\ request' = [request EXCEPT ![h] = NoRequest]
      /\ UNCHANGED <<files, created, aged, used, claimed, upload, budgets>>

\* The request dies, or its row is gone: the flush raises.
RetryFails(h) ==
  /\ request[h].job # None
  /\ request' = [request EXCEPT ![h] = NoRequest]
  /\ UNCHANGED <<row, files, created, aged, used, claimed, reopened, upload, cleanup, budgets>>
-----------------------------------------------------------------------------
(* cleanup_expired_jobs and the passing of days.                           *)

\* One more created_at falls behind the cutoff of a run that starts now.
Expire ==
  /\ aged < Len(created)
  /\ aged' = aged + 1
  /\ UNCHANGED <<row, files, created, used, claimed, reopened, upload, request, cleanup, budgets>>

\* The timer fires; the cutoff is computed once.
StartCleanup ==
  /\ cleanup.step = "idle"
  /\ cleanup' = [NoRun EXCEPT !.step = "selecting", !.cutoff = aged]
  /\ UNCHANGED <<row, files, created, aged, used, claimed, reopened, upload, request, budgets>>

Older(j, k) ==
  \E a, b \in DOMAIN created : a < b /\ created[a] = j /\ created[b] = k

(* Seeded defect: no created_at in the WHERE clause. *)
SelectedAnyAge ==
  LET candidates == {j \in Jobs : row[j] = "done"}
  IN  {j \in candidates : Cardinality({k \in candidates : Older(k, j)}) < BatchSize}

\* WHERE status IN terminal AND created_at < cutoff ORDER BY created_at LIMIT n
Selected ==
  LET expired    == {created[i] : i \in 1..cleanup.cutoff}
      candidates == {j \in expired : row[j] = "done"}
  IN  {j \in candidates : Cardinality({k \in candidates : Older(k, j)}) < BatchSize}

SelectBatch ==
  /\ cleanup.step = "selecting"
  /\ cleanup' = IF Selected = {} THEN NoRun
                ELSE [cleanup EXCEPT !.step = "deleting", !.todo = Selected, !.marked = {},
                                     !.spoiled = FALSE]
  /\ UNCHANGED <<row, files, created, aged, used, claimed, reopened, upload, request, budgets>>

\* The files of a batch are deleted oldest first.
NextFile(j) == j \in cleanup.todo /\ \A k \in cleanup.todo : ~Older(k, j)

(* Seeded defects: storage.delete raising for a missing file; no "continue". *)
DeleteFileOnce(j) ==
  /\ NextFile(j) /\ j \notin Stuck
  /\ files' = files \ {j}
  /\ cleanup' = [cleanup EXCEPT !.todo = @ \ {j},
                    !.marked = @ \cup ({j} \cap files)]
  /\ UNCHANGED <<row, created, aged, used, claimed, reopened, upload, request, budgets>>

DeleteFileFailsButMarks(j) ==
  /\ NextFile(j)
  /\ IF j \in Stuck THEN UNCHANGED faults ELSE Fault
  /\ cleanup' = [cleanup EXCEPT !.todo = @ \ {j}, !.marked = @ \cup {j}]
  /\ UNCHANGED <<row, files, created, aged, used, claimed, reopened, upload, request, requests>>

\* storage.delete, which does not mind a missing file, then session.delete,
\* which loads the events and extractions to delete with the row.
DeleteFile(j) ==
  /\ NextFile(j) /\ j \notin Stuck
  /\ files' = files \ {j}
  /\ cleanup' = [cleanup EXCEPT !.todo = @ \ {j}, !.marked = @ \cup {j}]
  /\ UNCHANGED <<row, created, aged, used, claimed, reopened, upload, request, budgets>>

\* The deletion raises, once or, of a stuck file, every time: the row is left
\* out of the batch.
DeleteFileFails(j) ==
  /\ NextFile(j)
  /\ IF j \in Stuck THEN UNCHANGED faults ELSE Fault
  /\ cleanup' = [cleanup EXCEPT !.todo = @ \ {j}]
  /\ UNCHANGED <<row, files, created, aged, used, claimed, reopened, upload, request, requests>>

\* The DELETEs go by primary key.  A row that still has children stays, and
\* with it the batch: the commit raises and the run ends.
CommitBatch ==
  /\ cleanup.step = "deleting" /\ cleanup.todo = {}
  /\ IF cleanup.spoiled
     THEN cleanup' = NoRun /\ UNCHANGED row
     ELSE /\ row' = [j \in Jobs |-> IF j \in cleanup.marked THEN "deleted" ELSE row[j]]
          /\ cleanup' = [cleanup EXCEPT !.step = "selecting", !.marked = {}]
  /\ UNCHANGED <<files, created, aged, used, claimed, reopened, upload, request, budgets>>

CleanupDies ==
  /\ cleanup.step # "idle"
  /\ Fault
  /\ cleanup' = NoRun
  /\ UNCHANGED <<row, files, created, aged, used, claimed, reopened, upload, request, requests>>
-----------------------------------------------------------------------------
Next ==
  \/ \E u \in Uploads : CheckBacklog(u) \/ SavePdf(u) \/ UploadFails(u) \/ InsertJob(u)
  \/ \E j \in Jobs : \/ ClaimJob(j) \/ StartJob(j) \/ SettleJob(j) \/ RequeueJob(j)
                     \/ LateError(j) \/ DeleteFile(j) \/ DeleteFileFails(j)
  \/ \E h \in Handlers : (\E j \in Jobs : RetryLoad(h, j)) \/ RetryCommit(h) \/ RetryFails(h)
  \/ Expire \/ StartCleanup \/ SelectBatch \/ CommitBatch \/ CleanupDies

Spec == Init /\ [][Next]_vars

\* The worker settles what it claims (JobQueue), the timer fires every day,
\* and a run goes on until it ends, whatever becomes of the deletions.
Fairness ==
  /\ WF_vars(\E j \in Jobs : ClaimJob(j)) /\ WF_vars(\E j \in Jobs : SettleJob(j))
  /\ WF_vars(\E j \in Jobs : DeleteFile(j) \/ DeleteFileFails(j))
  /\ WF_vars(StartCleanup) /\ WF_vars(SelectBatch) /\ WF_vars(CommitBatch)

FairSpec == Spec /\ Fairness
-----------------------------------------------------------------------------
\* The worker finds the PDF of every job it claims: uploads save the file
\* before the row exists, and the cleanup, however stale its batch, deletes
\* only those of settled jobs and of jobs that were settled once and queued
\* again, by hand or by an error after the last commit (processing.py:109).
LiveJobHasFile ==
  \A j \in Jobs : row[j] \in Live => j \in files \/ j \in reopened

\* The cleanup leaks no file: "file is deleted before the DB row ... rather
\* than leaking orphaned files" (retention.py), whatever fails in between.
NoLeakedFile == \A j \in Jobs : row[j] = "deleted" => j \notin files

\* Within its retention a job keeps its row and its file, whatever else the
\* cleanup deletes, however long a run takes and however stale its cutoff:
\* get_job_pdf does not answer 404 for it, nor does the stream it has begun
\* break because the file went after the check (invoices.py).
RetentionKept ==
  \A j \in Jobs : row[j] # "none" /\ j \notin Aged => row[j] # "deleted" /\ j \in files

\* A file without a row, which no cleanup ever finds, is the leftover of one
\* failed upload: a request that is refused or goes through leaves none.
StrayFilesAreFailures ==
  Cardinality({j \in files : row[j] = "none" /\ \A u \in Uploads : upload[u].job # j})
    <= faults

\* How far concurrent uploads can overshoot max_queue_backlog: by one row
\* for each upload but the first that was past its check at the time.
BacklogOvershoot ==
  Cardinality(Queued \ claimed) <= MaxBacklog - 1 + Cardinality(Uploads)

\* Completed jobs that are past their retention are deleted or queued again, however
\* often runs died halfway through them, provided every file can be deleted
\* in the end (Stuck = {}): time and again there is none.
ExpiredJobsGo == []<>(\A j \in Aged : row[j] # "done")

\* A row whose file cannot be deleted is left "for the next cycle"
\* (retention.py:51): the run ends, and so another one can begin.
CleanupEnds == cleanup.step # "idle" ~> cleanup.step = "idle"

\* "queued/processing jobs are never touched regardless of age" (README).
LiveJobsUntouched ==
  [][\A j \in Jobs :
       row[j] \in Live => row'[j] # "deleted" /\ (j \in files => j \in files')]_vars
=============================================================================
