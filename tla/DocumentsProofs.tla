-------------------------- MODULE DocumentsProofs --------------------------
(***************************************************************************)
(* Proofs about the stored PDFs: which live jobs have their file and which *)
(* deleted rows leave none behind, for any number of jobs, uploads, retry  *)
(* requests, failures and any batch size.                                  *)
(***************************************************************************)
EXTENDS Documents, FiniteSetTheorems, TLAPS

\* An upload under way has an id to itself, with no row yet, and with a file
\* once it is saved.
UploadsApart ==
  /\ \A j \in Jobs : row[j] # "none" => j \in used
  /\ \A u \in Uploads : upload[u].step # "idle" =>
       /\ upload[u].job \in used /\ row[upload[u].job] = "none"
       /\ upload[u].step = "saved" => upload[u].job \in files
  /\ \A u, v \in Uploads :
       u # v /\ upload[u].step # "idle" /\ upload[v].step # "idle"
         => upload[u].job # upload[v].job

\* A retry request refers to a row that has existed.
RequestsKnown ==
  \A h \in Handlers : request[h].job # None => row[request[h].job] # "none"

\* The cleanup works on rows that were completed when it selected them, so that
\* one that is live has been queued again since; the marked ones have lost their
\* file.
CleanupApart ==
  /\ \A j \in cleanup.todo \cup cleanup.marked :
       row[j] \in {"done", "deleted"} \/ (row[j] \in Live /\ j \in reopened)
  /\ cleanup.marked \cap files = {}

\* Whatever the cleanup works on is past its retention.
CleanupOnAged ==
  cleanup.cutoff <= aged /\ cleanup.todo \cup cleanup.marked \subseteq Aged

Inv ==
  /\ TypeOK /\ UploadsApart /\ RequestsKnown /\ CleanupApart /\ CleanupOnAged
  /\ LiveJobHasFile /\ NoLeakedFile /\ RetentionKept

\* Appending a job with no row yet keeps the list of created jobs free of
\* duplicates and in step with the rows.
LEMMA AppendNew ==
  ASSUME NEW S, NEW s \in Seq(S), NEW x \in S, IsInjective(s), x \notin Range(s)
  PROVE  /\ IsInjective(Append(s, x))
         /\ Range(Append(s, x)) = Range(s) \cup {x}
  <1>1. /\ Append(s, x) \in Seq(S)
        /\ DOMAIN Append(s, x) = 1..(Len(s) + 1)
        /\ DOMAIN s = 1..Len(s) /\ Len(s) \in Nat
        /\ \A i \in 1..Len(s) : Append(s, x)[i] = s[i]
        /\ Append(s, x)[Len(s) + 1] = x
    OBVIOUS
  <1>2. \A i \in 1..(Len(s) + 1) : i \in 1..Len(s) \/ i = Len(s) + 1
    BY <1>1
  <1>3. \A i \in 1..Len(s) : s[i] # x
    BY <1>1 DEF Range
  <1>4. IsInjective(Append(s, x))
    BY <1>1, <1>2, <1>3 DEF IsInjective
  <1>5. Range(Append(s, x)) = Range(s) \cup {x}
    BY <1>1, <1>2 DEF Range
  <1> QED BY <1>4, <1>5

\* An inserted child leaves the run of the cleanup a run.
LEMMA ChildTyped ==
  ASSUME TypeOK, NEW j \in Jobs, AddsChild(j) \/ UNCHANGED cleanup, created' = created
  PROVE  cleanup' \in [step: {"idle", "selecting", "deleting"}, cutoff: 0..Len(created'),
                       todo: SUBSET Jobs, marked: SUBSET Jobs, spoiled: BOOLEAN]
  <1>1. cleanup' = cleanup \/ cleanup' = [cleanup EXCEPT !.spoiled = TRUE]
    BY DEF AddsChild
  <1>2. cleanup \in [step: {"idle", "selecting", "deleting"}, cutoff: 0..Len(created'),
                     todo: SUBSET Jobs, marked: SUBSET Jobs, spoiled: BOOLEAN]
    BY DEF TypeOK
  <1> QED BY <1>1, <1>2

\* The conjuncts of the invariant, action by action.
LEMMA InvStep ==
  ASSUME Inv, [Next]_vars
  PROVE  Inv'
  <1> USE DocumentsAssumption DEF Inv, Live, RowStates
  <1>1. ASSUME NEW u \in Uploads, CheckBacklog(u) PROVE Inv'
    <2>1. TypeOK'
      BY <1>1 DEF TypeOK, CheckBacklog, budgets
    <2>2. UploadsApart'
      BY <1>1 DEF TypeOK, UploadsApart, CheckBacklog, budgets
    <2>3. RequestsKnown'
      BY <1>1 DEF TypeOK, RequestsKnown, UploadsApart, CheckBacklog, budgets
    <2>4. CleanupApart'
      BY <1>1 DEF TypeOK, CleanupApart, UploadsApart, CheckBacklog, budgets
    <2>5. LiveJobHasFile'
      BY <1>1 DEF TypeOK, LiveJobHasFile, UploadsApart, CleanupApart, CheckBacklog, budgets
    <2>6. NoLeakedFile'
      BY <1>1 DEF TypeOK, NoLeakedFile, UploadsApart, CleanupApart, CheckBacklog, budgets
    <2>7. Aged' = Aged
      BY <1>1 DEF CheckBacklog, budgets, Aged
    <2>8. CleanupOnAged'
      BY <1>1, <2>7 DEF TypeOK, CleanupOnAged, CheckBacklog, budgets
    <2>9. RetentionKept'
      BY <1>1, <2>7 DEF TypeOK, RetentionKept, UploadsApart, CleanupOnAged, CheckBacklog, budgets
    <2> QED BY <2>1, <2>2, <2>3, <2>4, <2>5, <2>6, <2>8, <2>9
  <1>2. ASSUME NEW u \in Uploads, SavePdf(u) PROVE Inv'
    <2>1. TypeOK'
      BY <1>2 DEF TypeOK, SavePdf, budgets
    <2>2. UploadsApart'
      BY <1>2 DEF TypeOK, UploadsApart, SavePdf, budgets
    <2>3. RequestsKnown'
      BY <1>2 DEF TypeOK, RequestsKnown, UploadsApart, SavePdf, budgets
    <2>4. CleanupApart'
      BY <1>2 DEF TypeOK, CleanupApart, UploadsApart, SavePdf, budgets
    <2>5. LiveJobHasFile'
      BY <1>2 DEF TypeOK, LiveJobHasFile, UploadsApart, CleanupApart, SavePdf, budgets
    <2>6. NoLeakedFile'
      BY <1>2 DEF TypeOK, NoLeakedFile, UploadsApart, CleanupApart, SavePdf, budgets
    <2>7. Aged' = Aged
      BY <1>2 DEF SavePdf, budgets, Aged
    <2>8. CleanupOnAged'
      BY <1>2, <2>7 DEF TypeOK, CleanupOnAged, SavePdf, budgets
    <2>9. RetentionKept'
      BY <1>2, <2>7 DEF TypeOK, RetentionKept, UploadsApart, CleanupOnAged, SavePdf, budgets
    <2> QED BY <2>1, <2>2, <2>3, <2>4, <2>5, <2>6, <2>8, <2>9
  <1>3. ASSUME NEW u \in Uploads, UploadFails(u) PROVE Inv'
    <2>1. TypeOK'
      BY <1>3 DEF TypeOK, UploadFails, Fault, NoUpload
    <2>2. UploadsApart'
      BY <1>3 DEF TypeOK, UploadsApart, UploadFails, Fault, NoUpload
    <2>3. RequestsKnown'
      BY <1>3 DEF TypeOK, RequestsKnown, UploadsApart, UploadFails, Fault, NoUpload
    <2>4. CleanupApart'
      <3>1. upload[u].job \notin cleanup.marked
        BY <1>3 DEF UploadFails, UploadsApart, CleanupApart, TypeOK
      <3> QED BY <1>3, <3>1 DEF CleanupApart, UploadFails, TypeOK
    <2>5. LiveJobHasFile'
      BY <1>3 DEF TypeOK, LiveJobHasFile, UploadsApart, CleanupApart, UploadFails, Fault, NoUpload
    <2>6. NoLeakedFile'
      BY <1>3 DEF TypeOK, NoLeakedFile, UploadsApart, CleanupApart, UploadFails, Fault, NoUpload
    <2>7. Aged' = Aged
      BY <1>3 DEF UploadFails, Fault, NoUpload, Aged
    <2>8. CleanupOnAged'
      BY <1>3, <2>7 DEF TypeOK, CleanupOnAged, UploadFails, Fault, NoUpload
    <2>9. RetentionKept'
      BY <1>3, <2>7 DEF TypeOK, RetentionKept, UploadsApart, CleanupOnAged, UploadFails, Fault, NoUpload
    <2> QED BY <2>1, <2>2, <2>3, <2>4, <2>5, <2>6, <2>8, <2>9
  <1>4. ASSUME NEW u \in Uploads, InsertJob(u) PROVE Inv'
    <2>1. TypeOK'
      <3>1. upload[u].job \in Jobs /\ upload[u].job \notin Range(created)
        BY <1>4 DEF InsertJob, TypeOK, UploadsApart
      <3>2. IsInjective(created') /\ Range(created') = Range(created) \cup {upload[u].job}
        BY <1>4, <3>1, AppendNew DEF InsertJob, TypeOK
      <3>3. created' \in Seq(Jobs) /\ Len(created') = Len(created) + 1 /\ Len(created) \in Nat
        BY <1>4, <3>1 DEF InsertJob, TypeOK
      <3>4. Range(created') = {k \in Jobs : row'[k] # "none"}
        BY <1>4, <3>1, <3>2 DEF InsertJob, TypeOK
      <3>5. aged' \in 0..Len(created') /\ cleanup'.cutoff \in 0..Len(created')
        BY <1>4, <3>3 DEF InsertJob, TypeOK
      <3>6. cleanup' \in [step: {"idle", "selecting", "deleting"}, cutoff: 0..Len(created'),
                            todo: SUBSET Jobs, marked: SUBSET Jobs, spoiled: BOOLEAN]
        BY <1>4, <3>5 DEF InsertJob, TypeOK
      <3>7. row' \in [Jobs -> RowStates]
        BY <1>4, <3>1 DEF InsertJob, TypeOK
      <3>8. upload' \in [Uploads -> [step: {"idle", "accepted", "saved"}, job: Jobs \cup {None}]]
        BY <1>4 DEF InsertJob, TypeOK, NoUpload
      <3>9. \A v \in Uploads : upload'[v].step # "idle" => upload'[v].job \in Jobs
        BY <1>4 DEF InsertJob, TypeOK, NoUpload
      <3> QED BY <1>4, <3>2, <3>3, <3>4, <3>5, <3>6, <3>7, <3>8, <3>9 DEF InsertJob, TypeOK, budgets
    <2>2. UploadsApart'
      BY <1>4 DEF TypeOK, UploadsApart, InsertJob, NoUpload, budgets
    <2>3. RequestsKnown'
      BY <1>4 DEF TypeOK, RequestsKnown, UploadsApart, InsertJob, NoUpload, budgets
    <2>4. CleanupApart'
      BY <1>4 DEF TypeOK, CleanupApart, UploadsApart, InsertJob, NoUpload, budgets
    <2>5. LiveJobHasFile'
      BY <1>4 DEF TypeOK, LiveJobHasFile, UploadsApart, CleanupApart, InsertJob, NoUpload, budgets
    <2>6. NoLeakedFile'
      BY <1>4 DEF TypeOK, NoLeakedFile, UploadsApart, CleanupApart, InsertJob, NoUpload, budgets
    <2>7. Aged' = Aged
      <3>1. upload[u].job \in Jobs /\ aged \in 0..Len(created) /\ created \in Seq(Jobs)
        BY <1>4 DEF InsertJob, TypeOK
      <3>2. created' = Append(created, upload[u].job) /\ aged' = aged
        BY <1>4 DEF InsertJob
      <3>3. \A i \in 1..aged : created'[i] = created[i]
        BY <3>1, <3>2
      <3> QED BY <3>2, <3>3 DEF Aged
    <2>8. CleanupOnAged'
      BY <1>4, <2>7 DEF TypeOK, CleanupOnAged, InsertJob, NoUpload, budgets
    <2>9. RetentionKept'
      BY <1>4, <2>7 DEF TypeOK, RetentionKept, UploadsApart, CleanupOnAged, InsertJob, NoUpload, budgets
    <2> QED BY <2>1, <2>2, <2>3, <2>4, <2>5, <2>6, <2>8, <2>9
  <1>5. ASSUME NEW j \in Jobs, ClaimJob(j) PROVE Inv'
    <2>1. TypeOK'
      <3>1. cleanup' \in [step: {"idle", "selecting", "deleting"}, cutoff: 0..Len(created'),
                            todo: SUBSET Jobs, marked: SUBSET Jobs, spoiled: BOOLEAN]
        BY <1>5, ChildTyped DEF ClaimJob
      <3>2. {k \in Jobs : row'[k] # "none"} = {k \in Jobs : row[k] # "none"}
        BY <1>5 DEF ClaimJob, TypeOK
      <3> QED BY <1>5, <3>1, <3>2 DEF ClaimJob, TypeOK, Fault, budgets
    <2>2. UploadsApart'
      BY <1>5 DEF TypeOK, UploadsApart, ClaimJob, budgets
    <2>3. RequestsKnown'
      BY <1>5 DEF TypeOK, RequestsKnown, UploadsApart, ClaimJob, budgets
    <2>4. CleanupApart'
      BY <1>5 DEF TypeOK, CleanupApart, UploadsApart, ClaimJob, budgets
    <2>5. LiveJobHasFile'
      BY <1>5 DEF TypeOK, LiveJobHasFile, UploadsApart, CleanupApart, ClaimJob, budgets
    <2>6. NoLeakedFile'
      BY <1>5 DEF TypeOK, NoLeakedFile, UploadsApart, CleanupApart, ClaimJob, budgets
    <2>7. Aged' = Aged
      BY <1>5 DEF ClaimJob, budgets, Aged
    <2>8. CleanupOnAged'
      BY <1>5, <2>7 DEF TypeOK, CleanupOnAged, ClaimJob, budgets
    <2>9. RetentionKept'
      BY <1>5, <2>7 DEF TypeOK, RetentionKept, UploadsApart, CleanupOnAged, ClaimJob, budgets
    <2> QED BY <2>1, <2>2, <2>3, <2>4, <2>5, <2>6, <2>8, <2>9
  <1>20. ASSUME NEW j \in Jobs, StartJob(j) PROVE Inv'
    <2>1. TypeOK'
      <3>1. cleanup' \in [step: {"idle", "selecting", "deleting"}, cutoff: 0..Len(created'),
                            todo: SUBSET Jobs, marked: SUBSET Jobs, spoiled: BOOLEAN]
        BY <1>20, ChildTyped DEF StartJob
      <3>2. {k \in Jobs : row'[k] # "none"} = {k \in Jobs : row[k] # "none"}
        BY <1>20 DEF StartJob, TypeOK
      <3> QED BY <1>20, <3>1, <3>2 DEF StartJob, TypeOK, Fault, budgets
    <2>2. UploadsApart'
      BY <1>20 DEF TypeOK, UploadsApart, StartJob, AddsChild, budgets
    <2>3. RequestsKnown'
      BY <1>20 DEF TypeOK, RequestsKnown, UploadsApart, StartJob, AddsChild, budgets
    <2>4. CleanupApart'
      BY <1>20 DEF TypeOK, CleanupApart, UploadsApart, StartJob, AddsChild, budgets
    <2>5. LiveJobHasFile'
      BY <1>20 DEF TypeOK, LiveJobHasFile, UploadsApart, CleanupApart, StartJob, AddsChild, budgets
    <2>6. NoLeakedFile'
      BY <1>20 DEF TypeOK, NoLeakedFile, UploadsApart, CleanupApart, StartJob, AddsChild, budgets
    <2>7. Aged' = Aged
      BY <1>20 DEF StartJob, AddsChild, budgets, Aged
    <2>8. CleanupOnAged'
      BY <1>20, <2>7 DEF TypeOK, CleanupOnAged, StartJob, AddsChild, budgets
    <2>9. RetentionKept'
      BY <1>20, <2>7 DEF TypeOK, RetentionKept, UploadsApart, CleanupOnAged, StartJob, AddsChild, budgets
    <2> QED BY <2>1, <2>2, <2>3, <2>4, <2>5, <2>6, <2>8, <2>9
  <1>6. ASSUME NEW j \in Jobs, SettleJob(j) PROVE Inv'
    <2>1. TypeOK'
      BY <1>6 DEF TypeOK, SettleJob, AddsChild, budgets
    <2>2. UploadsApart'
      BY <1>6 DEF TypeOK, UploadsApart, SettleJob, AddsChild, budgets
    <2>3. RequestsKnown'
      BY <1>6 DEF TypeOK, RequestsKnown, UploadsApart, SettleJob, AddsChild, budgets
    <2>4. CleanupApart'
      BY <1>6 DEF TypeOK, CleanupApart, UploadsApart, SettleJob, AddsChild, budgets
    <2>5. LiveJobHasFile'
      BY <1>6 DEF TypeOK, LiveJobHasFile, UploadsApart, CleanupApart, SettleJob, AddsChild, budgets
    <2>6. NoLeakedFile'
      BY <1>6 DEF TypeOK, NoLeakedFile, UploadsApart, CleanupApart, SettleJob, AddsChild, budgets
    <2>7. Aged' = Aged
      BY <1>6 DEF SettleJob, AddsChild, budgets, Aged
    <2>8. CleanupOnAged'
      BY <1>6, <2>7 DEF TypeOK, CleanupOnAged, SettleJob, AddsChild, budgets
    <2>9. RetentionKept'
      BY <1>6, <2>7 DEF TypeOK, RetentionKept, UploadsApart, CleanupOnAged, SettleJob, AddsChild, budgets
    <2> QED BY <2>1, <2>2, <2>3, <2>4, <2>5, <2>6, <2>8, <2>9
  <1>7. ASSUME NEW j \in Jobs, RequeueJob(j) PROVE Inv'
    <2>1. TypeOK'
      <3>1. cleanup' \in [step: {"idle", "selecting", "deleting"}, cutoff: 0..Len(created'),
                            todo: SUBSET Jobs, marked: SUBSET Jobs, spoiled: BOOLEAN]
        BY <1>7, ChildTyped DEF RequeueJob
      <3>2. {k \in Jobs : row'[k] # "none"} = {k \in Jobs : row[k] # "none"}
        BY <1>7 DEF RequeueJob, TypeOK
      <3> QED BY <1>7, <3>1, <3>2 DEF RequeueJob, TypeOK, Fault, budgets
    <2>2. UploadsApart'
      BY <1>7 DEF TypeOK, UploadsApart, RequeueJob, Fault, AddsChild
    <2>3. RequestsKnown'
      BY <1>7 DEF TypeOK, RequestsKnown, UploadsApart, RequeueJob, Fault, AddsChild
    <2>4. CleanupApart'
      BY <1>7 DEF TypeOK, CleanupApart, UploadsApart, RequeueJob, Fault, AddsChild
    <2>5. LiveJobHasFile'
      BY <1>7 DEF TypeOK, LiveJobHasFile, UploadsApart, CleanupApart, RequeueJob, Fault, AddsChild
    <2>6. NoLeakedFile'
      BY <1>7 DEF TypeOK, NoLeakedFile, UploadsApart, CleanupApart, RequeueJob, Fault, AddsChild
    <2>7. Aged' = Aged
      BY <1>7 DEF RequeueJob, Fault, AddsChild, Aged
    <2>8. CleanupOnAged'
      BY <1>7, <2>7 DEF TypeOK, CleanupOnAged, RequeueJob, Fault, AddsChild
    <2>9. RetentionKept'
      BY <1>7, <2>7 DEF TypeOK, RetentionKept, UploadsApart, CleanupOnAged, RequeueJob, Fault, AddsChild
    <2> QED BY <2>1, <2>2, <2>3, <2>4, <2>5, <2>6, <2>8, <2>9
  <1>19. ASSUME NEW j \in Jobs, LateError(j) PROVE Inv'
    <2>1. TypeOK'
      <3>1. cleanup' \in [step: {"idle", "selecting", "deleting"}, cutoff: 0..Len(created'),
                            todo: SUBSET Jobs, marked: SUBSET Jobs, spoiled: BOOLEAN]
        BY <1>19, ChildTyped DEF LateError
      <3>2. {k \in Jobs : row'[k] # "none"} = {k \in Jobs : row[k] # "none"}
        BY <1>19 DEF LateError, TypeOK
      <3> QED BY <1>19, <3>1, <3>2 DEF LateError, TypeOK, Fault, Reopens, budgets
    <2>2. UploadsApart'
      BY <1>19 DEF TypeOK, UploadsApart, LateError, Fault, AddsChild
    <2>3. RequestsKnown'
      BY <1>19 DEF TypeOK, RequestsKnown, UploadsApart, LateError, Fault, AddsChild
    <2>4. CleanupApart'
      <3>1. row[j] = "queued" /\ j \in cleanup.todo \cup cleanup.marked => j \in reopened
        BY DEF CleanupApart
      <3>2. \A k \in Jobs : k # j => row'[k] = row[k]
        BY <1>19 DEF LateError, TypeOK
      <3>3. row[j] \in {"queued", "done"} /\ row'[j] \in {"queued", "done"}
        BY <1>19 DEF LateError, TypeOK
      <3>4. reopened \subseteq reopened' /\ (row[j] = "done" /\ row'[j] = "queued" => j \in reopened')
        BY <1>19 DEF LateError, Reopens
      <3>5. cleanup'.todo = cleanup.todo /\ cleanup'.marked = cleanup.marked
        BY <1>19 DEF LateError, AddsChild, TypeOK
      <3>6. files' = files
        BY <1>19 DEF LateError
      <3>7. cleanup.todo \cup cleanup.marked \subseteq Jobs
        BY DEF TypeOK
      <3> QED BY <3>1, <3>2, <3>3, <3>4, <3>5, <3>6, <3>7 DEF CleanupApart
    <2>5. LiveJobHasFile'
      <3>1. row[j] = "queued" => j \in files \/ j \in reopened
        BY DEF LiveJobHasFile
      <3>2. \A k \in Jobs : k # j => row'[k] = row[k]
        BY <1>19 DEF LateError, TypeOK
      <3>3. row[j] \in {"queued", "done"} /\ row'[j] \in {"queued", "done"}
        BY <1>19 DEF LateError, TypeOK
      <3>4. reopened \subseteq reopened' /\ (row[j] = "done" /\ row'[j] = "queued" => j \in reopened')
        BY <1>19 DEF LateError, Reopens
      <3>5. files' = files
        BY <1>19 DEF LateError
      <3> QED BY <3>1, <3>2, <3>3, <3>4, <3>5 DEF LiveJobHasFile
    <2>6. NoLeakedFile'
      BY <1>19 DEF TypeOK, NoLeakedFile, UploadsApart, CleanupApart, LateError, Fault, AddsChild
    <2>7. Aged' = Aged
      BY <1>19 DEF LateError, Fault, AddsChild, Aged
    <2>8. CleanupOnAged'
      BY <1>19, <2>7 DEF TypeOK, CleanupOnAged, LateError, Fault, AddsChild
    <2>9. RetentionKept'
      BY <1>19, <2>7 DEF TypeOK, RetentionKept, UploadsApart, CleanupOnAged, LateError, Fault, AddsChild
    <2> QED BY <2>1, <2>2, <2>3, <2>4, <2>5, <2>6, <2>8, <2>9
  <1>8. ASSUME NEW h \in Handlers, NEW j \in Jobs, RetryLoad(h, j) PROVE Inv'
    <2>1. TypeOK'
      BY <1>8 DEF TypeOK, RetryLoad
    <2>2. UploadsApart'
      BY <1>8 DEF TypeOK, UploadsApart, RetryLoad
    <2>3. RequestsKnown'
      BY <1>8 DEF TypeOK, RequestsKnown, UploadsApart, RetryLoad
    <2>4. CleanupApart'
      BY <1>8 DEF TypeOK, CleanupApart, UploadsApart, RetryLoad
    <2>5. LiveJobHasFile'
      BY <1>8 DEF TypeOK, LiveJobHasFile, UploadsApart, CleanupApart, RetryLoad
    <2>6. NoLeakedFile'
      BY <1>8 DEF TypeOK, NoLeakedFile, UploadsApart, CleanupApart, RetryLoad
    <2>7. Aged' = Aged
      BY <1>8 DEF RetryLoad, Aged
    <2>8. CleanupOnAged'
      BY <1>8, <2>7 DEF TypeOK, CleanupOnAged, RetryLoad
    <2>9. RetentionKept'
      BY <1>8, <2>7 DEF TypeOK, RetentionKept, UploadsApart, CleanupOnAged, RetryLoad
    <2> QED BY <2>1, <2>2, <2>3, <2>4, <2>5, <2>6, <2>8, <2>9
  <1>9. ASSUME NEW h \in Handlers, RetryCommit(h) PROVE Inv'
    <2>1. TypeOK'
      <3>1. request[h].job \in Jobs /\ row[request[h].job] # "none"
        BY <1>9 DEF RetryCommit, RequestsKnown, TypeOK
      <3>2. cleanup' \in [step: {"idle", "selecting", "deleting"}, cutoff: 0..Len(created'),
                            todo: SUBSET Jobs, marked: SUBSET Jobs, spoiled: BOOLEAN]
        BY <1>9 DEF TypeOK, RetryCommit, AddsChild
      <3>3. {k \in Jobs : row'[k] # "none"} = {k \in Jobs : row[k] # "none"}
        BY <1>9, <3>1 DEF RetryCommit, TypeOK
      <3>4. row' \in [Jobs -> RowStates]
        BY <1>9, <3>1 DEF RetryCommit, TypeOK
      <3>5. reopened' \subseteq Jobs
        BY <1>9, <3>1 DEF RetryCommit, Reopens, TypeOK
      <3>6. request' \in [Handlers -> [job: Jobs \cup {None}, loaded: RowStates]]
        BY <1>9 DEF RetryCommit, TypeOK, NoRequest
      <3> QED BY <1>9, <3>2, <3>3, <3>4, <3>5, <3>6 DEF RetryCommit, TypeOK, budgets
    <2>2. UploadsApart'
      <3>1. request[h].job \in Jobs /\ row[request[h].job] # "none"
        BY <1>9 DEF RetryCommit, RequestsKnown, TypeOK
      <3>2. \A k \in Jobs : row'[k] # "none" <=> row[k] # "none"
        BY <1>9, <3>1 DEF RetryCommit, TypeOK
      <3>3. UNCHANGED <<files, used, upload>>
        BY <1>9 DEF RetryCommit
      <3>4. row' \in [Jobs -> RowStates]
        BY <1>9, <3>1 DEF RetryCommit, TypeOK
      <3> QED BY <3>2, <3>3, <3>4 DEF UploadsApart, TypeOK
    <2>3. RequestsKnown'
      BY <1>9 DEF TypeOK, RequestsKnown, UploadsApart, RetryCommit, Reopens, AddsChild, NoRequest, budgets
    <2>4. CleanupApart'
      BY <1>9 DEF TypeOK, CleanupApart, UploadsApart, RetryCommit, Reopens, AddsChild, NoRequest, budgets
    <2>5. LiveJobHasFile'
      <3> DEFINE j == request[h].job
      <3>1. j \in Jobs /\ row[j] \in Live \cup {"done"}
        BY <1>9 DEF RetryCommit, RequestsKnown, TypeOK
      <3>2. \A k \in Jobs : k # j => row'[k] = row[k]
        BY <1>9 DEF RetryCommit, TypeOK
      <3>3. row[j] = "done" => row'[j] = "done" \/ j \in reopened'
        BY <1>9, <3>1 DEF RetryCommit, Reopens, TypeOK
      <3>4. reopened \subseteq reopened' /\ files' = files
        BY <1>9 DEF RetryCommit, Reopens
      <3>5. row[j] \in Live => j \in files' \/ j \in reopened'
        BY <3>1, <3>4 DEF LiveJobHasFile
      <3> QED BY <3>1, <3>2, <3>3, <3>4, <3>5 DEF LiveJobHasFile
    <2>6. NoLeakedFile'
      BY <1>9 DEF TypeOK, NoLeakedFile, UploadsApart, CleanupApart, RetryCommit, Reopens, AddsChild, NoRequest, budgets
    <2>7. Aged' = Aged
      BY <1>9 DEF RetryCommit, Reopens, AddsChild, NoRequest, budgets, Aged
    <2>8. CleanupOnAged'
      BY <1>9, <2>7 DEF TypeOK, CleanupOnAged, RetryCommit, Reopens, AddsChild, NoRequest, budgets
    <2>9. RetentionKept'
      <3>1. /\ request[h].job \in Jobs
            /\ row[request[h].job] # "none" /\ row[request[h].job] # "deleted"
        BY <1>9 DEF RetryCommit, RequestsKnown, TypeOK
      <3>2. \A k \in Jobs : /\ row'[k] # "none" <=> row[k] # "none"
                            /\ row'[k] # "deleted" <=> row[k] # "deleted"
        BY <1>9, <3>1 DEF RetryCommit, TypeOK
      <3>3. files' = files
        BY <1>9 DEF RetryCommit
      <3> QED BY <3>2, <3>3, <2>7 DEF RetentionKept
    <2> QED BY <2>1, <2>2, <2>3, <2>4, <2>5, <2>6, <2>8, <2>9
  <1>10. ASSUME NEW h \in Handlers, RetryFails(h) PROVE Inv'
    <2>1. TypeOK'
      BY <1>10 DEF TypeOK, RetryFails, NoRequest, budgets
    <2>2. UploadsApart'
      BY <1>10 DEF TypeOK, UploadsApart, RetryFails, NoRequest, budgets
    <2>3. RequestsKnown'
      BY <1>10 DEF TypeOK, RequestsKnown, UploadsApart, RetryFails, NoRequest, budgets
    <2>4. CleanupApart'
      BY <1>10 DEF TypeOK, CleanupApart, UploadsApart, RetryFails, NoRequest, budgets
    <2>5. LiveJobHasFile'
      BY <1>10 DEF TypeOK, LiveJobHasFile, UploadsApart, CleanupApart, RetryFails, NoRequest, budgets
    <2>6. NoLeakedFile'
      BY <1>10 DEF TypeOK, NoLeakedFile, UploadsApart, CleanupApart, RetryFails, NoRequest, budgets
    <2>7. Aged' = Aged
      BY <1>10 DEF RetryFails, NoRequest, budgets, Aged
    <2>8. CleanupOnAged'
      BY <1>10, <2>7 DEF TypeOK, CleanupOnAged, RetryFails, NoRequest, budgets
    <2>9. RetentionKept'
      BY <1>10, <2>7 DEF TypeOK, RetentionKept, UploadsApart, CleanupOnAged, RetryFails, NoRequest, budgets
    <2> QED BY <2>1, <2>2, <2>3, <2>4, <2>5, <2>6, <2>8, <2>9
  <1>11. ASSUME Expire PROVE Inv'
    <2>1. TypeOK'
      BY <1>11 DEF TypeOK, Expire, budgets
    <2>2. UploadsApart'
      BY <1>11 DEF TypeOK, UploadsApart, Expire, budgets
    <2>3. RequestsKnown'
      BY <1>11 DEF TypeOK, RequestsKnown, UploadsApart, Expire, budgets
    <2>4. CleanupApart'
      BY <1>11 DEF TypeOK, CleanupApart, UploadsApart, Expire, budgets
    <2>5. LiveJobHasFile'
      BY <1>11 DEF TypeOK, LiveJobHasFile, UploadsApart, CleanupApart, Expire, budgets
    <2>6. NoLeakedFile'
      BY <1>11 DEF TypeOK, NoLeakedFile, UploadsApart, CleanupApart, Expire, budgets
    <2>7. Aged \subseteq Aged'
      <3>1. created' = created /\ aged' = aged + 1 /\ aged \in Nat
        BY <1>11 DEF Expire, TypeOK
      <3>2. 1..aged \subseteq 1..aged'
        BY <3>1
      <3> QED BY <3>1, <3>2 DEF Aged
    <2>8. CleanupOnAged'
      BY <1>11, <2>7 DEF TypeOK, CleanupOnAged, Expire, budgets
    <2>9. RetentionKept'
      BY <1>11, <2>7 DEF TypeOK, RetentionKept, UploadsApart, CleanupOnAged, Expire, budgets
    <2> QED BY <2>1, <2>2, <2>3, <2>4, <2>5, <2>6, <2>8, <2>9
  <1>12. ASSUME StartCleanup PROVE Inv'
    <2>1. TypeOK'
      BY <1>12 DEF TypeOK, StartCleanup, NoRun, budgets
    <2>2. UploadsApart'
      BY <1>12 DEF TypeOK, UploadsApart, StartCleanup, NoRun, budgets
    <2>3. RequestsKnown'
      BY <1>12 DEF TypeOK, RequestsKnown, UploadsApart, StartCleanup, NoRun, budgets
    <2>4. CleanupApart'
      BY <1>12 DEF TypeOK, CleanupApart, UploadsApart, StartCleanup, NoRun, budgets
    <2>5. LiveJobHasFile'
      BY <1>12 DEF TypeOK, LiveJobHasFile, UploadsApart, CleanupApart, StartCleanup, NoRun, budgets
    <2>6. NoLeakedFile'
      BY <1>12 DEF TypeOK, NoLeakedFile, UploadsApart, CleanupApart, StartCleanup, NoRun, budgets
    <2>7. Aged' = Aged
      BY <1>12 DEF StartCleanup, NoRun, budgets, Aged
    <2>8. CleanupOnAged'
      BY <1>12, <2>7 DEF TypeOK, CleanupOnAged, StartCleanup, NoRun, budgets
    <2>9. RetentionKept'
      BY <1>12, <2>7 DEF TypeOK, RetentionKept, UploadsApart, CleanupOnAged, StartCleanup, NoRun, budgets
    <2> QED BY <2>1, <2>2, <2>3, <2>4, <2>5, <2>6, <2>8, <2>9
  <1>13. ASSUME SelectBatch PROVE Inv'
    <2>1. TypeOK'
      <3>1. \A i \in 1..cleanup.cutoff : created[i] \in Jobs
        BY DEF TypeOK
      <3>2. Selected \subseteq Jobs
        BY <3>1 DEF Selected
      <3>3. cleanup' \in [step: {"idle", "selecting", "deleting"}, cutoff: 0..Len(created'),
                            todo: SUBSET Jobs, marked: SUBSET Jobs, spoiled: BOOLEAN]
        <4>1. created' = created /\ 0 \in 0..Len(created)
          BY <1>13 DEF SelectBatch, TypeOK
        <4>2. CASE Selected = {}
          <5>1. cleanup' = NoRun
            BY <1>13, <4>2 DEF SelectBatch
          <5> QED BY <4>1, <5>1 DEF NoRun
        <4>3. CASE Selected # {}
          <5>1. cleanup' = [cleanup EXCEPT !.step = "deleting", !.todo = Selected,
                                           !.marked = {}, !.spoiled = FALSE]
            BY <1>13, <4>3 DEF SelectBatch
          <5> QED BY <4>1, <5>1, <3>2 DEF TypeOK
        <4> QED BY <4>2, <4>3
      <3>4. UNCHANGED <<row, files, created, aged, used, claimed, reopened, upload, request, budgets>>
        BY <1>13 DEF SelectBatch
      <3> QED BY <3>3, <3>4 DEF TypeOK, budgets
    <2>2. UploadsApart'
      BY <1>13 DEF TypeOK, UploadsApart, SelectBatch, Selected, NoRun, budgets
    <2>3. RequestsKnown'
      BY <1>13 DEF TypeOK, RequestsKnown, UploadsApart, SelectBatch, Selected, NoRun, budgets
    <2>4. CleanupApart'
      BY <1>13 DEF TypeOK, CleanupApart, UploadsApart, SelectBatch, Selected, NoRun, budgets
    <2>5. LiveJobHasFile'
      BY <1>13 DEF TypeOK, LiveJobHasFile, UploadsApart, CleanupApart, SelectBatch, Selected, NoRun, budgets
    <2>6. NoLeakedFile'
      BY <1>13 DEF TypeOK, NoLeakedFile, UploadsApart, CleanupApart, SelectBatch, Selected, NoRun, budgets
    <2>7. Aged' = Aged
      BY <1>13 DEF SelectBatch, Selected, NoRun, budgets, Aged
    <2>8. CleanupOnAged'
      <3>1. Selected \subseteq {created[i] : i \in 1..cleanup.cutoff}
        BY DEF Selected
      <3>2. cleanup.cutoff \in Nat /\ aged \in Nat /\ cleanup.cutoff <= aged
        BY DEF TypeOK, CleanupOnAged
      <3>3. 1..cleanup.cutoff \subseteq 1..aged
        BY <3>2
      <3>4. Selected \subseteq Aged
        BY <3>1, <3>3 DEF Aged
      <3>5. aged' = aged
        BY <1>13 DEF SelectBatch
      <3>6. CASE Selected = {}
        <4>1. cleanup' = NoRun
          BY <1>13, <3>6 DEF SelectBatch
        <4> QED BY <4>1, <3>2, <3>5 DEF CleanupOnAged, NoRun
      <3>7. CASE Selected # {}
        <4>1. cleanup' = [cleanup EXCEPT !.step = "deleting", !.todo = Selected,
                                         !.marked = {}, !.spoiled = FALSE]
          BY <1>13, <3>7 DEF SelectBatch
        <4>2. cleanup'.cutoff = cleanup.cutoff /\ cleanup'.todo = Selected /\ cleanup'.marked = {}
          BY <4>1 DEF TypeOK
        <4> QED BY <4>2, <3>2, <3>4, <3>5, <2>7 DEF CleanupOnAged
      <3> QED BY <3>6, <3>7
    <2>9. RetentionKept'
      BY <1>13, <2>7 DEF TypeOK, RetentionKept, UploadsApart, CleanupOnAged, SelectBatch, Selected, NoRun, budgets
    <2> QED BY <2>1, <2>2, <2>3, <2>4, <2>5, <2>6, <2>8, <2>9
  <1>14. ASSUME NEW j \in Jobs, DeleteFile(j) PROVE Inv'
    <2>1. TypeOK'
      <3>1. cleanup' \in [step: {"idle", "selecting", "deleting"}, cutoff: 0..Len(created'),
                            todo: SUBSET Jobs, marked: SUBSET Jobs, spoiled: BOOLEAN]
        BY <1>14 DEF TypeOK, DeleteFile
      <3> QED BY <1>14, <3>1 DEF DeleteFile, TypeOK, Fault, budgets
    <2>2. UploadsApart'
      <3>1. row[j] # "none"
        BY <1>14 DEF DeleteFile, NextFile, CleanupApart
      <3> QED BY <1>14, <3>1 DEF UploadsApart, TypeOK, DeleteFile
    <2>3. RequestsKnown'
      BY <1>14 DEF TypeOK, RequestsKnown, UploadsApart, DeleteFile, NextFile, budgets
    <2>4. CleanupApart'
      BY <1>14 DEF TypeOK, CleanupApart, UploadsApart, DeleteFile, NextFile, budgets
    <2>5. LiveJobHasFile'
      BY <1>14 DEF TypeOK, LiveJobHasFile, UploadsApart, CleanupApart, DeleteFile, NextFile, budgets
    <2>6. NoLeakedFile'
      BY <1>14 DEF TypeOK, NoLeakedFile, UploadsApart, CleanupApart, DeleteFile, NextFile, budgets
    <2>7. Aged' = Aged
      BY <1>14 DEF DeleteFile, NextFile, budgets, Aged
    <2>8. CleanupOnAged'
      BY <1>14, <2>7 DEF TypeOK, CleanupOnAged, DeleteFile, NextFile, budgets
    <2>9. RetentionKept'
      BY <1>14, <2>7 DEF TypeOK, RetentionKept, UploadsApart, CleanupOnAged, DeleteFile, NextFile, budgets
    <2> QED BY <2>1, <2>2, <2>3, <2>4, <2>5, <2>6, <2>8, <2>9
  <1>15. ASSUME NEW j \in Jobs, DeleteFileFails(j) PROVE Inv'
    <2>1. TypeOK'
      <3>1. cleanup' \in [step: {"idle", "selecting", "deleting"}, cutoff: 0..Len(created'),
                            todo: SUBSET Jobs, marked: SUBSET Jobs, spoiled: BOOLEAN]
        BY <1>15 DEF TypeOK, DeleteFileFails, Fault
      <3> QED BY <1>15, <3>1 DEF DeleteFileFails, TypeOK, Fault, budgets
    <2>2. UploadsApart'
      BY <1>15 DEF TypeOK, UploadsApart, DeleteFileFails, NextFile, Fault
    <2>3. RequestsKnown'
      BY <1>15 DEF TypeOK, RequestsKnown, UploadsApart, DeleteFileFails, NextFile, Fault
    <2>4. CleanupApart'
      BY <1>15 DEF TypeOK, CleanupApart, UploadsApart, DeleteFileFails, NextFile, Fault
    <2>5. LiveJobHasFile'
      BY <1>15 DEF TypeOK, LiveJobHasFile, UploadsApart, CleanupApart, DeleteFileFails, NextFile, Fault
    <2>6. NoLeakedFile'
      BY <1>15 DEF TypeOK, NoLeakedFile, UploadsApart, CleanupApart, DeleteFileFails, NextFile, Fault
    <2>7. Aged' = Aged
      BY <1>15 DEF DeleteFileFails, NextFile, Fault, Aged
    <2>8. CleanupOnAged'
      BY <1>15, <2>7 DEF TypeOK, CleanupOnAged, DeleteFileFails, NextFile, Fault
    <2>9. RetentionKept'
      BY <1>15, <2>7 DEF TypeOK, RetentionKept, UploadsApart, CleanupOnAged, DeleteFileFails, NextFile, Fault
    <2> QED BY <2>1, <2>2, <2>3, <2>4, <2>5, <2>6, <2>8, <2>9
  <1>16. ASSUME CommitBatch PROVE Inv'
    <2>1. TypeOK'
      <3>1. \A k \in cleanup.marked : row[k] # "none"
        BY DEF CleanupApart
      <3>2. cleanup' \in [step: {"idle", "selecting", "deleting"}, cutoff: 0..Len(created'),
                            todo: SUBSET Jobs, marked: SUBSET Jobs, spoiled: BOOLEAN]
        <4>1. created' = created /\ 0 \in 0..Len(created)
          BY <1>16 DEF CommitBatch, TypeOK
        <4>2. CASE cleanup.spoiled
          <5>1. cleanup' = NoRun
            BY <1>16, <4>2 DEF CommitBatch
          <5> QED BY <4>1, <5>1 DEF NoRun
        <4>3. CASE ~cleanup.spoiled
          <5>1. cleanup' = [cleanup EXCEPT !.step = "selecting", !.marked = {}]
            BY <1>16, <4>3 DEF CommitBatch
          <5> QED BY <4>1, <5>1 DEF TypeOK
        <4> QED BY <4>2, <4>3
      <3>3. row' \in [Jobs -> RowStates]
        BY <1>16 DEF CommitBatch, TypeOK
      <3>4. \A k \in Jobs : row'[k] # "none" <=> row[k] # "none"
        BY <1>16, <3>1 DEF CommitBatch, TypeOK
      <3>5. {k \in Jobs : row'[k] # "none"} = {k \in Jobs : row[k] # "none"}
        BY <3>4
      <3> QED BY <1>16, <3>2, <3>3, <3>5 DEF CommitBatch, TypeOK, budgets
    <2>2. UploadsApart'
      <3>1. \A k \in cleanup.marked : row[k] # "none"
        BY DEF CleanupApart
      <3>2. \A k \in Jobs : row'[k] # "none" <=> row[k] # "none"
        BY <1>16, <3>1 DEF CommitBatch, TypeOK
      <3>3. UNCHANGED <<files, used, upload>>
        BY <1>16 DEF CommitBatch
      <3> QED BY <3>2, <3>3 DEF UploadsApart, TypeOK
    <2>3. RequestsKnown'
      BY <1>16 DEF TypeOK, RequestsKnown, UploadsApart, CommitBatch, NoRun, budgets
    <2>4. CleanupApart'
      <3>1. cleanup'.todo = {} /\ cleanup'.marked = {}
        <4>1. CASE cleanup.spoiled
          BY <1>16, <4>1 DEF CommitBatch, NoRun
        <4>2. CASE ~cleanup.spoiled
          BY <1>16, <4>2 DEF TypeOK, CommitBatch
        <4> QED BY <4>1, <4>2
      <3> QED BY <3>1 DEF CleanupApart
    <2>5. LiveJobHasFile'
      BY <1>16 DEF TypeOK, LiveJobHasFile, UploadsApart, CleanupApart, CommitBatch, NoRun, budgets
    <2>6. NoLeakedFile'
      BY <1>16 DEF TypeOK, NoLeakedFile, UploadsApart, CleanupApart, CommitBatch, NoRun, budgets
    <2>7. Aged' = Aged
      BY <1>16 DEF CommitBatch, NoRun, budgets, Aged
    <2>8. CleanupOnAged'
      <3>1. cleanup'.todo = {} /\ cleanup'.marked = {} /\ cleanup'.cutoff \in {0, cleanup.cutoff}
        <4>1. CASE cleanup.spoiled
          BY <1>16, <4>1 DEF CommitBatch, NoRun
        <4>2. CASE ~cleanup.spoiled
          BY <1>16, <4>2 DEF TypeOK, CommitBatch
        <4> QED BY <4>1, <4>2
      <3>2. aged' = aged /\ aged \in Nat /\ cleanup.cutoff <= aged
        BY <1>16 DEF CommitBatch, TypeOK, CleanupOnAged
      <3> QED BY <3>1, <3>2 DEF CleanupOnAged
    <2>9. RetentionKept'
      BY <1>16, <2>7 DEF TypeOK, RetentionKept, UploadsApart, CleanupOnAged, CommitBatch, NoRun, budgets
    <2> QED BY <2>1, <2>2, <2>3, <2>4, <2>5, <2>6, <2>8, <2>9
  <1>17. ASSUME CleanupDies PROVE Inv'
    <2>1. TypeOK'
      BY <1>17 DEF TypeOK, CleanupDies, NoRun, Fault
    <2>2. UploadsApart'
      BY <1>17 DEF TypeOK, UploadsApart, CleanupDies, NoRun, Fault
    <2>3. RequestsKnown'
      BY <1>17 DEF TypeOK, RequestsKnown, UploadsApart, CleanupDies, NoRun, Fault
    <2>4. CleanupApart'
      BY <1>17 DEF TypeOK, CleanupApart, UploadsApart, CleanupDies, NoRun, Fault
    <2>5. LiveJobHasFile'
      BY <1>17 DEF TypeOK, LiveJobHasFile, UploadsApart, CleanupApart, CleanupDies, NoRun, Fault
    <2>6. NoLeakedFile'
      BY <1>17 DEF TypeOK, NoLeakedFile, UploadsApart, CleanupApart, CleanupDies, NoRun, Fault
    <2>7. Aged' = Aged
      BY <1>17 DEF CleanupDies, NoRun, Fault, Aged
    <2>8. CleanupOnAged'
      BY <1>17, <2>7 DEF TypeOK, CleanupOnAged, CleanupDies, NoRun, Fault
    <2>9. RetentionKept'
      BY <1>17, <2>7 DEF TypeOK, RetentionKept, UploadsApart, CleanupOnAged, CleanupDies, NoRun, Fault
    <2> QED BY <2>1, <2>2, <2>3, <2>4, <2>5, <2>6, <2>8, <2>9
  <1>18. CASE UNCHANGED vars
    BY <1>18 DEF vars, budgets, TypeOK, UploadsApart, RequestsKnown, CleanupApart, CleanupOnAged, Aged, LiveJobHasFile, NoLeakedFile,
       RetentionKept
  <1> QED
    BY <1>1, <1>2, <1>3, <1>4, <1>5, <1>6, <1>7, <1>8, <1>9, <1>10, <1>11, <1>12, <1>13, <1>14, <1>15, <1>16, <1>17, <1>18, <1>19, <1>20 DEF Next

\* created lists the rows there are, so that they can be counted.
LEMMA RowsFinite == Inv => IsFiniteSet({j \in Jobs : row[j] # "none"})
  <1> SUFFICES ASSUME Inv PROVE IsFiniteSet(Range(created))
    BY DEF Inv, TypeOK
  <1>1. created \in [1..Len(created) -> Range(created)] /\ Len(created) \in Nat
    BY DEF Inv, TypeOK, Range
  <1>2. \A j \in Range(created) : \E i \in 1..Len(created) : created[i] = j
    BY <1>1 DEF Range
  <1>3. created \in Surjection(1..Len(created), Range(created))
    BY <1>1, <1>2 DEF Surjection
  <1>4. IsFiniteSet(1..Len(created))
    BY <1>1, FS_Interval
  <1> QED
    BY <1>3, <1>4, FS_Surjection

LEMMA InvInit == Init => Inv
  BY DocumentsAssumption DEF Init, Inv, TypeOK, UploadsApart, RequestsKnown, CleanupApart,
     CleanupOnAged, LiveJobHasFile, NoLeakedFile, RetentionKept, NoUpload, NoRequest, NoRun, Live, RowStates, IsInjective, Range

LEMMA InvAlways == Spec => []Inv
  BY InvInit, InvStep, PTL DEF Spec

\* Every variable keeps to its type, and created lists each row once: an id is
\* inserted by one upload, one time.
THEOREM TypeCorrect == Spec => []TypeOK
  BY InvAlways, PTL DEF Inv

\* However many uploads, worker failures and cleanup runs there are, a job
\* that waits or runs has its PDF, unless it was settled before and a manual
\* retry or an error has put it back into the queue.
THEOREM LiveJobsHaveFiles == Spec => []LiveJobHasFile
  BY InvAlways, PTL DEF Inv

\* A row the cleanup has deleted leaves no file behind, whatever failed.
THEOREM NothingLeaked == Spec => []NoLeakedFile
  BY InvAlways, PTL DEF Inv

\* A job that is not past its retention keeps its row and its file.
THEOREM RetentionIsKept == Spec => []RetentionKept
  BY InvAlways, PTL DEF Inv
=============================================================================
