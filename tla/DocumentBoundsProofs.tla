------------------------ MODULE DocumentBoundsProofs ------------------------
(***************************************************************************)
(* Proofs about the two counts of Documents, on top of the invariant of    *)
(* DocumentsProofs: the files no row refers to, and the rows that concurrent *)
(* uploads queue beyond max_queue_backlog.                                 *)
(***************************************************************************)
EXTENDS DocumentsProofs

Stray == {j \in files : row[j] = "none" /\ \A u \in Uploads : upload[u].job # j}

ActiveUploads == {u \in Uploads : upload[u].step # "idle"}

Unclaimed == Queued \ claimed

\* A request that is over refers to no job.
IdleIsEmpty == \A u \in Uploads : upload[u].step = "idle" => upload[u].job = None

StrayBounded == IsFiniteSet(Stray) /\ Cardinality(Stray) <= faults

\* A row that is past "queued" has been claimed, also when a manual retry, an
\* error or the reaper has queued it again; a manual retry writes the row only
\* if it saw it past "queued".
WorkIsClaimed ==
  /\ \A j \in Jobs : row[j] \in {"processing", "done"} => j \in claimed
  /\ \A h \in Handlers :
       request[h].job # None /\ request[h].loaded # "queued" => request[h].job \in claimed

\* Each upload that is past its check has one place to fill.
PlacesBounded ==
  /\ IsFiniteSet(Unclaimed)
  /\ Cardinality(Unclaimed) + Cardinality(ActiveUploads) <= MaxBacklog - 1 + Cardinality(Uploads)

BoundsInv == IdleIsEmpty /\ WorkIsClaimed /\ StrayBounded /\ PlacesBounded
-----------------------------------------------------------------------------
(* What a step does to the sets that are counted.                          *)

LEMMA IdleStep == Inv /\ IdleIsEmpty /\ [Next]_vars => IdleIsEmpty'
<1> SUFFICES ASSUME Inv, IdleIsEmpty, [Next]_vars PROVE IdleIsEmpty'
  OBVIOUS
<1> USE DEF Inv, TypeOK, IdleIsEmpty
<1>1. ASSUME NEW u \in Uploads, CheckBacklog(u) PROVE IdleIsEmpty'
  BY <1>1 DEF CheckBacklog
<1>2. ASSUME NEW u \in Uploads, SavePdf(u) PROVE IdleIsEmpty'
  BY <1>2 DEF SavePdf
<1>3. ASSUME NEW u \in Uploads, UploadFails(u) \/ InsertJob(u) PROVE IdleIsEmpty'
  BY <1>3 DEF UploadFails, InsertJob, NoUpload
<1>4. CASE UNCHANGED upload
  BY <1>4
<1>5. ASSUME NEW j \in Jobs,
             \/ ClaimJob(j) \/ StartJob(j) \/ SettleJob(j) \/ RequeueJob(j)
             \/ LateError(j) \/ DeleteFile(j) \/ DeleteFileFails(j)
      PROVE  UNCHANGED upload
  BY <1>5 DEF ClaimJob, StartJob, SettleJob, RequeueJob, LateError, DeleteFile, DeleteFileFails
<1>6. ASSUME NEW h \in Handlers, (\E j \in Jobs : RetryLoad(h, j)) \/ RetryCommit(h) \/ RetryFails(h)
      PROVE  UNCHANGED upload
  BY <1>6 DEF RetryLoad, RetryCommit, RetryFails
<1>7. ASSUME Expire \/ StartCleanup \/ SelectBatch \/ CommitBatch \/ CleanupDies PROVE UNCHANGED upload
  BY <1>7 DEF Expire, StartCleanup, SelectBatch, CommitBatch, CleanupDies
<1>8. CASE UNCHANGED vars
  BY <1>8, <1>4 DEF vars
<1> QED
  BY <1>1, <1>2, <1>3, <1>4, <1>5, <1>6, <1>7, <1>8 DEF Next

\* No step but a failing upload leaves a file without a row and a request.
LEMMA StrayStep ==
  Inv /\ IdleIsEmpty /\ [Next]_vars =>
    \/ Stray' \subseteq Stray /\ faults' \in {faults, faults + 1}
    \/ \E k \in Jobs : Stray' \subseteq Stray \cup {k} /\ faults' = faults + 1
<1> SUFFICES ASSUME Inv, IdleIsEmpty, [Next]_vars
             PROVE  \/ Stray' \subseteq Stray /\ faults' \in {faults, faults + 1}
                    \/ \E k \in Jobs : Stray' \subseteq Stray \cup {k} /\ faults' = faults + 1
  OBVIOUS
<1> USE DocumentsAssumption DEF Inv, TypeOK, Stray, RowStates, Live, budgets
<1>1. ASSUME NEW u \in Uploads, CheckBacklog(u) PROVE Stray' \subseteq Stray /\ faults' = faults
  BY <1>1 DEF CheckBacklog, IdleIsEmpty
<1>2. ASSUME NEW u \in Uploads, SavePdf(u) PROVE Stray' \subseteq Stray /\ faults' = faults
  BY <1>2 DEF SavePdf
<1>3. ASSUME NEW u \in Uploads, UploadFails(u)
      PROVE  \E k \in Jobs : Stray' \subseteq Stray \cup {k} /\ faults' = faults + 1
  <2>1. upload[u].job \in Jobs /\ faults' = faults + 1 /\ row' = row
    BY <1>3 DEF UploadFails, Fault
  <2>2. files' \subseteq files \cup {upload[u].job}
    BY <1>3 DEF UploadFails
  <2>3. \A v \in Uploads : v # u => upload'[v] = upload[v]
    BY <1>3 DEF UploadFails
  <2>4. Stray' \subseteq Stray \cup {upload[u].job}
    BY <2>1, <2>2, <2>3
  <2> QED
    BY <2>1, <2>4
<1>4. ASSUME NEW u \in Uploads, InsertJob(u) PROVE Stray' \subseteq Stray /\ faults' = faults
  BY <1>4 DEF InsertJob
<1>5. ASSUME NEW j \in Jobs, ClaimJob(j) \/ StartJob(j) \/ SettleJob(j) \/ DeleteFile(j)
      PROVE  Stray' \subseteq Stray /\ faults' = faults
  BY <1>5 DEF ClaimJob, StartJob, SettleJob, DeleteFile
<1>6. ASSUME NEW j \in Jobs, RequeueJob(j) \/ LateError(j) \/ DeleteFileFails(j)
      PROVE  Stray' \subseteq Stray /\ faults' \in {faults, faults + 1}
  BY <1>6 DEF RequeueJob, LateError, DeleteFileFails, Fault
<1>7. ASSUME NEW h \in Handlers, (\E j \in Jobs : RetryLoad(h, j)) \/ RetryFails(h)
      PROVE  Stray' \subseteq Stray /\ faults' = faults
  BY <1>7 DEF RetryLoad, RetryFails
<1>8. ASSUME NEW h \in Handlers, RetryCommit(h) PROVE Stray' \subseteq Stray /\ faults' = faults
  BY <1>8 DEF RetryCommit
<1>9. ASSUME Expire \/ StartCleanup \/ SelectBatch PROVE Stray' \subseteq Stray /\ faults' = faults
  BY <1>9 DEF Expire, StartCleanup, SelectBatch
<1>10. CASE CommitBatch
  <2>1. \A k \in Jobs : row'[k] = "none" => row[k] = "none"
    BY <1>10 DEF CommitBatch
  <2>2. UNCHANGED <<files, upload, faults>>
    BY <1>10 DEF CommitBatch
  <2> QED
    BY <2>1, <2>2
<1>11. CASE CleanupDies
  BY <1>11 DEF CleanupDies, Fault
<1>12. CASE UNCHANGED vars
  BY <1>12 DEF vars
<1> QED
  BY <1>1, <1>2, <1>3, <1>4, <1>5, <1>6, <1>7, <1>8, <1>9, <1>10, <1>11, <1>12 DEF Next

LEMMA StrayCounted == Inv /\ IdleIsEmpty /\ StrayBounded /\ [Next]_vars => StrayBounded'
<1> SUFFICES ASSUME Inv, IdleIsEmpty, StrayBounded, [Next]_vars PROVE StrayBounded'
  OBVIOUS
<1>1. faults \in Nat
  BY DEF Inv, TypeOK
<1>2. IsFiniteSet(Stray) /\ Cardinality(Stray) \in Nat /\ Cardinality(Stray) <= faults
  BY FS_CardinalityType DEF StrayBounded
<1>3. CASE Stray' \subseteq Stray /\ faults' \in {faults, faults + 1}
  <2>1. IsFiniteSet(Stray') /\ Cardinality(Stray') <= Cardinality(Stray)
    BY <1>2, <1>3, FS_Subset
  <2>2. Cardinality(Stray') \in Nat
    BY <2>1, FS_CardinalityType
  <2> QED
    BY <1>1, <1>2, <1>3, <2>1, <2>2 DEF StrayBounded
<1>4. ASSUME NEW k \in Jobs, Stray' \subseteq Stray \cup {k}, faults' = faults + 1
      PROVE  StrayBounded'
  <2>1. IsFiniteSet(Stray \cup {k}) /\ Cardinality(Stray \cup {k}) \in {Cardinality(Stray), Cardinality(Stray) + 1}
    BY <1>2, FS_AddElement
  <2>2. IsFiniteSet(Stray') /\ Cardinality(Stray') <= Cardinality(Stray \cup {k})
    BY <1>4, <2>1, FS_Subset
  <2>3. Cardinality(Stray') \in Nat
    BY <2>2, FS_CardinalityType
  <2> QED
    BY <1>1, <1>2, <1>4, <2>1, <2>2, <2>3 DEF StrayBounded
<1> QED
  BY <1>3, <1>4, StrayStep
-----------------------------------------------------------------------------
LEMMA ClaimedStep == Inv /\ WorkIsClaimed /\ [Next]_vars => WorkIsClaimed'
<1> SUFFICES ASSUME Inv, WorkIsClaimed, [Next]_vars PROVE WorkIsClaimed'
  OBVIOUS
<1> USE DocumentsAssumption DEF Inv, TypeOK, WorkIsClaimed, RowStates, Live, budgets
<1>1. ASSUME NEW u \in Uploads, CheckBacklog(u) \/ SavePdf(u) \/ UploadFails(u)
      PROVE  UNCHANGED <<row, claimed, request>>
  BY <1>1 DEF CheckBacklog, SavePdf, UploadFails
<1>2. ASSUME NEW u \in Uploads, InsertJob(u) PROVE WorkIsClaimed'
  BY <1>2 DEF InsertJob
<1>3. ASSUME NEW j \in Jobs, ClaimJob(j) PROVE WorkIsClaimed'
  BY <1>3 DEF ClaimJob
<1>4. ASSUME NEW j \in Jobs, SettleJob(j) PROVE WorkIsClaimed'
  BY <1>4 DEF SettleJob
<1>5. ASSUME NEW j \in Jobs, RequeueJob(j) PROVE WorkIsClaimed'
  BY <1>5 DEF RequeueJob
<1>6. ASSUME NEW j \in Jobs, LateError(j) PROVE WorkIsClaimed'
  <2>1. j \in claimed /\ UNCHANGED <<claimed, request>>
    BY <1>6 DEF LateError
  <2>2. \A k \in Jobs : k # j => row'[k] = row[k]
    BY <1>6 DEF LateError
  <2> QED
    BY <2>1, <2>2
<1>7. ASSUME NEW j \in Jobs, StartJob(j) \/ DeleteFile(j) \/ DeleteFileFails(j)
      PROVE  UNCHANGED <<row, claimed, request>>
  BY <1>7 DEF StartJob, DeleteFile, DeleteFileFails
<1>8. ASSUME NEW h \in Handlers, NEW j \in Jobs, RetryLoad(h, j) PROVE WorkIsClaimed'
  BY <1>8 DEF RetryLoad
<1>9. ASSUME NEW h \in Handlers, RetryCommit(h) PROVE WorkIsClaimed'
  <2>1. row' = row \/ row' = [row EXCEPT ![request[h].job] = "queued"]
    BY <1>9 DEF RetryCommit
  <2>2. \A k \in Jobs : row'[k] \in {"processing", "done"} => row[k] \in {"processing", "done"}
    BY <2>1
  <2>3. claimed' = claimed /\ request' = [request EXCEPT ![h] = NoRequest]
    BY <1>9 DEF RetryCommit
  <2> QED
    BY <2>2, <2>3 DEF NoRequest
<1>10. ASSUME NEW h \in Handlers, RetryFails(h) PROVE WorkIsClaimed'
  BY <1>10 DEF RetryFails, NoRequest
<1>11. ASSUME Expire \/ StartCleanup \/ SelectBatch \/ CleanupDies
       PROVE  UNCHANGED <<row, claimed, request>>
  BY <1>11 DEF Expire, StartCleanup, SelectBatch, CleanupDies
<1>12. CASE CommitBatch
  <2>1. \A k \in Jobs : row'[k] \in {"processing", "done"} => row[k] \in {"processing", "done"}
    BY <1>12 DEF CommitBatch
  <2>2. UNCHANGED <<claimed, request>>
    BY <1>12 DEF CommitBatch
  <2> QED
    BY <2>1, <2>2
<1>13. CASE UNCHANGED <<row, claimed, request>>
  BY <1>13
<1>14. CASE UNCHANGED vars
  BY <1>14, <1>13 DEF vars
<1> QED
  BY <1>1, <1>2, <1>3, <1>4, <1>5, <1>6, <1>7, <1>8, <1>9, <1>10, <1>11, <1>12, <1>13, <1>14 DEF Next

\* Only an upload queues a job nobody has claimed yet, and gives up its place
\* in doing so; only a check of the backlog takes a place.
LEMMA PlacesStep ==
  Inv /\ WorkIsClaimed /\ [Next]_vars =>
    \/ Unclaimed' \subseteq Unclaimed /\ ActiveUploads' \subseteq ActiveUploads
    \/ Unclaimed' = Unclaimed /\ Cardinality(Queued) < MaxBacklog
    \/ \E u \in ActiveUploads, k \in Jobs :
         Unclaimed' \subseteq Unclaimed \cup {k} /\ ActiveUploads' \subseteq ActiveUploads \ {u}
<1> SUFFICES ASSUME Inv, WorkIsClaimed, [Next]_vars
             PROVE  \/ Unclaimed' \subseteq Unclaimed /\ ActiveUploads' \subseteq ActiveUploads
                    \/ Unclaimed' = Unclaimed /\ Cardinality(Queued) < MaxBacklog
                    \/ \E u \in ActiveUploads, k \in Jobs :
                         /\ Unclaimed' \subseteq Unclaimed \cup {k}
                         /\ ActiveUploads' \subseteq ActiveUploads \ {u}
  OBVIOUS
<1> DEFINE Fewer == Unclaimed' \subseteq Unclaimed /\ ActiveUploads' \subseteq ActiveUploads
<1> USE DEF Inv, TypeOK, RowStates, Live, budgets
<1>1. ASSUME NEW u \in Uploads, CheckBacklog(u)
      PROVE  Unclaimed' = Unclaimed /\ Cardinality(Queued) < MaxBacklog
  BY <1>1 DEF CheckBacklog, Unclaimed, Queued
<1>2. ASSUME NEW u \in Uploads, SavePdf(u) PROVE Fewer
  BY <1>2 DEF SavePdf, Unclaimed, Queued, ActiveUploads
<1>3. ASSUME NEW u \in Uploads, UploadFails(u) PROVE Fewer
  BY <1>3 DEF UploadFails, NoUpload, Unclaimed, Queued, ActiveUploads
<1>4. ASSUME NEW u \in Uploads, InsertJob(u)
      PROVE  \E v \in ActiveUploads, k \in Jobs :
               Unclaimed' \subseteq Unclaimed \cup {k} /\ ActiveUploads' \subseteq ActiveUploads \ {v}
  <2>1. u \in ActiveUploads /\ upload[u].job \in Jobs
    BY <1>4 DEF InsertJob, ActiveUploads
  <2>2. Unclaimed' \subseteq Unclaimed \cup {upload[u].job}
    BY <1>4 DEF InsertJob, Unclaimed, Queued
  <2>3. ActiveUploads' \subseteq ActiveUploads \ {u}
    BY <1>4 DEF InsertJob, NoUpload, ActiveUploads
  <2> QED
    BY <2>1, <2>2, <2>3
<1>5. ASSUME \A k \in Jobs : row'[k] = "queued" => row[k] = "queued" \/ k \in claimed,
             claimed \subseteq claimed', UNCHANGED upload
      PROVE  Fewer
  BY <1>5 DEF Unclaimed, Queued, ActiveUploads
<1>6. ASSUME NEW j \in Jobs,
             ClaimJob(j) \/ StartJob(j) \/ SettleJob(j) \/ DeleteFile(j) \/ DeleteFileFails(j)
      PROVE  Fewer
  BY <1>6, <1>5 DEF ClaimJob, StartJob, SettleJob, DeleteFile, DeleteFileFails
<1>7. ASSUME NEW j \in Jobs, RequeueJob(j) PROVE Fewer
  BY <1>7, <1>5 DEF RequeueJob, WorkIsClaimed
<1>8. ASSUME NEW j \in Jobs, LateError(j) PROVE Fewer
  <2>1. j \in claimed /\ UNCHANGED <<claimed, upload>>
    BY <1>8 DEF LateError
  <2>2. \A k \in Jobs : k # j => row'[k] = row[k]
    BY <1>8 DEF LateError
  <2> QED
    BY <2>1, <2>2, <1>5
<1>9. ASSUME NEW h \in Handlers, NEW j \in Jobs, RetryLoad(h, j) PROVE Fewer
  BY <1>9, <1>5 DEF RetryLoad
<1>10. ASSUME NEW h \in Handlers, RetryCommit(h) PROVE Fewer
  <2>1. UNCHANGED <<claimed, upload>> /\ request[h].job # None
    BY <1>10 DEF RetryCommit
  <2>2. CASE request[h].loaded = "queued"
    <3>1. row' = row
      BY <1>10, <2>2 DEF RetryCommit
    <3> QED
      BY <2>1, <3>1, <1>5
  <2>3. CASE request[h].loaded # "queued"
    <3>1. row' = [row EXCEPT ![request[h].job] = "queued"]
      BY <1>10, <2>3 DEF RetryCommit
    <3>2. request[h].job \in claimed
      BY <2>1, <2>3 DEF WorkIsClaimed
    <3> QED
      BY <2>1, <3>1, <3>2, <1>5
  <2> QED
    BY <2>2, <2>3
<1>11. ASSUME NEW h \in Handlers, RetryFails(h) PROVE Fewer
  BY <1>11, <1>5 DEF RetryFails
<1>12. ASSUME Expire \/ StartCleanup \/ SelectBatch \/ CleanupDies PROVE Fewer
  BY <1>12, <1>5 DEF Expire, StartCleanup, SelectBatch, CleanupDies
<1>13. CASE CommitBatch
  <2>1. \A k \in Jobs : row'[k] = "queued" => row[k] = "queued"
    BY <1>13 DEF CommitBatch
  <2>2. UNCHANGED <<claimed, upload>>
    BY <1>13 DEF CommitBatch
  <2> QED
    BY <2>1, <2>2, <1>5
<1>14. CASE UNCHANGED vars
  BY <1>14, <1>5 DEF vars
<1> QED
  BY <1>1, <1>2, <1>3, <1>4, <1>6, <1>7, <1>8, <1>9, <1>10, <1>11, <1>12, <1>13, <1>14 DEF Next

LEMMA PlacesCounted == Inv /\ WorkIsClaimed /\ PlacesBounded /\ [Next]_vars => PlacesBounded'
<1> SUFFICES ASSUME Inv, WorkIsClaimed, PlacesBounded, [Next]_vars PROVE PlacesBounded'
  OBVIOUS
<1> USE FS_CardinalityType
<1>1. /\ IsFiniteSet(Uploads) /\ Cardinality(Uploads) \in Nat /\ MaxBacklog \in Nat
      /\ ActiveUploads \subseteq Uploads /\ ActiveUploads' \subseteq Uploads
  BY DocumentsAssumption DEF ActiveUploads
<1>2. /\ IsFiniteSet(ActiveUploads) /\ Cardinality(ActiveUploads) \in Nat
      /\ IsFiniteSet(ActiveUploads') /\ Cardinality(ActiveUploads') \in Nat
      /\ Cardinality(ActiveUploads') <= Cardinality(Uploads)
  BY <1>1, FS_Subset
<1>3. IsFiniteSet(Unclaimed) /\ Cardinality(Unclaimed) \in Nat
  BY DEF PlacesBounded
<1>4. CASE Unclaimed' \subseteq Unclaimed /\ ActiveUploads' \subseteq ActiveUploads
  <2>1. IsFiniteSet(Unclaimed') /\ Cardinality(Unclaimed') <= Cardinality(Unclaimed)
    BY <1>3, <1>4, FS_Subset
  <2>2. Cardinality(ActiveUploads') <= Cardinality(ActiveUploads)
    BY <1>2, <1>4, FS_Subset
  <2>3. Cardinality(Unclaimed') \in Nat
    BY <2>1
  <2> QED
    BY <1>1, <1>2, <1>3, <2>1, <2>2, <2>3 DEF PlacesBounded
<1>5. CASE Unclaimed' = Unclaimed /\ Cardinality(Queued) < MaxBacklog
  <2>1. IsFiniteSet(Queued) /\ Cardinality(Queued) \in Nat
    <3>1. Queued \subseteq {j \in Jobs : row[j] # "none"}
      BY DEF Queued
    <3> QED
      BY <3>1, RowsFinite, FS_Subset
  <2>2. Cardinality(Unclaimed) <= Cardinality(Queued)
    BY <2>1, FS_Subset DEF Unclaimed
  <2> QED
    BY <1>1, <1>2, <1>3, <1>5, <2>1, <2>2 DEF PlacesBounded
<1>6. ASSUME NEW u \in ActiveUploads, NEW k \in Jobs,
             Unclaimed' \subseteq Unclaimed \cup {k}, ActiveUploads' \subseteq ActiveUploads \ {u}
      PROVE  PlacesBounded'
  <2>1. /\ IsFiniteSet(Unclaimed \cup {k})
        /\ Cardinality(Unclaimed \cup {k}) \in {Cardinality(Unclaimed), Cardinality(Unclaimed) + 1}
    BY <1>3, FS_AddElement
  <2>2. IsFiniteSet(Unclaimed') /\ Cardinality(Unclaimed') <= Cardinality(Unclaimed \cup {k})
    BY <1>6, <2>1, FS_Subset
  <2>3. /\ IsFiniteSet(ActiveUploads \ {u})
        /\ Cardinality(ActiveUploads \ {u}) = Cardinality(ActiveUploads) - 1
    BY <1>2, FS_RemoveElement
  <2>4. Cardinality(ActiveUploads') <= Cardinality(ActiveUploads \ {u})
    BY <1>6, <2>3, FS_Subset
  <2>5. Cardinality(Unclaimed') \in Nat
    BY <2>2
  <2> QED
    BY <1>1, <1>2, <1>3, <2>1, <2>2, <2>3, <2>4, <2>5 DEF PlacesBounded
<1> QED
  BY <1>4, <1>5, <1>6, PlacesStep
-----------------------------------------------------------------------------
LEMMA BoundsInit == Init => BoundsInv
<1> SUFFICES ASSUME Init PROVE BoundsInv
  OBVIOUS
<1>1. Stray = {} /\ Unclaimed = {} /\ ActiveUploads = {}
  BY DEF Init, Stray, Unclaimed, Queued, ActiveUploads, NoUpload
<1>2. IdleIsEmpty /\ WorkIsClaimed
  BY DEF Init, IdleIsEmpty, WorkIsClaimed, NoUpload, NoRequest
<1>3. StrayBounded
  BY <1>1, FS_EmptySet DEF StrayBounded, Init
<1>4. PlacesBounded
  BY <1>1, FS_EmptySet, FS_CardinalityType, DocumentsAssumption DEF PlacesBounded
<1> QED
  BY <1>2, <1>3, <1>4 DEF BoundsInv

LEMMA BoundsAlways == Spec => []BoundsInv
<1>1. Inv /\ BoundsInv /\ [Next]_vars => BoundsInv'
  BY IdleStep, StrayCounted, ClaimedStep, PlacesCounted DEF BoundsInv
<1> QED
  BY <1>1, BoundsInit, InvAlways, PTL DEF Spec

\* Files that no row refers to are leftovers of failed uploads, at most one
\* for each, however uploads, cleanup runs and retries interleave.
THEOREM StrayFilesBounded == Spec => []StrayFilesAreFailures
<1>1. BoundsInv => StrayFilesAreFailures
  BY DEF BoundsInv, StrayBounded, Stray, StrayFilesAreFailures
<1> QED
  BY <1>1, BoundsAlways, PTL

\* However many uploads read the backlog before one of them commits, the rows
\* no worker has claimed yet exceed max_queue_backlog by less than the number
\* of uploads at a time.
THEOREM OvershootBounded == Spec => []BacklogOvershoot
<1>1. BoundsInv => BacklogOvershoot
  <2> SUFFICES ASSUME BoundsInv PROVE BacklogOvershoot
    OBVIOUS
  <2>1. IsFiniteSet(Uploads) /\ ActiveUploads \subseteq Uploads /\ MaxBacklog \in Nat
    BY DocumentsAssumption DEF ActiveUploads
  <2>2. Cardinality(ActiveUploads) \in Nat /\ Cardinality(Uploads) \in Nat
    BY <2>1, FS_Subset, FS_CardinalityType
  <2>3. Cardinality(Unclaimed) \in Nat
    BY FS_CardinalityType DEF BoundsInv, PlacesBounded
  <2>4. Cardinality(Unclaimed) + Cardinality(ActiveUploads) <= MaxBacklog - 1 + Cardinality(Uploads)
    BY DEF BoundsInv, PlacesBounded
  <2>5. Cardinality(Unclaimed) <= MaxBacklog - 1 + Cardinality(Uploads)
    BY <2>1, <2>2, <2>3, <2>4
  <2> QED
    BY <2>5 DEF BacklogOvershoot, Unclaimed
<1> QED
  BY <1>1, BoundsAlways, PTL
=============================================================================
