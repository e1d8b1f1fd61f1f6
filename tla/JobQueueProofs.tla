--------------------------- MODULE JobQueueProofs ---------------------------
(***************************************************************************)
(* Theorems about JobQueue, for any sets of jobs, threads and requests and *)
(* any values of the settings.                                             *)
(***************************************************************************)
EXTENDS JobQueueRefinement, FiniteSetTheorems, TLAPS

(* What the statements of JobRows make of a row is a row.                  *)

LEMMA RowValues ==
  /\ Null \in Leases /\ Tokens \subseteq Leases
  /\ 0 \in Retries /\ 0 \in Ages
  /\ NoDelay \in Delays /\ 0 \in Delays
  /\ \A n \in Retries : OneMore(n) \in Retries
  /\ \A n \in Retries : ~(n >= MaxRetries) => n + 1 \in Retries
  BY RowAssumption
  DEF RowAssumption, Leases, Retries, Ages, Delays, NoDelay, OneMore

LEMMA StatusValues ==
  /\ Completed \subseteq Terminal /\ Terminal \subseteq Statuses
  /\ Terminal = Statuses \ {"queued", "processing"}
  /\ {"queued", "processing", "failed"} \subseteq Statuses
  /\ "failed" \in Terminal
  BY DEF Statuses, Terminal, Completed

\* The retry delay never exceeds worker_retry_max_delay_seconds.
LEMMA BackoffType == ASSUME NEW n \in Nat PROVE Backoff(n) \in 0..MaxDelay
  BY RowAssumption DEF RowAssumption, Backoff

LEMMA NewRowType == NewRow \in Rows
  BY RowValues, StatusValues DEF NewRow, Rows

LEMMA AgedType == ASSUME NEW r \in Rows PROVE Aged(r) \in Rows
  <1>1. ASSUME NEW d \in Delays PROVE (IF d > 0 THEN d - 1 ELSE d) \in Delays
    BY RowAssumption DEF RowAssumption, Delays, NoDelay
  <1>2. ASSUME NEW a \in Ages
        PROVE  (IF r.status = "processing" /\ a <= StaleThreshold THEN a + 1 ELSE a) \in Ages
    BY RowAssumption DEF RowAssumption, Ages
  <1>3. QED
    BY <1>1, <1>2 DEF Aged, Rows

LEMMA SnapshotType == ASSUME NEW r \in Rows PROVE Snapshot(r) \in Rows
  BY RowValues DEF Snapshot, Rows

LEMMA StatementTypes ==
  ASSUME NEW r \in Rows
  PROVE  /\ \A t \in Tokens : Claimed(r, t) \in Rows
         /\ Reaped(r) \in Rows
         /\ \A st \in Terminal : Settled(r, st) \in Rows
  <1>1. \A t \in Tokens : Claimed(r, t) \in Rows
    BY RowValues, StatusValues DEF Claimed, Rows
  <1>2. Reaped(r) \in Rows
    BY RowValues, StatusValues DEF Reaped, Rows
  <1>3. \A st \in Terminal : Settled(r, st) \in Rows
    BY RowValues, StatusValues DEF Settled, Rows
  <1>4. QED
    BY <1>1, <1>2, <1>3

LEMMA FlushType ==
  ASSUME NEW r \in Rows, NEW old \in Rows, NEW new \in Rows
  PROVE  Flush(r, old, new) \in Rows
  BY RowValues DEF Flush, Rows

LEMMA WriterTypes ==
  ASSUME NEW old \in Rows
  PROVE  AfterError(old) \in Rows /\ AfterManualRetry(old) \in Rows
  <1>1. AfterError(old) \in Rows
    <2>1. CASE old.retries >= MaxRetries
      BY <2>1, StatusValues DEF AfterError, Rows
    <2>2. CASE ~(old.retries >= MaxRetries)
      <3>1. old.retries + 1 \in Retries
        BY <2>2, RowValues DEF Rows
      <3>2. Backoff(old.retries + 1) \in Delays
        BY <3>1, BackoffType, RowAssumption DEF RowAssumption, Retries, Delays, NoDelay
      <3>3. QED
        BY <2>2, <3>1, <3>2, RowValues, StatusValues DEF AfterError, Rows
    <2>3. QED
      BY <2>1, <2>2
  <1>2. AfterManualRetry(old) \in Rows
    BY RowValues, StatusValues DEF AfterManualRetry, Rows
  <1>3. QED
    BY <1>1, <1>2
-----------------------------------------------------------------------------
(* Type correctness.                                                       *)

\* The parts of TypeOK, so that a step can name the one it is about.
TypeDb == jobs \in [Jobs -> Rows] /\ extractions \in [Jobs -> Seq(Completed)]
          /\ audit \in [Jobs -> Nat]
TypeTask == /\ task \in [Workers -> Tasks]
            /\ \A w \in Workers : Active(w) => task[w].job \in Jobs /\ task[w].token \in Tokens
TypeRest == /\ request \in [Handlers -> Requests]
            /\ process \in {"up", "draining", "down"}
            /\ errors \in 0..MaxErrors /\ faults \in 0..MaxFaults /\ requests \in 0..MaxRequests

LEMMA TypeParts == TypeOK <=> TypeDb /\ TypeTask /\ TypeRest
  BY DEF TypeOK, TypeDb, TypeTask, TypeRest, Active

LEMMA IdleType == Idle \in Tasks /\ NoRequest \in Requests
  BY RowValues, NewRowType
  DEF Idle, NoRequest, Tasks, Requests, Steps, JobOrNull

LEMMA Budget == ASSUME NEW b \in {MaxErrors, MaxFaults, MaxRequests}
                PROVE  /\ 0 \in 0..b
                       /\ \A n \in 0..b : n < b => n + 1 \in 0..b
  BY QueueAssumption DEF QueueAssumption

LEMMA InitType == Init => TypeOK
  <1> SUFFICES ASSUME Init PROVE TypeDb /\ TypeTask /\ TypeRest
    BY TypeParts
  <1>1. TypeDb
    BY NewRowType, IdleType DEF Init, TypeDb
  <1>2. TypeTask
    BY IdleType DEF Init, TypeTask, Active, Idle
  <1>3. TypeRest
    BY IdleType, Budget DEF Init, TypeRest
  <1>4. QED
    BY <1>1, <1>2, <1>3

\* A thread that goes back to the top of its loop.
LEMMA ReleaseType ==
  ASSUME TypeTask, NEW w \in Workers, Release(w) PROVE TypeTask'
  BY IdleType DEF TypeTask, Release, Active, Idle

\* A thread that goes on to another step of the same attempt.
LEMMA StepType ==
  ASSUME TypeTask, NEW w \in Workers, Active(w), NEW s \in Steps, s # "idle",
         task' = [task EXCEPT ![w].step = s]
  PROVE  TypeTask'
  BY DEF TypeTask, Tasks, Active

LEMMA StepTypeOK == TypeOK /\ [Next]_vars => TypeOK'
  <1> SUFFICES ASSUME TypeOK, [Next]_vars PROVE TypeDb' /\ TypeTask' /\ TypeRest'
    BY TypeParts DEF TypeOK, TypeDb, TypeTask, TypeRest, Active
  <1>a. TypeDb /\ TypeTask /\ TypeRest
    BY TypeParts
  <1>1. ASSUME NEW w \in Workers, NEW j \in Jobs, Claim(w, j)
        PROVE  TypeDb' /\ TypeTask' /\ TypeRest'
    <2>1. PICK t \in FreshTokens :
            /\ jobs' = [jobs EXCEPT ![j] = Claimed(@, t)]
            /\ task' = [task EXCEPT ![w] =
                          [Idle EXCEPT !.step = "claimed", !.job = j, !.token = t]]
      BY <1>1 DEF Claim
    <2>2. t \in Tokens
      BY DEF FreshTokens
    <2>3. TypeDb'
      BY <1>1, <1>a, <2>1, <2>2, StatementTypes DEF Claim, TypeDb
    <2>4. TypeTask'
      BY <1>a, <2>1, <2>2, NewRowType, RowValues
      DEF TypeTask, Idle, Active, Tasks, Steps, JobOrNull
    <2>5. TypeRest'
      BY <1>1, <1>a DEF Claim, TypeRest, budgets
    <2>6. QED
      BY <2>3, <2>4, <2>5
  <1>2. ASSUME NEW w \in Workers, NEW j \in Jobs, ClaimReplyLost(w, j)
        PROVE  TypeDb' /\ TypeTask' /\ TypeRest'
    <2>1. PICK t \in FreshTokens : jobs' = [jobs EXCEPT ![j] = Claimed(@, t)]
      BY <1>2 DEF ClaimReplyLost
    <2>2. t \in Tokens
      BY DEF FreshTokens
    <2>3. TypeDb'
      BY <1>2, <1>a, <2>1, <2>2, StatementTypes DEF ClaimReplyLost, TypeDb
    <2>4. TypeTask' /\ TypeRest'
      BY <1>2, <1>a, Budget DEF ClaimReplyLost, TypeTask, TypeRest, Active
    <2>5. QED
      BY <2>3, <2>4
  <1>3. ASSUME NEW w \in Workers, StartProcessing(w)
        PROVE  TypeDb' /\ TypeTask' /\ TypeRest'
    <2>1. TypeTask'
      <3>1. CASE Release(w)
        BY <3>1, <1>a, ReleaseType
      <3>2. CASE task' = [task EXCEPT ![w].step = "running"]
        BY <3>2, <1>3, <1>a, StepType DEF StartProcessing, Active, Steps
      <3>3. QED
        BY <1>3, <3>1, <3>2 DEF StartProcessing
    <2>2. QED
      BY <1>3, <1>a, <2>1 DEF StartProcessing, TypeDb, TypeRest, dbVars, budgets
  <1>4. ASSUME NEW w \in Workers, StartFails(w) \/ HandleErrorFails(w)
        PROVE  TypeDb' /\ TypeTask' /\ TypeRest'
    BY <1>4, <1>a, ReleaseType, Budget
    DEF StartFails, HandleErrorFails, TypeDb, TypeRest, dbVars
  <1>5. ASSUME NEW w \in Workers, NEW st \in Completed, Publish(w, st)
        PROVE  TypeDb' /\ TypeTask' /\ TypeRest'
    <2>1. task[w].job \in Jobs /\ Active(w)
      BY <1>5, <1>a DEF Publish, TypeTask, Holds
    <2>2. Settled(jobs[task[w].job], st) \in Rows
      BY <1>a, <2>1, StatementTypes, StatusValues DEF TypeDb
    <2>3. TypeDb'
      BY <1>5, <1>a, <2>1, <2>2 DEF Publish, TypeDb
    <2>4. TypeTask'
      BY <1>5, <1>a, <2>1, StepType DEF Publish, Steps
    <2>5. TypeRest'
      BY <1>5, <1>a DEF Publish, TypeRest, budgets
    <2>6. QED
      BY <2>3, <2>4, <2>5
  <1>6. ASSUME NEW w \in Workers, FailExtraction(w)
        PROVE  TypeDb' /\ TypeTask' /\ TypeRest'
    <2>1. task[w].job \in Jobs /\ Active(w)
      BY <1>6, <1>a DEF FailExtraction, TypeTask, Holds
    <2>2. Settled(jobs[task[w].job], "failed") \in Rows
      BY <1>a, <2>1, StatementTypes, StatusValues DEF TypeDb
    <2>3. TypeDb'
      BY <1>6, <1>a, <2>1, <2>2 DEF FailExtraction, TypeDb
    <2>4. TypeTask'
      BY <1>6, <1>a, <2>1, StepType DEF FailExtraction, Steps
    <2>5. TypeRest'
      BY <1>6, <1>a DEF FailExtraction, TypeRest, budgets
    <2>6. QED
      BY <2>3, <2>4, <2>5
  <1>7. ASSUME NEW w \in Workers, DiscardStaleWrite(w) \/ Finish(w)
        PROVE  TypeDb' /\ TypeTask' /\ TypeRest'
    BY <1>7, <1>a, ReleaseType
    DEF DiscardStaleWrite, Finish, TypeDb, TypeRest, dbVars, budgets
  <1>8. ASSUME NEW w \in Workers, UnexpectedError(w)
        PROVE  TypeDb' /\ TypeTask' /\ TypeRest'
    <2>1. TypeTask'
      <3>1. CASE Release(w)
        BY <3>1, <1>a, ReleaseType
      <3>2. CASE /\ Holds(w)
                 /\ task' = [task EXCEPT ![w].step = "handling",
                                         ![w].loaded = Snapshot(jobs[task[w].job])]
        <4>1. task[w].job \in Jobs /\ Active(w)
          BY <3>2, <1>a DEF TypeTask, Holds
        <4>2. Snapshot(jobs[task[w].job]) \in Rows
          BY <4>1, <1>a, SnapshotType DEF TypeDb
        <4>3. QED
          BY <3>2, <4>1, <4>2, <1>a DEF TypeTask, Tasks, Steps, Active
      <3>3. QED
        BY <1>8, <3>1, <3>2 DEF UnexpectedError
    <2>2. QED
      BY <1>8, <1>a, <2>1, Budget DEF UnexpectedError, TypeDb, TypeRest, dbVars
  <1>9. ASSUME NEW w \in Workers, HandleError(w)
        PROVE  TypeDb' /\ TypeTask' /\ TypeRest'
    <2> DEFINE j == task[w].job
               old == task[w].loaded
    <2>1. j \in Jobs /\ old \in Rows
      BY <1>9, <1>a DEF HandleError, TypeTask, Tasks, Active
    <2>2. Flush(jobs[j], old, AfterError(old)) \in Rows
      BY <1>a, <2>1, FlushType, WriterTypes DEF TypeDb
    <2>3. jobs' \in [Jobs -> Rows]
      BY <1>9, <1>a, <2>2 DEF HandleError, TypeDb
    <2>4. QED
      BY <1>9, <1>a, <2>3, ReleaseType DEF HandleError, TypeDb, TypeRest, budgets
  <1>10. CASE Reap
    BY <1>10, <1>a, StatementTypes DEF Reap, TypeDb, TypeTask, TypeRest, Active, budgets
  <1>11. CASE Tick
    BY <1>11, <1>a, AgedType DEF Tick, TypeDb, TypeTask, TypeRest, Active, budgets
  <1>12. ASSUME NEW h \in Handlers, NEW j \in Jobs, RetryLoad(h, j)
         PROVE  TypeDb' /\ TypeTask' /\ TypeRest'
    <2>1. [job |-> j, loaded |-> Snapshot(jobs[j])] \in Requests
      BY <1>a, SnapshotType DEF TypeDb, Requests, JobOrNull
    <2>2. QED
      BY <1>12, <1>a, <2>1, Budget
      DEF RetryLoad, TypeDb, TypeTask, TypeRest, Active, dbVars
  <1>13. ASSUME NEW h \in Handlers, RetryCommit(h)
         PROVE  TypeDb' /\ TypeTask' /\ TypeRest'
    <2> DEFINE j == request[h].job
               old == request[h].loaded
    <2>1. j \in Jobs /\ old \in Rows
      BY <1>13, <1>a DEF RetryCommit, TypeRest, Requests, JobOrNull
    <2>2. Flush(jobs[j], old, AfterManualRetry(old)) \in Rows
      BY <1>a, <2>1, FlushType, WriterTypes DEF TypeDb
    <2>3. jobs' \in [Jobs -> Rows]
      BY <1>13, <1>a, <2>2 DEF RetryCommit, TypeDb
    <2>4. audit' \in [Jobs -> Nat]
      BY <1>13, <1>a, <2>1 DEF RetryCommit, TypeDb
    <2>5. request' \in [Handlers -> Requests]
      BY <1>13, <1>a, IdleType DEF RetryCommit, TypeRest
    <2>6. QED
      BY <1>13, <1>a, <2>3, <2>4, <2>5
      DEF RetryCommit, TypeDb, TypeTask, TypeRest, Active, budgets
  <1>14. ASSUME NEW h \in Handlers, RetryFails(h)
         PROVE  TypeDb' /\ TypeTask' /\ TypeRest'
    BY <1>14, <1>a, IdleType
    DEF RetryFails, TypeDb, TypeTask, TypeRest, Active, dbVars, budgets
  <1>15. CASE Crash
    BY <1>15, <1>a, IdleType, Budget
    DEF Crash, TypeDb, TypeTask, TypeRest, Active, Idle, dbVars
  <1>16. CASE Sigterm \/ Exit \/ Start
    BY <1>16, <1>a, Budget
    DEF Sigterm, Exit, Start, TypeDb, TypeTask, TypeRest, Active, dbVars, budgets
  <1>17. CASE UNCHANGED vars
    BY <1>17, <1>a DEF vars, TypeDb, TypeTask, TypeRest, Active, dbVars, budgets
  <1>18. QED
    BY <1>1, <1>2, <1>3, <1>4, <1>5, <1>6, <1>7, <1>8, <1>9, <1>10, <1>11, <1>12,
       <1>13, <1>14, <1>15, <1>16, <1>17
    DEF Next, WorkerThread, EndAttempt, RetryEndpoint, WorkerProcess

\* Every reachable state is well typed: in particular no delay exceeds the
\* configured maximum and no thread works without a job and a token.
THEOREM TypeCorrect == Spec => []TypeOK
  BY InitType, StepTypeOK, PTL DEF Spec
-----------------------------------------------------------------------------
(* Mutual exclusion of the writers, whatever goes wrong.                   *)

\* An attempt that is under way after a step was under way before it with
\* the same job and token, or has just been claimed with a fresh token while
\* every other thread stood still.
LEMMA AttemptKept ==
  ASSUME TypeOK, [Next]_vars, NEW w \in Workers, Active(w)'
  PROVE  \/ /\ Active(w)
            /\ task'[w].job = task[w].job /\ task'[w].token = task[w].token
         \/ /\ task'[w].token \in FreshTokens
            /\ \A v \in Workers \ {w} : task'[v] = task[v]
  <1> DEFINE Kept == /\ Active(w)
                     /\ task'[w].job = task[w].job /\ task'[w].token = task[w].token
             New == /\ task'[w].token \in FreshTokens
                    /\ \A v \in Workers \ {w} : task'[v] = task[v]
  <1> SUFFICES Kept \/ New
    OBVIOUS
  <1>a. task \in [Workers -> Tasks]
    BY DEF TypeOK
  <1>b. ASSUME NEW v \in Workers, Release(v) PROVE Kept
    BY <1>a, <1>b DEF Release, Active, Idle
  <1>c. ASSUME NEW v \in Workers, Active(v), NEW s, task' = [task EXCEPT ![v].step = s]
        PROVE  Kept
    BY <1>a, <1>c DEF Active, Tasks
  <1>d. ASSUME UNCHANGED task PROVE Kept
    BY <1>d DEF Active
  <1>1. ASSUME NEW v \in Workers, NEW j \in Jobs, Claim(v, j) PROVE Kept \/ New
    <2>1. PICK t \in FreshTokens :
            task' = [task EXCEPT ![v] =
                       [Idle EXCEPT !.step = "claimed", !.job = j, !.token = t]]
      BY <1>1 DEF Claim
    <2>2. CASE v = w
      BY <1>a, <2>1, <2>2 DEF Idle
    <2>3. CASE v # w
      BY <1>a, <2>1, <2>3 DEF Active
    <2>4. QED
      BY <2>2, <2>3
  <1>2. ASSUME NEW v \in Workers, NEW j \in Jobs, ClaimReplyLost(v, j) PROVE Kept
    BY <1>2, <1>d DEF ClaimReplyLost
  <1>3. ASSUME NEW v \in Workers, StartProcessing(v) PROVE Kept
    BY <1>3, <1>b, <1>c DEF StartProcessing, Active
  <1>4. ASSUME NEW v \in Workers,
               StartFails(v) \/ HandleErrorFails(v) \/ HandleError(v) \/ Finish(v)
                 \/ DiscardStaleWrite(v)
        PROVE  Kept
    BY <1>4, <1>b DEF StartFails, HandleErrorFails, HandleError, Finish, DiscardStaleWrite
  <1>5. ASSUME NEW v \in Workers,
               FailExtraction(v) \/ \E st \in Completed : Publish(v, st)
        PROVE  Kept
    BY <1>5, <1>c DEF Publish, FailExtraction, Active
  <1>6. ASSUME NEW v \in Workers, UnexpectedError(v) PROVE Kept
    <2>1. CASE Release(v)
      BY <2>1, <1>b
    <2>2. CASE task' = [task EXCEPT ![v].step = "handling",
                                    ![v].loaded = Snapshot(jobs[task[v].job])]
      BY <1>6, <1>a, <2>2 DEF UnexpectedError, Active, Tasks
    <2>3. QED
      BY <1>6, <2>1, <2>2 DEF UnexpectedError
  <1>7. CASE Crash
    BY <1>7 DEF Crash, Active, Idle
  <1>8. CASE \/ Reap \/ Tick \/ Sigterm \/ Exit \/ Start
             \/ \E h \in Handlers : RetryEndpoint(h)
             \/ UNCHANGED vars
    BY <1>8, <1>d
    DEF Reap, Tick, Sigterm, Exit, Start, RetryEndpoint, RetryLoad, RetryCommit,
        RetryFails, vars
  <1>9. QED
    BY <1>1, <1>2, <1>3, <1>4, <1>5, <1>6, <1>7, <1>8
    DEF Next, WorkerThread, EndAttempt, WorkerProcess

LEMMA TokensDistinctStep ==
  TypeOK /\ TokensDistinct /\ [Next]_vars => TokensDistinct'
  <1> SUFFICES ASSUME TypeOK, TokensDistinct, [Next]_vars,
                      NEW v \in Workers, NEW w \in Workers,
                      Active(v)', Active(w)', task'[v].token = task'[w].token, v # w
               PROVE  FALSE
    BY DEF TokensDistinct, Active
  <1> DEFINE Kept(u) == Active(u) /\ task'[u].token = task[u].token
             New(u)  == /\ task'[u].token \in FreshTokens
                        /\ \A x \in Workers \ {u} : task'[x] = task[x]
  <1>1. (Kept(v) \/ New(v)) /\ (Kept(w) \/ New(w))
    BY AttemptKept
  <1>2. ASSUME NEW u \in Workers, NEW x \in Workers, u # x, New(u),
               task'[u].token = task'[x].token
        PROVE  FALSE
    BY <1>2 DEF FreshTokens
  <1>3. CASE Kept(v) /\ Kept(w)
    BY <1>3 DEF TokensDistinct
  <1>4. QED
    BY <1>1, <1>2, <1>3

\* Of all the attempts at a job, at most one passes the fence of
\* _fenced_update: with any number of threads, crashes, reaps, manual
\* retries, unexpected errors and lost replies.
THEOREM OnlyOneHolder == Spec => []LeaseExclusion
  <1>1. Init => TokensDistinct
    BY DEF Init, TokensDistinct, Active, Idle
  <1>2. TokensDistinct => LeaseExclusion
    BY DEF TokensDistinct, LeaseExclusion, Holds
  <1>3. QED
    BY <1>1, <1>2, TypeCorrect, TokensDistinctStep, PTL DEF Spec
-----------------------------------------------------------------------------
(* A completed job can be served.                                          *)

\* A flush writes the status the writer assigned or none.
LEMMA FlushStatus ==
  \A r, old, new : Flush(r, old, new).status \in {new.status, r.status}
  BY DEF Flush

\* A step that leaves the extractions of a job alone never turns its status
\* into a completed one: only Publish does, and it adds the extraction.
LEMMA CompletedStep ==
  ASSUME TypeOK, [Next]_vars, NEW j \in Jobs, jobs'[j].status \in Completed
  PROVE  \/ jobs'[j].status = jobs[j].status /\ extractions'[j] = extractions[j]
         \/ extractions'[j] = Append(extractions[j], jobs'[j].status)
  <1> DEFINE Same == jobs'[j].status = jobs[j].status /\ extractions'[j] = extractions[j]
             Added == extractions'[j] = Append(extractions[j], jobs'[j].status)
  <1>a. /\ jobs \in [Jobs -> Rows] /\ extractions \in [Jobs -> Seq(Completed)]
        /\ task \in [Workers -> Tasks]
    BY DEF TypeOK
  <1>b. "queued" \notin Completed /\ "processing" \notin Completed /\ "failed" \notin Completed
    BY DEF Completed
  <1>c. ASSUME UNCHANGED dbVars PROVE Same
    BY <1>c DEF dbVars
  <1>1. ASSUME NEW w \in Workers, NEW k \in Jobs, Claim(w, k) \/ ClaimReplyLost(w, k)
        PROVE  Same
    <2>1. PICK t \in FreshTokens : jobs' = [jobs EXCEPT ![k] = Claimed(@, t)]
      BY <1>1 DEF Claim, ClaimReplyLost
    <2>2. extractions' = extractions
      BY <1>1 DEF Claim, ClaimReplyLost
    <2>3. QED
      BY <1>a, <1>b, <2>1, <2>2 DEF Claimed, Rows
  <1>2. ASSUME NEW w \in Workers, NEW st \in Completed, Publish(w, st) PROVE Same \/ Added
    <2>1. CASE task[w].job = j
      BY <1>2, <1>a, <2>1 DEF Publish, Settled, Rows
    <2>2. CASE task[w].job # j
      BY <1>2, <1>a, <2>2 DEF Publish
    <2>3. QED
      BY <2>1, <2>2
  <1>3. ASSUME NEW w \in Workers, FailExtraction(w) PROVE Same
    BY <1>3, <1>a, <1>b DEF FailExtraction, Settled, Rows
  <1>4. ASSUME NEW w \in Workers, HandleError(w) PROVE Same
    <2>1. task[w].loaded \in Rows
      BY <1>a DEF Tasks
    <2>2. AfterError(task[w].loaded).status \in {"queued", "failed"}
      BY <2>1 DEF AfterError, Rows
    <2>3. jobs'[j] = jobs[j] \/ jobs'[j].status \in {"queued", "failed", jobs[j].status}
      BY <1>4, <1>a, <2>2, FlushStatus DEF HandleError
    <2>4. extractions' = extractions
      BY <1>4 DEF HandleError
    <2>5. QED
      BY <1>b, <2>3, <2>4
  <1>5. ASSUME NEW w \in Workers,
               StartProcessing(w) \/ StartFails(w) \/ DiscardStaleWrite(w) \/ Finish(w)
                 \/ UnexpectedError(w) \/ HandleErrorFails(w)
        PROVE  Same
    BY <1>5, <1>c
    DEF StartProcessing, StartFails, DiscardStaleWrite, Finish, UnexpectedError,
        HandleErrorFails
  <1>6. CASE Reap
    BY <1>6, <1>a, <1>b DEF Reap, Reaped, Rows
  <1>7. CASE Tick
    BY <1>7, <1>a DEF Tick, Aged, Rows
  <1>8. ASSUME NEW h \in Handlers, RetryCommit(h) PROVE Same
    <2>1. request[h].loaded \in Rows
      BY DEF TypeOK, Requests
    <2>2. AfterManualRetry(request[h].loaded).status = "queued"
      BY <2>1 DEF AfterManualRetry, Rows
    <2>3. jobs'[j] = jobs[j] \/ jobs'[j].status \in {"queued", jobs[j].status}
      BY <1>8, <1>a, <2>2, FlushStatus DEF RetryCommit
    <2>4. extractions' = extractions
      BY <1>8 DEF RetryCommit
    <2>5. QED
      BY <1>b, <2>3, <2>4
  <1>9. ASSUME NEW h \in Handlers,
               RetryFails(h) \/ \E k \in Jobs : RetryLoad(h, k)
        PROVE  Same
    BY <1>9, <1>c DEF RetryFails, RetryLoad
  <1>10. CASE Sigterm \/ Exit \/ Crash \/ Start \/ UNCHANGED vars
    BY <1>10, <1>c DEF Sigterm, Exit, Crash, Start, vars
  <1>11. QED
    BY <1>1, <1>2, <1>3, <1>4, <1>5, <1>6, <1>7, <1>8, <1>9, <1>10
    DEF Next, WorkerThread, EndAttempt, RetryEndpoint, WorkerProcess

\* The result of a completed job can always be served, and its newest
\* extraction has the status the job shows: with unexpected errors, blind
\* writes of the except branch and crashes in any number.
THEOREM CompletedServed == Spec => []CompletedHasExtraction
  <1>1. Init => CompletedHasExtraction
    BY DEF Init, CompletedHasExtraction, NewRow, Completed
  <1>2. TypeOK /\ CompletedHasExtraction /\ [Next]_vars => CompletedHasExtraction'
    <2> SUFFICES ASSUME TypeOK, CompletedHasExtraction, [Next]_vars,
                        NEW j \in Jobs, jobs'[j].status \in Completed
                 PROVE  /\ extractions'[j] # <<>>
                        /\ extractions'[j][Len(extractions'[j])] = jobs'[j].status
      BY DEF CompletedHasExtraction
    <2>1. CASE jobs'[j].status = jobs[j].status /\ extractions'[j] = extractions[j]
      BY <2>1 DEF CompletedHasExtraction
    <2>2. CASE extractions'[j] = Append(extractions[j], jobs'[j].status)
      <3>1. extractions[j] \in Seq(Completed)
        BY DEF TypeOK
      <3>2. QED
        BY <2>2, <3>1
    <2>3. QED
      BY <2>1, <2>2, CompletedStep
  <1>3. QED
    BY <1>1, <1>2, TypeCorrect, PTL DEF Spec
-----------------------------------------------------------------------------
(* The fence, when no unexpected error occurs.                             *)

\* Rows loaded by a retry request: the flush requeues a row and takes its
\* lease away, or does neither.
LEMMA ManualFlush ==
  ASSUME NEW r \in Rows, NEW old \in Rows, Unleased(old),
         NEW q, q = Flush(r, old, AfterManualRetry(old))
  PROVE  \/ q.status = r.status /\ q.lease = r.lease
         \/ q.status = "queued" /\ q.lease = Null
  <1>1. /\ q.status = IF old.status # "queued" THEN "queued" ELSE r.status
        /\ q.lease = IF old.lease # Null THEN Null ELSE r.lease
    BY DEF Flush, AfterManualRetry, Rows
  <1>2. QED
    BY <1>1 DEF Unleased

\* What one step can do to the row of a job.
RowKept(j) ==
  /\ jobs'[j].status = jobs[j].status /\ jobs'[j].lease = jobs[j].lease
  /\ Len(extractions'[j]) = Len(extractions[j])
  /\ audit'[j] >= audit[j]

RowClaimed(j) ==
  /\ jobs[j].status = "queued" /\ jobs'[j].status = "processing"
  /\ jobs'[j].lease \in FreshTokens
  /\ Len(extractions'[j]) = Len(extractions[j])
  /\ audit'[j] = audit[j]

RowRequeued(j) ==
  /\ jobs'[j].status = "queued" /\ jobs'[j].lease = Null
  /\ Len(extractions'[j]) = Len(extractions[j])
  /\ \/ jobs[j].status = "processing" /\ audit'[j] = audit[j]
     \/ /\ audit'[j] = audit[j] + 1
        /\ \E h \in Handlers : request[h].job = j /\ request'[h] = NoRequest

RowSettled(w, j) ==
  /\ Holds(w) /\ task[w].job = j /\ task[w].step = "running"
  /\ task'[w].step = "written"
  /\ jobs'[j].status \in Terminal /\ jobs'[j].lease = jobs[j].lease
  /\ Len(extractions'[j]) <= Len(extractions[j]) + 1
  /\ audit'[j] = audit[j]

RowStep(j) ==
  RowKept(j) \/ RowClaimed(j) \/ RowRequeued(j) \/ \E w \in Workers : RowSettled(w, j)

LEMMA RowTypes ==
  ASSUME TypeOK, NEW j \in Jobs
  PROVE  /\ jobs[j] \in Rows
         /\ Len(extractions[j]) \in Nat
         /\ audit[j] \in Nat
  BY DEF TypeOK

LEMMA EveryRowStep ==
  ASSUME TypeOK, FenceInv, MaxErrors = 0, [Next]_vars, NEW j \in Jobs
  PROVE  RowStep(j)
  <1>a. /\ jobs \in [Jobs -> Rows] /\ extractions \in [Jobs -> Seq(Completed)]
        /\ audit \in [Jobs -> Nat] /\ task \in [Workers -> Tasks]
        /\ errors = 0
    BY DEF TypeOK
  <1>b. ASSUME UNCHANGED dbVars PROVE RowStep(j)
    BY <1>b, RowTypes DEF dbVars, RowStep, RowKept
  <1>1. ASSUME NEW w \in Workers, NEW k \in Jobs, Claim(w, k) \/ ClaimReplyLost(w, k)
        PROVE  RowStep(j)
    <2>1. PICK t \in FreshTokens : jobs' = [jobs EXCEPT ![k] = Claimed(@, t)]
      BY <1>1 DEF Claim, ClaimReplyLost
    <2>2. UNCHANGED <<extractions, audit>> /\ jobs[k].status = "queued"
      BY <1>1 DEF Claim, ClaimReplyLost, NextDue, Due
    <2>3. CASE k = j
      BY <1>a, <2>1, <2>2, <2>3 DEF RowStep, RowClaimed, Claimed, Rows
    <2>4. CASE k # j
      BY <1>a, <2>1, <2>2, <2>4, RowTypes DEF RowStep, RowKept
    <2>5. QED
      BY <2>3, <2>4
  <1>2. ASSUME NEW w \in Workers, NEW st \in Completed, Publish(w, st)
        PROVE  RowStep(j)
    <2>1. st \in Terminal
      BY StatusValues
    <2>2. CASE task[w].job = j
      <3>1. extractions' = [extractions EXCEPT ![j] = Append(@, st)] /\ audit' = audit
        BY <1>2, <2>2 DEF Publish
      <3>2. Len(extractions'[j]) = Len(extractions[j]) + 1
        BY <1>a, <3>1
      <3>3. jobs'[j].status = st /\ jobs'[j].lease = jobs[j].lease
        BY <1>2, <1>a, <2>2 DEF Publish, Settled, Rows
      <3>4. task'[w].step = "written"
        BY <1>2, <1>a DEF Publish, Tasks
      <3>5. RowSettled(w, j)
        BY <1>2, <2>1, <2>2, <3>1, <3>2, <3>3, <3>4, RowTypes DEF RowSettled, Publish
      <3>6. QED
        BY <3>5 DEF RowStep
    <2>3. CASE task[w].job # j
      BY <1>2, <1>a, <2>3, RowTypes DEF Publish, RowStep, RowKept
    <2>4. QED
      BY <2>2, <2>3
  <1>3. ASSUME NEW w \in Workers, FailExtraction(w) PROVE RowStep(j)
    <2>1. CASE task[w].job = j
      <3>1. UNCHANGED <<extractions, audit>>
        BY <1>3 DEF FailExtraction
      <3>2. jobs'[j].status = "failed" /\ jobs'[j].lease = jobs[j].lease
        BY <1>3, <1>a, <2>1 DEF FailExtraction, Settled, Rows
      <3>3. task'[w].step = "written"
        BY <1>3, <1>a DEF FailExtraction, Tasks
      <3>4. RowSettled(w, j)
        BY <1>3, <2>1, <3>1, <3>2, <3>3, RowTypes, StatusValues
        DEF RowSettled, FailExtraction
      <3>5. QED
        BY <3>4 DEF RowStep
    <2>2. CASE task[w].job # j
      BY <1>3, <1>a, <2>2, RowTypes DEF FailExtraction, RowStep, RowKept
    <2>3. QED
      BY <2>1, <2>2
  <1>4. ASSUME NEW w \in Workers,
               StartProcessing(w) \/ StartFails(w) \/ DiscardStaleWrite(w) \/ Finish(w)
                 \/ UnexpectedError(w) \/ HandleErrorFails(w)
        PROVE  RowStep(j)
    BY <1>4, <1>b
    DEF StartProcessing, StartFails, DiscardStaleWrite, Finish, UnexpectedError,
        HandleErrorFails
  <1>5. ASSUME NEW w \in Workers, HandleError(w) PROVE RowStep(j)
    BY <1>5 DEF HandleError, FenceInv
  <1>6. CASE Reap
    <2>1. UNCHANGED <<extractions, audit>>
      BY <1>6 DEF Reap
    <2>2. CASE Stale(jobs[j])
      BY <1>6, <1>a, <2>1, <2>2 DEF Reap, Reaped, Stale, Rows, RowStep, RowRequeued
    <2>3. CASE ~Stale(jobs[j])
      BY <1>6, <1>a, <2>1, <2>3, RowTypes DEF Reap, RowStep, RowKept
    <2>4. QED
      BY <2>2, <2>3
  <1>7. CASE Tick
    <2>1. ASSUME NEW r \in Rows PROVE Aged(r).status = r.status /\ Aged(r).lease = r.lease
      BY DEF Aged, Rows
    <2>2. jobs'[j] = Aged(jobs[j]) /\ UNCHANGED <<extractions, audit>>
      BY <1>7 DEF Tick
    <2>3. QED
      BY <2>1, <2>2, RowTypes DEF RowStep, RowKept
  <1>8. ASSUME NEW h \in Handlers, RetryCommit(h) PROVE RowStep(j)
    <2> DEFINE k == request[h].job
               old == request[h].loaded
    <2>1. k \in Jobs /\ old \in Rows /\ Unleased(old)
      BY <1>8 DEF RetryCommit, TypeOK, Requests, JobOrNull, FenceInv
    <2>2. /\ UNCHANGED extractions
          /\ audit' = [audit EXCEPT ![k] = @ + 1]
      BY <1>8 DEF RetryCommit
    <2>3. CASE k = j
      <3>1. audit'[j] = audit[j] + 1
        BY <1>a, <2>2, <2>3
      <3>2. CASE UNCHANGED jobs
        BY <2>2, <3>1, <3>2, RowTypes DEF RowStep, RowKept
      <3>3. CASE jobs' = [jobs EXCEPT ![k] = Flush(@, old, AfterManualRetry(old))]
        <4>1. jobs'[j] = Flush(jobs[j], old, AfterManualRetry(old))
          BY <1>a, <2>3, <3>3
        <4>2. \/ jobs'[j].status = jobs[j].status /\ jobs'[j].lease = jobs[j].lease
              \/ jobs'[j].status = "queued" /\ jobs'[j].lease = Null
          BY <2>1, <4>1, RowTypes, ManualFlush
        <4>3. request[h].job = j /\ request'[h] = NoRequest
          BY <1>8, <2>3 DEF RetryCommit, TypeOK
        <4>4. QED
          BY <2>2, <3>1, <4>2, <4>3, RowTypes DEF RowStep, RowKept, RowRequeued
      <3>4. QED
        BY <1>8, <3>2, <3>3 DEF RetryCommit
    <2>4. CASE k # j
      <3>1. jobs'[j] = jobs[j]
        BY <1>8, <1>a, <2>1, <2>4 DEF RetryCommit
      <3>2. audit'[j] = audit[j]
        BY <1>a, <2>1, <2>2, <2>4
      <3>3. QED
        BY <2>2, <3>1, <3>2, RowTypes DEF RowStep, RowKept
    <2>5. QED
      BY <2>3, <2>4
  <1>9. ASSUME NEW h \in Handlers, NEW k \in Jobs, RetryLoad(h, k) PROVE RowStep(j)
    BY <1>9, <1>b DEF RetryLoad
  <1>10. CASE Sigterm \/ Exit \/ Crash \/ Start \/ UNCHANGED vars
    BY <1>10, <1>b DEF Sigterm, Exit, Crash, Start, vars
  <1>11. ASSUME NEW h \in Handlers, RetryFails(h) PROVE RowStep(j)
    BY <1>11, <1>b DEF RetryFails
  <1>12. QED
    BY <1>1, <1>2, <1>3, <1>4, <1>5, <1>6, <1>7, <1>8, <1>9, <1>10, <1>11
    DEF Next, WorkerThread, EndAttempt, RetryEndpoint, WorkerProcess

\* What one step can do to an attempt that is under way after it.
AttemptSame(w) == task'[w] = task[w]

AttemptStarted(w) ==
  /\ task[w].step = "claimed" /\ task'[w].step = "running"
  /\ task'[w].job = task[w].job /\ task'[w].token = task[w].token
  /\ UNCHANGED jobs

AttemptWritten(w) ==
  /\ task[w].step = "running" /\ task'[w].step = "written"
  /\ task'[w].job = task[w].job /\ task'[w].token = task[w].token

AttemptNew(w) ==
  /\ task'[w].step = "claimed"
  /\ task'[w].job \in Jobs /\ task'[w].token \in FreshTokens
  /\ jobs'[task'[w].job].status = "processing"
  /\ \A k \in Jobs \ {task'[w].job} : jobs'[k] = jobs[k]

AttemptStep(w) ==
  AttemptSame(w) \/ AttemptStarted(w) \/ AttemptWritten(w) \/ AttemptNew(w)

LEMMA EveryAttemptStep ==
  ASSUME TypeOK, FenceInv, MaxErrors = 0, [Next]_vars, NEW w \in Workers, Active(w)'
  PROVE  AttemptStep(w)
  <1>a. /\ jobs \in [Jobs -> Rows] /\ task \in [Workers -> Tasks]
        /\ errors = 0
    BY DEF TypeOK
  <1>b. ASSUME NEW v \in Workers, Release(v) PROVE AttemptStep(w)
    BY <1>a, <1>b DEF Release, Active, Idle, AttemptStep, AttemptSame
  <1>c. ASSUME UNCHANGED task PROVE AttemptStep(w)
    BY <1>c DEF AttemptStep, AttemptSame
  <1>1. ASSUME NEW v \in Workers, NEW j \in Jobs, Claim(v, j) PROVE AttemptStep(w)
    <2>1. PICK t \in FreshTokens :
            /\ jobs' = [jobs EXCEPT ![j] = Claimed(@, t)]
            /\ task' = [task EXCEPT ![v] =
                          [Idle EXCEPT !.step = "claimed", !.job = j, !.token = t]]
      BY <1>1 DEF Claim
    <2>2. CASE v = w
      <3>1. task'[w].step = "claimed" /\ task'[w].job = j /\ task'[w].token = t
        BY <1>a, <2>1, <2>2 DEF Idle
      <3>2. jobs'[j].status = "processing"
        BY <1>a, <2>1 DEF Claimed, Rows
      <3>3. \A k \in Jobs \ {j} : jobs'[k] = jobs[k]
        BY <1>a, <2>1
      <3>4. QED
        BY <3>1, <3>2, <3>3 DEF AttemptStep, AttemptNew
    <2>3. CASE v # w
      BY <1>a, <2>1, <2>3 DEF AttemptStep, AttemptSame
    <2>4. QED
      BY <2>2, <2>3
  <1>2. ASSUME NEW v \in Workers, StartProcessing(v) PROVE AttemptStep(w)
    <2>1. CASE task' = [task EXCEPT ![v].step = "running"]
      <3>1. CASE v = w
        BY <1>2, <1>a, <2>1, <3>1
        DEF StartProcessing, Tasks, dbVars, AttemptStep, AttemptStarted
      <3>2. CASE v # w
        BY <1>a, <2>1, <3>2 DEF AttemptStep, AttemptSame
      <3>3. QED
        BY <3>1, <3>2
    <2>2. QED
      BY <1>2, <1>b, <2>1 DEF StartProcessing
  <1>3. ASSUME NEW v \in Workers,
               FailExtraction(v) \/ \E st \in Completed : Publish(v, st)
        PROVE  AttemptStep(w)
    <2>1. task[v].step = "running" /\ task' = [task EXCEPT ![v].step = "written"]
      BY <1>3 DEF Publish, FailExtraction
    <2>2. CASE v = w
      BY <1>a, <2>1, <2>2 DEF Tasks, AttemptStep, AttemptWritten
    <2>3. CASE v # w
      BY <1>a, <2>1, <2>3 DEF AttemptStep, AttemptSame
    <2>4. QED
      BY <2>2, <2>3
  <1>4. ASSUME NEW v \in Workers,
               StartFails(v) \/ HandleErrorFails(v) \/ HandleError(v) \/ Finish(v)
                 \/ DiscardStaleWrite(v)
        PROVE  AttemptStep(w)
    BY <1>4, <1>b DEF StartFails, HandleErrorFails, HandleError, Finish, DiscardStaleWrite
  <1>5. ASSUME NEW v \in Workers, UnexpectedError(v) PROVE FALSE
    BY <1>5, <1>a DEF UnexpectedError
  <1>6. ASSUME NEW v \in Workers, NEW j \in Jobs, ClaimReplyLost(v, j) PROVE AttemptStep(w)
    BY <1>6, <1>c DEF ClaimReplyLost
  <1>7. CASE Crash
    BY <1>7 DEF Crash, Active, Idle
  <1>8. CASE \/ Reap \/ Tick \/ Sigterm \/ Exit \/ Start
             \/ \E h \in Handlers : RetryEndpoint(h)
             \/ UNCHANGED vars
    BY <1>8, <1>c
    DEF Reap, Tick, Sigterm, Exit, Start, RetryEndpoint, RetryLoad, RetryCommit,
        RetryFails, vars
  <1>9. QED
    BY <1>1, <1>2, <1>3, <1>4, <1>5, <1>6, <1>7, <1>8
    DEF Next, WorkerThread, EndAttempt, WorkerProcess

\* What a retry request has loaded keeps its shape.
LEMMA LoadedStep ==
  ASSUME TypeOK, FenceInv, [Next]_vars, NEW h \in Handlers
  PROVE  Unleased(request'[h].loaded)
  <1>a. request \in [Handlers -> Requests] /\ jobs \in [Jobs -> Rows]
    BY DEF TypeOK
  <1>b. Unleased(request[h].loaded) /\ \A j \in Jobs : Unleased(jobs[j])
    BY DEF FenceInv
  <1>c. Unleased(NoRequest.loaded)
    BY DEF Unleased, NoRequest, NewRow
  <1>1. ASSUME NEW g \in Handlers, NEW j \in Jobs, RetryLoad(g, j)
        PROVE  Unleased(request'[h].loaded)
    <2>1. request' = [request EXCEPT ![g] = [job |-> j, loaded |-> Snapshot(jobs[j])]]
      BY <1>1 DEF RetryLoad
    <2>2. Unleased(Snapshot(jobs[j]))
      BY <1>a, <1>b DEF Unleased, Snapshot, Rows
    <2>3. QED
      BY <1>a, <1>b, <2>1, <2>2
  <1>2. ASSUME NEW g \in Handlers, RetryCommit(g) \/ RetryFails(g)
        PROVE  Unleased(request'[h].loaded)
    <2>1. request' = [request EXCEPT ![g] = NoRequest]
      BY <1>2 DEF RetryCommit, RetryFails
    <2>2. QED
      BY <1>a, <1>b, <1>c, <2>1
  <1>3. CASE UNCHANGED request
    BY <1>3, <1>b
  <1>4. QED
    BY <1>1, <1>2, <1>3
    DEF Next, WorkerThread, Claim, ClaimReplyLost, StartProcessing, StartFails, EndAttempt,
        Publish, FailExtraction, DiscardStaleWrite, Finish, UnexpectedError, HandleError,
        HandleErrorFails, RetryEndpoint, Reap, Tick, WorkerProcess, Sigterm, Exit, Crash,
        Start, vars
LEMMA InitFence == Init => FenceInv
  BY DEF Init, FenceInv, TokensDistinct, LeaseNamesAttempt, HolderIsProcessing, Holds,
     ResultsCounted, Unleased, Active, Idle, NoRequest, NewRow

\* The row of an attempt that holds its lease has that attempt's token, and
\* a fresh token is no attempt's and no row's.
LEMMA TokenFacts ==
  ASSUME TypeOK
  PROVE  /\ \A w \in Workers : Active(w) => /\ task[w].job \in Jobs
                                            /\ task[w].token \in Tokens
                                            /\ task[w].token # Null
         /\ \A t \in FreshTokens :
              /\ t \in Tokens /\ t # Null
              /\ \A j \in Jobs : jobs[j].lease # t
              /\ \A w \in Workers : task[w].token # t
  BY RowAssumption DEF TypeOK, Active, FreshTokens, RowAssumption

LEMMA FenceStep ==
  ASSUME TypeOK, FenceInv, MaxErrors = 0, [Next]_vars
  PROVE  FenceInv'
  <1>a. TypeOK'
    BY StepTypeOK
  <1>b. /\ \A w \in Workers : Active(w)' => task'[w].job \in Jobs /\ task'[w].token # Null
        /\ \A w \in Workers : Active(w) => task[w].job \in Jobs /\ task[w].token # Null
    BY <1>a, RowAssumption DEF TypeOK, Active, RowAssumption
  <1>c. /\ TokensDistinct /\ LeaseNamesAttempt /\ HolderIsProcessing /\ ResultsCounted
        /\ \A j \in Jobs : Unleased(jobs[j])
        /\ \A h \in Handlers : Unleased(request[h].loaded)
        /\ \A w \in Workers : task[w].step # "handling"
    BY DEF FenceInv
  <1>1. \A w \in Workers : task'[w].step # "handling"
    <2> SUFFICES ASSUME NEW w \in Workers, Active(w)' PROVE task'[w].step # "handling"
      BY DEF Active
    <2>1. QED
      BY <1>c, EveryAttemptStep
      DEF AttemptStep, AttemptSame, AttemptStarted, AttemptWritten, AttemptNew
  <1>2. TokensDistinct'
    BY <1>c, TokensDistinctStep
  <1>3. LeaseNamesAttempt'
    <2> SUFFICES ASSUME NEW w \in Workers, NEW j \in Jobs, Active(w)',
                        jobs'[j].lease = task'[w].token
                 PROVE  task'[w].job = j
      BY DEF LeaseNamesAttempt, Active
    <2>1. AttemptNew(w) \/ (/\ Active(w) /\ task'[w].job = task[w].job
                            /\ task'[w].token = task[w].token)
      BY EveryAttemptStep
      DEF AttemptStep, AttemptSame, AttemptStarted, AttemptWritten, Active
    <2>2. RowClaimed(j) \/ jobs'[j].lease = jobs[j].lease
      BY <1>b, EveryRowStep DEF RowStep, RowKept, RowRequeued, RowSettled
    <2>3. CASE AttemptNew(w) /\ RowClaimed(j)
      BY <2>3 DEF AttemptNew, RowClaimed
    <2>4. CASE AttemptNew(w) /\ jobs'[j].lease = jobs[j].lease
      BY <2>4, TokenFacts DEF AttemptNew
    <2>5. CASE Active(w) /\ task'[w].token = task[w].token /\ RowClaimed(j)
      BY <2>5, TokenFacts DEF RowClaimed
    <2>6. CASE /\ Active(w) /\ task'[w].job = task[w].job
               /\ task'[w].token = task[w].token /\ jobs'[j].lease = jobs[j].lease
      BY <1>c, <2>6 DEF LeaseNamesAttempt
    <2>7. QED
      BY <2>1, <2>2, <2>3, <2>4, <2>5, <2>6
  <1>4. \A j \in Jobs : Unleased(jobs'[j])
    <2> SUFFICES ASSUME NEW j \in Jobs PROVE Unleased(jobs'[j])
      OBVIOUS
    <2>1. CASE RowKept(j)
      BY <1>c, <2>1 DEF RowKept, Unleased
    <2>2. CASE RowClaimed(j)
      BY <2>2, TokenFacts DEF RowClaimed, Unleased
    <2>3. CASE RowRequeued(j)
      BY <2>3 DEF RowRequeued, Unleased
    <2>4. ASSUME NEW w \in Workers, RowSettled(w, j) PROVE Unleased(jobs'[j])
      BY <1>b, <2>4, StatusValues DEF RowSettled, Holds, Unleased
    <2>5. QED
      BY <2>1, <2>2, <2>3, <2>4, EveryRowStep DEF RowStep
  <1>5. \A h \in Handlers : Unleased(request'[h].loaded)
    BY LoadedStep
  <1>6. HolderIsProcessing'
    <2> SUFFICES ASSUME NEW w \in Workers, Active(w)', NEW j \in Jobs, j = task'[w].job,
                        jobs'[j].lease = task'[w].token, task'[w].step # "written"
                 PROVE  jobs'[j].status = "processing"
      BY <1>b DEF HolderIsProcessing, Holds, Active
    <2>1. CASE AttemptNew(w)
      BY <2>1 DEF AttemptNew
    <2>2. CASE AttemptStarted(w)
      BY <1>c, <2>2 DEF AttemptStarted, HolderIsProcessing, Holds, Active
    <2>3. CASE AttemptSame(w)
      <3>1. CASE RowKept(j)
        BY <1>c, <2>3, <3>1 DEF AttemptSame, RowKept, HolderIsProcessing, Holds, Active
      <3>2. CASE RowClaimed(j)
        BY <3>2 DEF RowClaimed
      <3>3. CASE RowRequeued(j)
        BY <1>b, <3>3 DEF RowRequeued
      <3>4. ASSUME NEW v \in Workers, RowSettled(v, j) PROVE FALSE
        <4>1. v = w
          BY <1>c, <2>3, <3>4 DEF AttemptSame, RowSettled, TokensDistinct, Holds, Active
        <4>2. QED
          BY <3>4, <4>1 DEF RowSettled
      <3>5. QED
        BY <3>1, <3>2, <3>3, <3>4, EveryRowStep DEF RowStep
    <2>4. QED
      BY <2>1, <2>2, <2>3, EveryAttemptStep DEF AttemptStep, AttemptWritten
  <1>7. ResultsCounted'
    <2> SUFFICES ASSUME NEW j \in Jobs
                 PROVE  Len(extractions'[j]) <=
                          audit'[j] + (IF jobs'[j].status \in Terminal THEN 1 ELSE 0)
      BY DEF ResultsCounted
    <2>1. /\ Len(extractions[j]) \in Nat /\ Len(extractions'[j]) \in Nat
          /\ audit[j] \in Nat /\ audit'[j] \in Nat
      BY <1>a DEF TypeOK
    <2>2. Len(extractions[j]) <=
            audit[j] + (IF jobs[j].status \in Terminal THEN 1 ELSE 0)
      BY <1>c DEF ResultsCounted
    <2>3. CASE RowKept(j)
      BY <2>1, <2>2, <2>3 DEF RowKept
    <2>4. CASE RowClaimed(j)
      BY <2>1, <2>2, <2>4, StatusValues DEF RowClaimed
    <2>5. CASE RowRequeued(j)
      BY <2>1, <2>2, <2>5, StatusValues DEF RowRequeued
    <2>6. ASSUME NEW w \in Workers, RowSettled(w, j)
          PROVE  Len(extractions'[j]) <=
                   audit'[j] + (IF jobs'[j].status \in Terminal THEN 1 ELSE 0)
      <3>1. jobs[j].status \notin Terminal
        BY <1>c, <2>6, StatusValues DEF RowSettled, HolderIsProcessing
      <3>2. QED
        BY <2>1, <2>2, <2>6, <3>1 DEF RowSettled
    <2>7. QED
      BY <2>3, <2>4, <2>5, <2>6, EveryRowStep DEF RowStep
  <1>8. QED
    BY <1>1, <1>2, <1>3, <1>4, <1>5, <1>6, <1>7 DEF FenceInv, Unleased

\* Without unexpected errors the lease of a row says who may write it and
\* whether anybody may, with any number of jobs, threads, crashes, reaps,
\* lost replies and manual retries.
THEOREM Fence == MaxErrors = 0 /\ Spec => []FenceInv
  <1> SUFFICES ASSUME MaxErrors = 0 PROVE Spec => []FenceInv
    OBVIOUS
  <1>1. TypeOK /\ FenceInv /\ [Next]_vars => FenceInv'
    BY FenceStep
  <1>2. QED
    BY <1>1, InitFence, TypeCorrect, PTL DEF Spec

\* A job yields at most one result per upload and manual retry: running it
\* again after a crash or a reap duplicates nothing.
THEOREM NoDuplicates == MaxErrors = 0 /\ Spec => []NoDuplicateResults
  <1> SUFFICES ASSUME MaxErrors = 0 PROVE Spec => []NoDuplicateResults
    OBVIOUS
  <1>1. TypeOK /\ FenceInv => NoDuplicateResults
    <2> SUFFICES ASSUME TypeOK, FenceInv, NEW j \in Jobs
                 PROVE  Len(extractions[j]) <= 1 + audit[j]
      BY DEF NoDuplicateResults
    <2>1. QED
      BY RowTypes DEF FenceInv, ResultsCounted
  <1>2. QED
    BY <1>1, Fence, TypeCorrect, PTL

\* Only a manual retry changes the status of a settled job.
THEOREM SettledForGood == MaxErrors = 0 /\ Spec => SettledStays
  <1> SUFFICES ASSUME MaxErrors = 0 PROVE Spec => SettledStays
    OBVIOUS
  <1> DEFINE Stays ==
        \A j \in Jobs :
          jobs[j].status \in Terminal /\ jobs'[j].status # jobs[j].status
            => \E h \in Handlers : request[h].job = j /\ request'[h] = NoRequest
  <1>1. TypeOK /\ FenceInv /\ [Next]_vars => Stays
    <2> SUFFICES ASSUME TypeOK, FenceInv, [Next]_vars, NEW j \in Jobs,
                        jobs[j].status \in Terminal, jobs'[j].status # jobs[j].status
                 PROVE  \E h \in Handlers : request[h].job = j /\ request'[h] = NoRequest
      OBVIOUS
    <2>1. \A w \in Workers : ~RowSettled(w, j)
      BY StatusValues DEF FenceInv, HolderIsProcessing, RowSettled
    <2>2. QED
      BY <2>1, EveryRowStep, StatusValues DEF RowStep, RowKept, RowClaimed, RowRequeued
  <1>2. QED
    BY <1>1, Fence, TypeCorrect, PTL DEF Spec, SettledStays
-----------------------------------------------------------------------------
(* The queue implements the lease of JobLease.                             *)

\* What owner says, without the CHOOSE.
OwnerKnown ==
  \A j \in Jobs : /\ \A w \in Workers : Owns(w, j) => owner[j] = w
                  /\ (\A w \in Workers : ~Owns(w, j)) => owner[j] = Null

\* A token names one thread, so a job has one owner at most.
LEMMA OwnerFacts == TokensDistinct => OwnerKnown
  <1> SUFFICES ASSUME TokensDistinct, NEW j \in Jobs
               PROVE  /\ \A w \in Workers : Owns(w, j) => owner[j] = w
                      /\ (\A w \in Workers : ~Owns(w, j)) => owner[j] = Null
    BY DEF OwnerKnown
  <1>1. \A v, w \in Workers : Owns(v, j) /\ Owns(w, j) => v = w
    BY DEF TokensDistinct, Owns, Holds
  <1>2. ASSUME NEW w \in Workers, Owns(w, j) PROVE owner[j] = w
    <2>1. owner[j] = CHOOSE v \in Workers : Owns(v, j)
      BY <1>2 DEF owner
    <2>2. owner[j] \in Workers /\ Owns(owner[j], j)
      BY <1>2, <2>1
    <2>3. QED
      BY <1>1, <1>2, <2>2
  <1>3. ASSUME \A w \in Workers : ~Owns(w, j) PROVE owner[j] = Null
    BY <1>3 DEF owner
  <1>4. QED
    BY <1>2, <1>3

LEMMA OwnerFactsNext == TokensDistinct' => OwnerKnown'
  BY OwnerFacts, PTL

\* The row of a job counts the same for the lease after a step as before it.
RowSame(k) ==
  /\ jobs'[k].status = jobs[k].status /\ jobs'[k].lease = jobs[k].lease
  /\ extractions'[k] = extractions[k]

\* No thread comes by an attempt, none goes on to another one.
NoneStarts ==
  \A v \in Workers : Active(v)' => /\ Active(v)
                                   /\ task'[v].job = task[v].job
                                   /\ task'[v].token = task[v].token

\* A job whose row and whose threads stay as they are keeps its owner.
OwnsSame(k) == \A v \in Workers : Owns(v, k)' <=> Owns(v, k)

LEMMA OwnerSame ==
  ASSUME OwnerKnown, OwnerKnown', NEW k \in Jobs, OwnsSame(k)
  PROVE  owner'[k] = owner[k]
  <1>1. CASE \E v \in Workers : Owns(v, k)
    BY <1>1 DEF OwnerKnown, OwnsSame
  <1>2. CASE \A v \in Workers : ~Owns(v, k)
    BY <1>2 DEF OwnerKnown, OwnsSame
  <1>3. QED
    BY <1>1, <1>2

\* A step that changes no row and starts no attempt can only lose owners.
LEMMA QuietStep ==
  ASSUME OwnerKnown, OwnerKnown', NoneStarts, \A k \in Jobs : RowSame(k)
  PROVE  Lease!Next
  <1> DEFINE S == {k \in Jobs : owner'[k] = Null}
  <1>1. phase' = phase /\ results' = results
    BY DEF phase, results, RowSame
  <1>2. ASSUME NEW k \in Jobs, k \notin S PROVE owner'[k] = owner[k]
    <2>1. PICK v \in Workers : Owns(v, k)'
      BY <1>2 DEF OwnerKnown
    <2>2. Owns(v, k)
      BY <2>1 DEF NoneStarts, RowSame, Owns, Holds
    <2>3. QED
      BY <2>1, <2>2 DEF OwnerKnown
  <1>3. owner' = [k \in Jobs |-> IF k \in S THEN Null ELSE owner[k]]
    <2> HIDE DEF S
    <2>1. \A k \in S : owner'[k] = Null
      BY DEF S
    <2>2. owner' = [k \in Jobs |-> owner'[k]]
      BY DEF owner
    <2>3. QED
      BY <1>2, <2>1, <2>2
  <1>4. Lease!Lose(S)
    BY <1>1, <1>3 DEF Lease!Lose
  <1>5. S \in SUBSET Jobs
    OBVIOUS
  <1>6. QED
    BY <1>4, <1>5 DEF Lease!Next

\* The phase and the results of a job, read off its row.
LEMMA PhaseFacts ==
  ASSUME NEW k \in Jobs
  PROVE  /\ jobs[k].status = "queued" => phase[k] = "waiting"
         /\ jobs[k].status = "processing" => phase[k] = "leased"
         /\ jobs[k].status \in Terminal => phase[k] = "settled"
         /\ results[k] = Len(extractions[k])
  BY DEF phase, results, Terminal, Completed

LEMMA PhaseFactsNext ==
  ASSUME NEW k \in Jobs
  PROVE  /\ jobs'[k].status = "queued" => phase'[k] = "waiting"
         /\ jobs'[k].status = "processing" => phase'[k] = "leased"
         /\ jobs'[k].status \in Terminal => phase'[k] = "settled"
         /\ results'[k] = Len(extractions'[k])
  BY DEF phase, results, Terminal, Completed

LEMMA OthersSame ==
  ASSUME NEW k \in Jobs, RowSame(k)
  PROVE  phase'[k] = phase[k] /\ results'[k] = results[k]
  BY DEF RowSame, phase, results

\* The three functions after a step that changes the row of one job.
LEMMA OneJob ==
  ASSUME NEW j \in Jobs, OwnerKnown, OwnerKnown',
         \A k \in Jobs \ {j} : RowSame(k) /\ OwnsSame(k)
  PROVE  /\ phase' = [phase EXCEPT ![j] = phase'[j]]
         /\ owner' = [owner EXCEPT ![j] = owner'[j]]
         /\ results' = [results EXCEPT ![j] = results'[j]]
  <1>1. \A k \in Jobs \ {j} : /\ phase'[k] = phase[k] /\ results'[k] = results[k]
                              /\ owner'[k] = owner[k]
    BY OthersSame, OwnerSame
  <1>2. /\ phase' = [k \in Jobs |-> phase'[k]] /\ phase = [k \in Jobs |-> phase[k]]
        /\ results' = [k \in Jobs |-> results'[k]] /\ results = [k \in Jobs |-> results[k]]
        /\ owner' = [k \in Jobs |-> owner'[k]] /\ owner = [k \in Jobs |-> owner[k]]
    BY DEF phase, results, owner
  <1>3. phase' = [phase EXCEPT ![j] = phase'[j]]
    BY <1>1, <1>2
  <1>4. owner' = [owner EXCEPT ![j] = owner'[j]]
    BY <1>1, <1>2
  <1>5. results' = [results EXCEPT ![j] = results'[j]]
    BY <1>1, <1>2
  <1>6. QED
    BY <1>3, <1>4, <1>5

\* What a claim does to the rows and to the threads that stand by.
LEMMA ClaimEffect ==
  ASSUME TypeOK, NEW w \in Workers, NEW j \in Jobs, NEW t \in FreshTokens,
         jobs' = [jobs EXCEPT ![j] = Claimed(@, t)], NextDue(w, j), UNCHANGED extractions
  PROVE  /\ phase[j] = "waiting" /\ phase'[j] = "leased" /\ results' = results
         /\ jobs'[j].status = "processing" /\ jobs'[j].lease = t
         /\ \A k \in Jobs \ {j} : RowSame(k) /\ jobs'[k] = jobs[k]
  <1>1. jobs[j].status = "queued"
    BY DEF NextDue, Due
  <1>2. jobs'[j].status = "processing" /\ jobs'[j].lease = t
    BY DEF TypeOK, Claimed, Rows
  <1>3. \A k \in Jobs \ {j} : jobs'[k] = jobs[k]
    BY DEF TypeOK
  <1>4. QED
    BY <1>1, <1>2, <1>3, PhaseFacts, PhaseFactsNext DEF RowSame, results

LEMMA ClaimGrants ==
  ASSUME TypeOK, OwnerKnown, OwnerKnown'
  PROVE  \A w \in Workers, j \in Jobs : Claim(w, j) => Lease!Grant(j, w)
  <1>1. ASSUME NEW w \in Workers, NEW j \in Jobs, Claim(w, j)
        PROVE  Lease!Grant(j, w)
    <2>1. PICK t \in FreshTokens :
            /\ jobs' = [jobs EXCEPT ![j] = Claimed(@, t)]
            /\ task' = [task EXCEPT ![w] =
                          [Idle EXCEPT !.step = "claimed", !.job = j, !.token = t]]
      BY <1>1 DEF Claim
    <2>2. NextDue(w, j) /\ UNCHANGED extractions /\ ~Active(w)
      BY <1>1 DEF Claim
    <2>3. /\ task'[w].step = "claimed" /\ task'[w].job = j /\ task'[w].token = t
          /\ \A v \in Workers \ {w} : task'[v] = task[v]
      BY <2>1 DEF TypeOK, Idle
    <2>4. /\ phase[j] = "waiting" /\ phase'[j] = "leased" /\ results' = results
          /\ jobs'[j].status = "processing" /\ jobs'[j].lease = t
          /\ \A k \in Jobs \ {j} : RowSame(k) /\ jobs'[k] = jobs[k]
      BY <2>1, <2>2, ClaimEffect
    <2>5. ASSUME NEW k \in Jobs \ {j} PROVE OwnsSame(k)
      <3>1. ~Owns(w, k) /\ ~Owns(w, k)'
        BY <2>2, <2>3 DEF Owns, Holds
      <3>2. \A v \in Workers \ {w} : Owns(v, k)' <=> Owns(v, k)
        BY <2>3, <2>4 DEF Owns, Holds, Active
      <3>3. QED
        BY <3>1, <3>2 DEF OwnsSame
    <2>6. Owns(w, j)'
      BY <2>3, <2>4 DEF Owns, Holds, Active
    <2>7. owner'[j] = w
      BY <2>6 DEF OwnerKnown
    <2>8. QED
      BY <2>4, <2>5, <2>7, OneJob DEF Lease!Grant
  <1>2. QED
    BY <1>1

LEMMA LostClaimGrants ==
  ASSUME TypeOK, OwnerKnown, OwnerKnown'
  PROVE  \A w \in Workers, j \in Jobs : ClaimReplyLost(w, j) => Lease!Grant(j, Null)
  <1>1. ASSUME NEW w \in Workers, NEW j \in Jobs, ClaimReplyLost(w, j)
        PROVE  Lease!Grant(j, Null)
    <2>1. PICK t \in FreshTokens : jobs' = [jobs EXCEPT ![j] = Claimed(@, t)]
      BY <1>1 DEF ClaimReplyLost
    <2>2. NextDue(w, j) /\ UNCHANGED extractions /\ task' = task
      BY <1>1 DEF ClaimReplyLost
    <2>3. /\ phase[j] = "waiting" /\ phase'[j] = "leased" /\ results' = results
          /\ jobs'[j].status = "processing" /\ jobs'[j].lease = t
          /\ \A k \in Jobs \ {j} : RowSame(k) /\ jobs'[k] = jobs[k]
      BY <2>1, <2>2, ClaimEffect
    <2>4. \A k \in Jobs \ {j} : OwnsSame(k)
      BY <2>2, <2>3 DEF OwnsSame, Owns, Holds, Active
    <2>5. \A v \in Workers : ~Owns(v, j)'
      BY <2>2, <2>3 DEF Owns, Holds, FreshTokens
    <2>6. owner'[j] = Null
      BY <2>5 DEF OwnerKnown
    <2>7. QED
      BY <2>3, <2>4, <2>6, OneJob DEF Lease!Grant
  <1>2. QED
    BY <1>1

\* A final write is made by the owner, and nobody owns the job after it.
LEMMA WriteSettles ==
  ASSUME TypeOK, FenceInv, OwnerKnown, OwnerKnown', NEW w \in Workers,
         FailExtraction(w) \/ \E st \in Completed : Publish(w, st)
  PROVE  \E n \in {0, 1} : Lease!Settle(task[w].job, n)
  <1> DEFINE j == task[w].job
  <1>1. /\ j \in Jobs /\ Holds(w) /\ task[w].step = "running"
        /\ task' = [task EXCEPT ![w].step = "written"]
    BY DEF TypeOK, Publish, FailExtraction, Holds, Active
  <1>2. PICK st \in Terminal : jobs' = [jobs EXCEPT ![j] = Settled(@, st)]
    BY StatusValues DEF Publish, FailExtraction
  <1>3. jobs'[j].status \in Terminal /\ \A k \in Jobs \ {j} : jobs'[k] = jobs[k]
    BY <1>1, <1>2 DEF TypeOK, Settled, Rows
  <1>4. /\ \A k \in Jobs \ {j} : extractions'[k] = extractions[k]
        /\ \E n \in {0, 1} : Len(extractions'[j]) = Len(extractions[j]) + n
    <2>1. CASE FailExtraction(w)
      BY <1>1, <2>1, RowTypes DEF FailExtraction
    <2>2. ASSUME NEW s \in Completed, Publish(w, s)
          PROVE  /\ \A k \in Jobs \ {j} : extractions'[k] = extractions[k]
                 /\ Len(extractions'[j]) = Len(extractions[j]) + 1
      <3>1. extractions' = [extractions EXCEPT ![j] = Append(@, s)]
        BY <2>2 DEF Publish
      <3>2. extractions \in [Jobs -> Seq(Completed)]
        BY DEF TypeOK
      <3>3. QED
        BY <1>1, <3>1, <3>2
    <2>3. QED
      BY <2>1, <2>2
  <1>5. \A v \in Workers :
          task'[v].job = task[v].job /\ task'[v].token = task[v].token
            /\ (Active(v)' <=> Active(v))
    BY <1>1 DEF TypeOK, Tasks, Active
  <1>6. \A k \in Jobs \ {j} : RowSame(k) /\ OwnsSame(k)
    BY <1>3, <1>4, <1>5 DEF RowSame, OwnsSame, Owns, Holds
  <1>7. owner[j] # Null
    <2>1. jobs[j].status = "processing"
      BY <1>1 DEF FenceInv, HolderIsProcessing
    <2>2. owner[j] = w
      BY <1>1, <2>1 DEF OwnerKnown, Owns
    <2>3. QED
      BY <2>2, QueueAssumption DEF QueueAssumption
  <1>8. owner'[j] = Null
    BY <1>1, <1>3, StatusValues DEF OwnerKnown, Owns
  <1>9. phase'[j] = "settled"
    BY <1>1, <1>3, PhaseFactsNext
  <1>10. PICK n \in {0, 1} : results'[j] = results[j] + n
    BY <1>1, <1>4, PhaseFacts, PhaseFactsNext
  <1>11. Lease!Settle(j, n)
    BY <1>1, <1>6, <1>7, <1>8, <1>9, <1>10, OneJob DEF Lease!Settle
  <1>12. QED
    BY <1>11

\* What a reap takes away is in processing, and it takes it from its owner.
LEMMA ReapReclaims ==
  ASSUME TypeOK, OwnerKnown, OwnerKnown', Reap
  PROVE  \E S \in SUBSET Jobs : Lease!Reclaim(S)
  <1> DEFINE S == {k \in Jobs : Stale(jobs[k])}
  <1>1. /\ \A k \in S : jobs'[k] = Reaped(jobs[k])
        /\ \A k \in Jobs \ S : jobs'[k] = jobs[k]
        /\ extractions' = extractions /\ task' = task
    BY DEF Reap
  <1>2. ASSUME NEW k \in S
        PROVE  phase[k] = "leased" /\ phase'[k] = "waiting" /\ owner'[k] = Null
    <2>1. k \in Jobs /\ jobs[k] \in Rows /\ jobs'[k] = Reaped(jobs[k])
      BY <1>1, <1>2 DEF TypeOK
    <2>2. jobs[k].status = "processing" /\ jobs'[k].status = "queued"
      BY <1>2, <2>1 DEF Stale, Reaped, Rows
    <2>3. QED
      BY <2>1, <2>2, PhaseFacts, PhaseFactsNext DEF OwnerKnown, Owns
  <1>3. ASSUME NEW k \in Jobs \ S
        PROVE  phase'[k] = phase[k] /\ owner'[k] = owner[k]
    <2>1. RowSame(k) /\ OwnsSame(k)
      BY <1>1, <1>3 DEF RowSame, OwnsSame, Owns, Holds, Active
    <2>2. QED
      BY <2>1, OthersSame, OwnerSame
  <1>4. results' = results
    BY <1>1 DEF results
  <1>5. phase' = [k \in Jobs |-> phase'[k]] /\ owner' = [k \in Jobs |-> owner'[k]]
    BY DEF phase, owner
  <1>6. S \subseteq Jobs
    OBVIOUS
  <1> HIDE DEF S
  <1>7. phase' = [k \in Jobs |-> IF k \in S THEN "waiting" ELSE phase[k]]
    BY <1>2, <1>3, <1>5
  <1>8. owner' = [k \in Jobs |-> IF k \in S THEN Null ELSE owner[k]]
    BY <1>2, <1>3, <1>5
  <1>9. Lease!Reclaim(S)
    BY <1>2, <1>4, <1>7, <1>8 DEF Lease!Reclaim
  <1>10. QED
    BY <1>6, <1>9

\* A manual retry reopens its job, or leaves status and lease alone.
LEMMA RetryReopens ==
  ASSUME TypeOK, FenceInv, OwnerKnown, OwnerKnown', NEW h \in Handlers, RetryCommit(h)
  PROVE  Lease!Next
  <1> DEFINE j == request[h].job
             old == request[h].loaded
  <1>1. j \in Jobs /\ old \in Rows /\ Unleased(old)
    BY DEF RetryCommit, TypeOK, Requests, JobOrNull, FenceInv
  <1>2. extractions' = extractions /\ task' = task
    BY DEF RetryCommit
  <1>3. \A k \in Jobs \ {j} : jobs'[k] = jobs[k]
    BY <1>1 DEF RetryCommit, TypeOK
  <1>4. \A k \in Jobs \ {j} : RowSame(k) /\ OwnsSame(k)
    BY <1>2, <1>3 DEF RowSame, OwnsSame, Owns, Holds, Active
  <1>5. \/ jobs'[j].status = jobs[j].status /\ jobs'[j].lease = jobs[j].lease
        \/ jobs'[j].status = "queued"
    <2>1. CASE UNCHANGED jobs
      BY <2>1
    <2>2. CASE jobs' = [jobs EXCEPT ![j] = Flush(@, old, AfterManualRetry(old))]
      <3>1. jobs'[j] = Flush(jobs[j], old, AfterManualRetry(old))
        BY <1>1, <2>2 DEF TypeOK
      <3>2. QED
        BY <1>1, <3>1, RowTypes, ManualFlush
    <2>3. QED
      BY <2>1, <2>2 DEF RetryCommit
  <1>6. CASE jobs'[j].status = jobs[j].status /\ jobs'[j].lease = jobs[j].lease
    <2>1. NoneStarts
      BY <1>2 DEF NoneStarts, Active
    <2>2. \A k \in Jobs : RowSame(k)
      BY <1>2, <1>4, <1>6 DEF RowSame
    <2>3. QED
      BY <2>1, <2>2, QuietStep
  <1>7. CASE jobs'[j].status = "queued"
    <2>1. phase'[j] = "waiting"
      BY <1>1, <1>7, PhaseFactsNext
    <2>2. owner'[j] = Null
      BY <1>1, <1>7 DEF OwnerKnown, Owns
    <2>3. results' = results
      BY <1>2 DEF results
    <2>4. Lease!Reopen(j)
      BY <1>1, <1>4, <2>1, <2>2, <2>3, OneJob DEF Lease!Reopen
    <2>5. QED
      BY <1>1, <2>4 DEF Lease!Next
  <1>8. QED
    BY <1>5, <1>6, <1>7

\* Every step of the queue is a step of the lease.
LEMMA LeaseStep ==
  ASSUME TypeOK, TypeOK', FenceInv, FenceInv', MaxErrors = 0, [Next]_vars
  PROVE  Lease!Next
  <1>a. OwnerKnown /\ OwnerKnown'
    BY OwnerFacts, OwnerFactsNext DEF FenceInv
  <1>b. ASSUME \A k \in Jobs : RowSame(k), NoneStarts PROVE Lease!Next
    BY <1>a, <1>b, QuietStep
  <1>c. ASSUME UNCHANGED dbVars PROVE \A k \in Jobs : RowSame(k)
    BY <1>c DEF dbVars, RowSame
  <1>d. ASSUME NEW w \in Workers, Release(w) PROVE NoneStarts
    BY <1>d DEF TypeOK, Release, Active, Idle, NoneStarts
  <1>e. ASSUME UNCHANGED task PROVE NoneStarts
    BY <1>e DEF NoneStarts, Active
  <1>1. ASSUME NEW w \in Workers, NEW j \in Jobs, Claim(w, j) PROVE Lease!Next
    BY <1>1, <1>a, ClaimGrants DEF Lease!Next
  <1>2. ASSUME NEW w \in Workers, NEW j \in Jobs, ClaimReplyLost(w, j) PROVE Lease!Next
    BY <1>2, <1>a, LostClaimGrants DEF Lease!Next
  <1>3. ASSUME NEW w \in Workers, StartProcessing(w) PROVE Lease!Next
    <2>1. UNCHANGED dbVars
      BY <1>3 DEF StartProcessing
    <2>2. CASE task' = [task EXCEPT ![w].step = "running"]
      <3>1. NoneStarts
        BY <1>3, <2>2 DEF StartProcessing, TypeOK, Tasks, Active, NoneStarts
      <3>2. QED
        BY <1>b, <1>c, <2>1, <3>1
    <2>3. QED
      BY <1>3, <1>b, <1>c, <1>d, <2>1, <2>2 DEF StartProcessing
  <1>4. ASSUME NEW w \in Workers,
               StartFails(w) \/ DiscardStaleWrite(w) \/ Finish(w) \/ HandleErrorFails(w)
        PROVE  Lease!Next
    BY <1>4, <1>b, <1>c, <1>d DEF StartFails, DiscardStaleWrite, Finish, HandleErrorFails
  <1>5. ASSUME NEW w \in Workers,
               FailExtraction(w) \/ \E st \in Completed : Publish(w, st)
        PROVE  Lease!Next
    <2>1. task[w].job \in Jobs
      BY <1>5 DEF TypeOK, Publish, FailExtraction
    <2>2. QED
      BY <1>5, <1>a, <2>1, WriteSettles DEF Lease!Next
  <1>6. ASSUME NEW w \in Workers, UnexpectedError(w) \/ HandleError(w) PROVE FALSE
    BY <1>6 DEF UnexpectedError, HandleError, TypeOK, FenceInv
  <1>7. CASE Reap
    BY <1>7, <1>a, ReapReclaims DEF Lease!Next
  <1>8. CASE Tick
    <2>1. \A r \in Rows : Aged(r).status = r.status /\ Aged(r).lease = r.lease
      BY DEF Aged, Rows
    <2>2. \A k \in Jobs : RowSame(k)
      BY <1>8, <2>1, RowTypes DEF Tick, RowSame
    <2>3. QED
      BY <1>8, <1>b, <1>e, <2>2 DEF Tick
  <1>9. ASSUME NEW h \in Handlers, RetryCommit(h) PROVE Lease!Next
    BY <1>9, <1>a, RetryReopens
  <1>10. ASSUME NEW h \in Handlers, RetryFails(h) \/ \E j \in Jobs : RetryLoad(h, j)
         PROVE  Lease!Next
    BY <1>10, <1>b, <1>c, <1>e DEF RetryFails, RetryLoad
  <1>11. CASE Crash
    <2>1. NoneStarts
      BY <1>11 DEF Crash, Active, Idle, NoneStarts
    <2>2. QED
      BY <1>11, <1>b, <1>c, <2>1 DEF Crash
  <1>12. CASE Sigterm \/ Exit \/ Start \/ UNCHANGED vars
    BY <1>12, <1>b, <1>c, <1>e DEF Sigterm, Exit, Start, vars
  <1>13. QED
    BY <1>1, <1>2, <1>3, <1>4, <1>5, <1>6, <1>7, <1>8, <1>9, <1>10, <1>11, <1>12
    DEF Next, WorkerThread, EndAttempt, RetryEndpoint, WorkerProcess

LEMMA LeaseInit == Init => Lease!Init
  <1> SUFFICES ASSUME Init PROVE Lease!Init
    OBVIOUS
  <1>1. \A j \in Jobs : jobs[j].status = "queued" /\ extractions[j] = <<>>
    BY DEF Init, NewRow
  <1>2. phase = [j \in Jobs |-> "waiting"] /\ results = [j \in Jobs |-> 0]
    BY <1>1 DEF phase, results
  <1>3. owner = [j \in Jobs |-> Null]
    BY DEF Init, owner, Owns, Holds, Active, Idle
  <1>4. QED
    BY <1>2, <1>3 DEF Lease!Init

\* The queue implements the lease of JobLease: a job is granted only while
\* it waits, only its owner settles it, reaps and lost threads publish
\* nothing, and only a manual retry reopens it.
THEOREM ImplementsLease == MaxErrors = 0 /\ Spec => LeaseSpec
  <1> SUFFICES ASSUME MaxErrors = 0 PROVE Spec => LeaseSpec
    OBVIOUS
  <1>1. TypeOK /\ TypeOK' /\ FenceInv /\ FenceInv' /\ [Next]_vars
          => [Lease!Next]_(Lease!vars)
    BY LeaseStep
  <1>2. QED
    BY <1>1, LeaseInit, TypeCorrect, Fence, PTL DEF Spec, LeaseSpec, Lease!Spec
-----------------------------------------------------------------------------
(* What unexpected errors can cost.                                        *)

\* The threads whose except branch has not committed yet, and the number of
\* errors that are past it.
Handling == {w \in Workers : task[w].step = "handling"}
Spent    == errors - Cardinality(Handling)

\* A job can still get a result while it is not settled, and also when the
\* handler of a superseded attempt has failed it under one that is running.
Open(j) ==
  \/ jobs[j].status \notin Terminal
  \/ \E w \in Workers : task[w].step = "running" /\ Holds(w) /\ task[w].job = j

Awaited(j) == IF Open(j) THEN 1 ELSE 0

\* The inductive invariant: a result, the next one included, is paid for by
\* the upload, a manual retry or an error whose handler has committed.
ResultsPaid ==
  /\ IsFiniteSet(Handling) /\ Cardinality(Handling) <= errors
  /\ \A j \in Jobs :
       Len(extractions[j]) + Awaited(j) <= 1 + audit[j] + Spent

\* No thread comes to run an attempt it was not running.
NoneRuns ==
  \A v \in Workers : task'[v].step = "running" => /\ task[v].step = "running"
                                                  /\ task'[v].job = task[v].job
                                                  /\ task'[v].token = task[v].token

\* A settled row stays settled under its lease.
RowShut(j) ==
  jobs[j].status \in Terminal => jobs'[j].status \in Terminal /\ jobs'[j].lease = jobs[j].lease

LEMMA OpenKept ==
  ASSUME NEW j \in Jobs, RowShut(j), NoneRuns PROVE Open(j)' => Open(j)
  <1> SUFFICES ASSUME jobs[j].status \in Terminal, Open(j)' PROVE Open(j)
    BY DEF Open
  <1>1. PICK v \in Workers :
          task'[v].step = "running" /\ jobs'[j].lease = task'[v].token /\ task'[v].job = j
    BY DEF RowShut, Open, Holds
  <1>2. QED
    BY <1>1 DEF RowShut, NoneRuns, Open, Holds, Active

LEMMA AwaitedKept ==
  ASSUME NEW j \in Jobs
  PROVE  /\ Awaited(j) \in {0, 1} /\ Awaited(j)' \in {0, 1}
         /\ Open(j) => Awaited(j) = 1
         /\ ~Open(j)' => Awaited(j)' = 0
         /\ (Open(j)' => Open(j)) => Awaited(j)' <= Awaited(j)
  <1>1. (Awaited(j) = 0 /\ ~Open(j)) \/ (Awaited(j) = 1 /\ Open(j))
    BY DEF Awaited
  <1>2. (Awaited(j)' = 0 /\ ~Open(j)') \/ (Awaited(j)' = 1 /\ Open(j)')
    BY DEF Awaited
  <1>3. ASSUME Open(j)' => Open(j) PROVE Awaited(j)' <= Awaited(j)
    <2>1. CASE Open(j)
      <3>1. Awaited(j) = 1 /\ Awaited(j)' \in {0, 1}
        BY <1>1, <1>2, <2>1, Zenon
      <3>2. QED
        BY <3>1
    <2>2. CASE ~Open(j)
      <3>1. Awaited(j) = 0 /\ Awaited(j)' = 0
        BY <1>1, <1>2, <1>3, <2>2, Zenon
      <3>2. QED
        BY <3>1
    <2>3. QED
      BY <2>1, <2>2
  <1>4. QED
    BY <1>1, <1>2, <1>3, Zenon

\* How many errors are spent after a step, by what it does to the threads in
\* the handler.
SpentGrows(n) == IsFiniteSet(Handling') /\ Spent' \in Int /\ Spent' >= Spent + n

LEMMA SpentStep ==
  ASSUME TypeOK, TypeOK', ResultsPaid
  PROVE  /\ Spent \in Int /\ Spent >= 0
         /\ Handling' \subseteq Handling /\ errors' \in {errors, errors + 1} => SpentGrows(0)
         /\ \A w \in Workers :
              Handling' \subseteq Handling \cup {w} /\ errors' = errors + 1 => SpentGrows(0)
         /\ \A w \in Handling :
              Handling' \subseteq Handling \ {w} /\ errors' = errors => SpentGrows(1)
  <1>1. /\ errors \in Nat /\ errors' \in Nat
        /\ IsFiniteSet(Handling) /\ Cardinality(Handling) \in Nat
        /\ Cardinality(Handling) <= errors
    BY FS_CardinalityType DEF TypeOK, ResultsPaid
  <1>2. ASSUME NEW S, IsFiniteSet(S), Handling' \subseteq S
        PROVE  /\ IsFiniteSet(Handling') /\ Cardinality(Handling') \in Nat
               /\ Cardinality(S) \in Nat /\ Cardinality(Handling') <= Cardinality(S)
    BY <1>2, FS_Subset, FS_CardinalityType
  <1>3. ASSUME Handling' \subseteq Handling, errors' \in {errors, errors + 1}
        PROVE  SpentGrows(0)
    BY <1>1, <1>2, <1>3 DEF SpentGrows, Spent
  <1>4. ASSUME NEW w \in Workers, Handling' \subseteq Handling \cup {w}, errors' = errors + 1
        PROVE  SpentGrows(0)
    <2>1. /\ IsFiniteSet(Handling \cup {w})
          /\ Cardinality(Handling \cup {w}) \in {Cardinality(Handling), Cardinality(Handling) + 1}
      BY <1>1, FS_AddElement
    <2>2. QED
      BY <1>1, <1>2, <1>4, <2>1 DEF SpentGrows, Spent
  <1>5. ASSUME NEW w \in Handling, Handling' \subseteq Handling \ {w}, errors' = errors
        PROVE  SpentGrows(1)
    <2>1. /\ IsFiniteSet(Handling \ {w})
          /\ Cardinality(Handling \ {w}) = Cardinality(Handling) - 1
      BY <1>1, FS_RemoveElement
    <2>2. QED
      BY <1>1, <1>2, <1>5, <2>1 DEF SpentGrows, Spent
  <1>6. QED
    BY <1>1, <1>3, <1>4, <1>5 DEF Spent

\* The account of a job after a step: it may open when a retry or an error is
\* added to the right side, and a result must shut it.
Shuts(k)  == /\ Awaited(k)' <= Awaited(k)
             /\ Len(extractions'[k]) = Len(extractions[k]) /\ audit'[k] >= audit[k]
Opens(k)  == Len(extractions'[k]) = Len(extractions[k]) /\ audit'[k] = audit[k] + 1
Yields(k) == /\ Awaited(k) = 1 /\ Awaited(k)' = 0
             /\ Len(extractions'[k]) = Len(extractions[k]) + 1 /\ audit'[k] = audit[k]
Reruns(k) == Len(extractions'[k]) = Len(extractions[k]) /\ audit'[k] = audit[k]

LEMMA Accounts ==
  ASSUME TypeOK, TypeOK', ResultsPaid,
         \/ SpentGrows(0) /\ \A k \in Jobs : Shuts(k) \/ Opens(k) \/ Yields(k)
         \/ SpentGrows(1) /\ \A k \in Jobs : Reruns(k)
  PROVE  ResultsPaid'
  <1>1. /\ Spent \in Int /\ Spent >= 0
        /\ IsFiniteSet(Handling') /\ Spent' \in Int /\ Spent' >= Spent
    BY SpentStep DEF SpentGrows
  <1>2. Cardinality(Handling') <= errors'
    <2>1. Cardinality(Handling') \in Nat /\ errors' \in Nat
      BY <1>1, FS_CardinalityType DEF TypeOK
    <2>2. QED
      BY <1>1, <2>1 DEF Spent
  <1>3. ASSUME NEW k \in Jobs
        PROVE  Len(extractions'[k]) + Awaited(k)' <= 1 + audit'[k] + Spent'
    <2>1. /\ Len(extractions[k]) \in Nat /\ Len(extractions'[k]) \in Nat
          /\ audit[k] \in Nat /\ audit'[k] \in Nat
          /\ Awaited(k) \in {0, 1} /\ Awaited(k)' \in {0, 1}
      BY AwaitedKept DEF TypeOK
    <2>2. Len(extractions[k]) + Awaited(k) <= 1 + audit[k] + Spent
      BY DEF ResultsPaid
    <2>3. CASE Shuts(k)
      BY <1>1, <2>1, <2>2, <2>3 DEF Shuts
    <2>4. CASE Opens(k)
      BY <1>1, <2>1, <2>2, <2>4 DEF Opens
    <2>5. CASE Yields(k)
      BY <1>1, <2>1, <2>2, <2>5 DEF Yields
    <2>6. CASE Reruns(k) /\ SpentGrows(1)
      BY <1>1, <2>1, <2>2, <2>6 DEF Reruns, SpentGrows
    <2>7. QED
      BY <2>3, <2>4, <2>5, <2>6
  <1>4. QED
    BY <1>1, <1>2, <1>3 DEF ResultsPaid

\* A step that settles no row, opens none and leaves the results alone.
LEMMA QuietAccounts ==
  ASSUME TypeOK, TypeOK', ResultsPaid, UNCHANGED <<extractions, audit>>, SpentGrows(0),
         NoneRuns, \A k \in Jobs : RowShut(k)
  PROVE  ResultsPaid'
  <1>1. ASSUME NEW k \in Jobs PROVE Shuts(k)
    <2>1. Awaited(k)' <= Awaited(k)
      BY OpenKept, AwaitedKept
    <2>2. QED
      BY <2>1, RowTypes DEF Shuts
  <1>2. QED
    BY <1>1, Accounts

\* Only the holder of a lease publishes, and it is then past running.
LEMMA PublishYields ==
  ASSUME TypeOK, TokensDistinct, NEW w \in Workers, NEW st \in Completed, Publish(w, st)
  PROVE  \A k \in Jobs : Shuts(k) \/ Yields(k)
  <1> PICK j \in Jobs : j = task[w].job
    BY DEF Publish, Holds, Active, TypeOK
  <1>1. /\ task[w].step = "running" /\ Holds(w) /\ task[w].job = j /\ audit' = audit
        /\ jobs' = [jobs EXCEPT ![j] = Settled(@, st)]
        /\ extractions' = [extractions EXCEPT ![j] = Append(@, st)]
        /\ task' = [task EXCEPT ![w].step = "written"]
    BY DEF Publish, TypeOK
  <1>2. NoneRuns /\ task'[w].step = "written"
    BY <1>1 DEF NoneRuns, TypeOK, Tasks
  <1>3. \A k \in Jobs : RowShut(k)
    BY <1>1, StatusValues DEF RowShut, TypeOK, Rows, Settled
  <1>4. ASSUME NEW k \in Jobs, k # j PROVE Shuts(k)
    <2>1. extractions'[k] = extractions[k]
      BY <1>1, <1>4 DEF TypeOK
    <2>2. Awaited(k)' <= Awaited(k)
      BY <1>2, <1>3, OpenKept, AwaitedKept
    <2>3. audit'[k] >= audit[k]
      BY <1>1, RowTypes
    <2>4. QED
      BY <2>1, <2>2, <2>3 DEF Shuts
  <1>5. Yields(j)
    <2>1. Open(j)
      BY <1>1 DEF Open
    <2>2. Len(extractions'[j]) = Len(extractions[j]) + 1
      BY <1>1 DEF TypeOK
    <2>3. jobs'[j].status \in Terminal /\ jobs'[j].lease = jobs[j].lease
      BY <1>1, StatusValues DEF TypeOK, Rows, Settled
    <2>4. ASSUME NEW v \in Workers, task'[v].step = "running", Holds(v)', task'[v].job = j
          PROVE  FALSE
      <3>1. task[v].step = "running" /\ task[v].token = jobs[j].lease
        BY <1>2, <2>3, <2>4 DEF NoneRuns, Holds
      <3>2. v = w
        BY <1>1, <3>1 DEF TokensDistinct, Active, Holds
      <3>3. QED
        BY <1>2, <2>4, <3>2
    <2>5. ~Open(j)'
      <3> SUFFICES ASSUME Open(j)' PROVE FALSE
        OBVIOUS
      <3>1. PICK v \in Workers : task'[v].step = "running" /\ Holds(v)' /\ task'[v].job = j
        BY <2>3 DEF Open
      <3>2. QED
        BY <3>1, <2>4
    <2>6. QED
      BY <1>1, <2>1, <2>2, <2>5, AwaitedKept DEF Yields
  <1>6. QED
    BY <1>4, <1>5

LEMMA PaidStep ==
  TypeOK /\ TypeOK' /\ TokensDistinct /\ ResultsPaid /\ [Next]_vars => ResultsPaid'
  <1> SUFFICES ASSUME TypeOK, TypeOK', TokensDistinct, ResultsPaid, [Next]_vars
               PROVE  ResultsPaid'
    OBVIOUS
  <1>a. /\ jobs \in [Jobs -> Rows] /\ task \in [Workers -> Tasks]
        /\ \A w \in Workers : Active(w) => task[w].job \in Jobs
    BY DEF TypeOK, Active
  <1>b. ASSUME UNCHANGED task \/ \E w \in Workers : Release(w), UNCHANGED errors
        PROVE  NoneRuns /\ SpentGrows(0)
    <2>1. NoneRuns
      BY <1>a, <1>b DEF Release, Idle, NoneRuns
    <2>2. Handling' \subseteq Handling
      BY <1>a, <1>b DEF Release, Idle, Handling
    <2>3. QED
      BY <1>b, <2>1, <2>2, SpentStep
  <1>c. ASSUME UNCHANGED jobs PROVE \A k \in Jobs : RowShut(k)
    BY <1>c DEF RowShut
  <1>1. ASSUME NEW w \in Workers, NEW j \in Jobs, Claim(w, j) PROVE ResultsPaid'
    <2>1. PICK t \in FreshTokens :
            /\ jobs' = [jobs EXCEPT ![j] = Claimed(@, t)]
            /\ task' = [task EXCEPT ![w] =
                          [Idle EXCEPT !.step = "claimed", !.job = j, !.token = t]]
      BY <1>1 DEF Claim
    <2>2. jobs[j].status = "queued" /\ UNCHANGED <<extractions, audit, errors>>
      BY <1>1 DEF Claim, NextDue, Due, budgets
    <2>3. \A k \in Jobs : RowShut(k)
      BY <1>a, <2>1, <2>2, StatusValues DEF RowShut
    <2>4. NoneRuns
      BY <1>a, <2>1 DEF NoneRuns, Idle
    <2>5. Handling' \subseteq Handling
      BY <1>a, <2>1 DEF Handling, Idle
    <2>6. QED
      BY <2>2, <2>3, <2>4, <2>5, SpentStep, QuietAccounts
  <1>2. ASSUME NEW w \in Workers, NEW j \in Jobs, ClaimReplyLost(w, j) PROVE ResultsPaid'
    <2>1. PICK t \in FreshTokens : jobs' = [jobs EXCEPT ![j] = Claimed(@, t)]
      BY <1>2 DEF ClaimReplyLost
    <2>2. jobs[j].status = "queued" /\ UNCHANGED <<extractions, audit, errors, task>>
      BY <1>2 DEF ClaimReplyLost, NextDue, Due
    <2>3. \A k \in Jobs : RowShut(k)
      BY <1>a, <2>1, <2>2, StatusValues DEF RowShut
    <2>4. QED
      BY <1>b, <2>2, <2>3, QuietAccounts
  <1>3. ASSUME NEW w \in Workers, StartProcessing(w) PROVE ResultsPaid'
    <2>1. UNCHANGED <<jobs, extractions, audit, errors>> /\ task[w].step = "claimed"
      BY <1>3 DEF StartProcessing, dbVars, budgets
    <2>2. CASE Release(w)
      BY <1>b, <1>c, <2>1, <2>2, QuietAccounts
    <2>3. CASE /\ jobs[task[w].job].status \notin Terminal
               /\ task' = [task EXCEPT ![w].step = "running"]
      <3>1. Handling' \subseteq Handling
        BY <1>a, <2>3 DEF Handling, Tasks
      <3>2. ASSUME NEW k \in Jobs, Open(k)' PROVE Open(k)
        <4>1. CASE k = task[w].job
          BY <2>3, <4>1 DEF Open
        <4>2. CASE k # task[w].job
          <5>1. task'[w].job # k /\ \A v \in Workers \ {w} : task'[v] = task[v]
            BY <1>a, <2>3, <4>2 DEF Tasks
          <5>2. QED
            BY <2>1, <3>2, <5>1 DEF Open, Holds, Active
        <4>3. QED
          BY <4>1, <4>2
      <3>3. ASSUME NEW k \in Jobs PROVE Shuts(k)
        <4>1. Awaited(k)' <= Awaited(k)
          BY <3>2, AwaitedKept
        <4>2. QED
          BY <2>1, <4>1, RowTypes DEF Shuts
      <3>4. QED
        BY <2>1, <3>1, <3>3, SpentStep, Accounts
    <2>4. QED
      BY <1>3, <2>2, <2>3 DEF StartProcessing
  <1>4. ASSUME NEW w \in Workers,
               StartFails(w) \/ HandleErrorFails(w) \/ Finish(w) \/ DiscardStaleWrite(w)
        PROVE  ResultsPaid'
    <2>1. Release(w) /\ UNCHANGED <<jobs, extractions, audit, errors>>
      BY <1>4 DEF StartFails, HandleErrorFails, Finish, DiscardStaleWrite, dbVars, budgets
    <2>2. QED
      BY <1>b, <1>c, <2>1, QuietAccounts
  <1>5. ASSUME NEW w \in Workers, NEW st \in Completed, Publish(w, st) PROVE ResultsPaid'
    <2>1. task' = [task EXCEPT ![w].step = "written"] /\ UNCHANGED errors
      BY <1>5 DEF Publish, budgets
    <2>2. Handling' \subseteq Handling
      BY <1>a, <2>1 DEF Handling, Tasks
    <2>3. QED
      BY <1>5, <2>1, <2>2, SpentStep, PublishYields, Accounts
  <1>6. ASSUME NEW w \in Workers, FailExtraction(w) PROVE ResultsPaid'
    <2>1. /\ task' = [task EXCEPT ![w].step = "written"]
          /\ jobs' = [jobs EXCEPT ![task[w].job] = Settled(@, "failed")]
          /\ UNCHANGED <<extractions, audit, errors>>
      BY <1>6 DEF FailExtraction, budgets
    <2>2. Handling' \subseteq Handling /\ NoneRuns
      BY <1>a, <2>1 DEF Handling, NoneRuns, Tasks
    <2>3. \A k \in Jobs : RowShut(k)
      BY <1>a, <2>1, StatusValues DEF RowShut, Settled, Rows
    <2>4. QED
      BY <2>1, <2>2, <2>3, SpentStep, QuietAccounts
  <1>7. ASSUME NEW w \in Workers, UnexpectedError(w) PROVE ResultsPaid'
    <2>1. UNCHANGED <<jobs, extractions, audit>> /\ errors' = errors + 1
      BY <1>7 DEF UnexpectedError, dbVars
    <2>2. task' = [task EXCEPT ![w] = task'[w]] /\ task'[w].step \in {"idle", "handling"}
      BY <1>7, <1>a DEF UnexpectedError, Release, Idle, Tasks
    <2>3. Handling' \subseteq Handling \cup {w} /\ NoneRuns
      BY <1>a, <2>2 DEF Handling, NoneRuns
    <2>4. QED
      BY <1>c, <2>1, <2>3, SpentStep, QuietAccounts
  <1>8. ASSUME NEW w \in Workers, HandleError(w) PROVE ResultsPaid'
    <2>1. Release(w) /\ UNCHANGED <<extractions, audit, errors>> /\ w \in Handling
      BY <1>8 DEF HandleError, budgets, Handling
    <2>2. Handling' \subseteq Handling \ {w}
      BY <1>a, <2>1 DEF Handling, Release, Idle
    <2>3. QED
      BY <2>1, <2>2, SpentStep, Accounts DEF Reruns
  <1>9. CASE Reap
    <2>1. /\ jobs' = [k \in Jobs |-> IF Stale(jobs[k]) THEN Reaped(jobs[k]) ELSE jobs[k]]
          /\ UNCHANGED <<extractions, audit, task, errors>>
      BY <1>9 DEF Reap, budgets
    <2>2. \A k \in Jobs : RowShut(k)
      BY <2>1, StatusValues DEF RowShut, Stale
    <2>3. QED
      BY <1>b, <2>1, <2>2, QuietAccounts
  <1>10. CASE Tick
    <2>1. jobs' = [k \in Jobs |-> Aged(jobs[k])] /\ UNCHANGED <<extractions, audit, task, errors>>
      BY <1>10 DEF Tick, budgets
    <2>2. \A k \in Jobs : RowShut(k)
      BY <1>a, <2>1 DEF RowShut, Aged, Rows
    <2>3. QED
      BY <1>b, <2>1, <2>2, QuietAccounts
  <1>11. ASSUME NEW h \in Handlers, RetryCommit(h) PROVE ResultsPaid'
    <2> DEFINE j == request[h].job
    <2>1. /\ UNCHANGED <<extractions, task, errors>>
          /\ audit' = [audit EXCEPT ![j] = @ + 1]
          /\ \A k \in Jobs \ {j} : jobs'[k] = jobs[k]
      BY <1>11, <1>a DEF RetryCommit, budgets
    <2>2. NoneRuns /\ SpentGrows(0)
      BY <1>b, <2>1
    <2>3. ASSUME NEW k \in Jobs PROVE Shuts(k) \/ Opens(k)
      <3>1. CASE k = j
        BY <2>1, <3>1 DEF Opens, TypeOK
      <3>2. CASE k # j
        <4>1. RowShut(k) /\ audit'[k] = audit[k]
          BY <2>1, <3>2 DEF RowShut, TypeOK
        <4>2. Awaited(k)' <= Awaited(k)
          BY <2>2, <4>1, OpenKept, AwaitedKept
        <4>3. QED
          BY <2>1, <4>1, <4>2, RowTypes DEF Shuts
      <3>3. QED
        BY <3>1, <3>2
    <2>4. QED
      BY <2>2, <2>3, Accounts
  <1>12. ASSUME NEW h \in Handlers, RetryFails(h) \/ \E k \in Jobs : RetryLoad(h, k)
         PROVE  ResultsPaid'
    <2>1. UNCHANGED <<jobs, extractions, audit, task, errors>>
      BY <1>12 DEF RetryFails, RetryLoad, dbVars, budgets
    <2>2. QED
      BY <1>b, <1>c, <2>1, QuietAccounts
  <1>13. CASE Sigterm \/ Exit \/ Start \/ UNCHANGED vars
    <2>1. UNCHANGED <<jobs, extractions, audit, task, errors>>
      BY <1>13 DEF Sigterm, Exit, Start, vars, dbVars, budgets
    <2>2. QED
      BY <1>b, <1>c, <2>1, QuietAccounts
  <1>14. CASE Crash
    <2>1. /\ UNCHANGED <<jobs, extractions, audit, errors>>
          /\ task' = [v \in Workers |-> Idle]
      BY <1>14 DEF Crash, dbVars
    <2>2. Handling' \subseteq Handling /\ NoneRuns
      BY <2>1 DEF Handling, NoneRuns, Idle
    <2>3. QED
      BY <1>c, <2>1, <2>2, SpentStep, QuietAccounts
  <1>15. QED
    BY <1>1, <1>2, <1>3, <1>4, <1>5, <1>6, <1>7, <1>8, <1>9, <1>10, <1>11, <1>12, <1>13, <1>14
    DEF Next, WorkerThread, EndAttempt, RetryEndpoint, WorkerProcess

\* With unexpected errors a job may be processed once too often for each of
\* them, and never more often: not by crashes, reaps, lost replies or the
\* blind writes of several handlers at once.
THEOREM ErrorsArePaid == Spec => []ExtraResultsAreErrors
  <1>1. Init => TokensDistinct /\ ResultsPaid
    <2> SUFFICES ASSUME Init PROVE TokensDistinct /\ ResultsPaid
      OBVIOUS
    <2>1. TokensDistinct /\ Handling = {} /\ errors = 0
      BY DEF Init, TokensDistinct, Active, Idle, Handling
    <2>2. \A j \in Jobs : Len(extractions[j]) = 0 /\ audit[j] = 0
      BY DEF Init
    <2>3. IsFiniteSet(Handling) /\ Cardinality(Handling) = 0 /\ Spent = 0
      BY <2>1, FS_EmptySet DEF Spent
    <2>4. ASSUME NEW j \in Jobs PROVE Len(extractions[j]) + Awaited(j) <= 1 + audit[j] + Spent
      BY <2>2, <2>3, AwaitedKept
    <2>5. QED
      BY <2>1, <2>3, <2>4 DEF ResultsPaid
  <1>2. TypeOK /\ ResultsPaid => ExtraResultsAreErrors
    <2> SUFFICES ASSUME TypeOK, ResultsPaid, NEW j \in Jobs
                 PROVE  Len(extractions[j]) <= 1 + audit[j] + errors
      BY DEF ExtraResultsAreErrors
    <2>1. Cardinality(Handling) \in Nat /\ errors \in Nat
      BY FS_CardinalityType DEF ResultsPaid, TypeOK
    <2>2. Len(extractions[j]) + Awaited(j) <= 1 + audit[j] + Spent /\ Awaited(j) \in {0, 1}
      BY AwaitedKept DEF ResultsPaid
    <2>3. QED
      BY <2>1, <2>2, RowTypes DEF Spent
  <1>3. QED
    BY <1>1, <1>2, TypeCorrect, TokensDistinctStep, PaidStep, PTL DEF Spec
=============================================================================
