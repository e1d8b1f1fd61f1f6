----------------------------- MODULE ApiServer -----------------------------
(***************************************************************************)
(* One Uvicorn process of the API: its event loop, the threads it runs     *)
(* blocking code on, and the pool of database connections they share.      *)
(* What a request reads and writes is in Documents and JobQueue; here it   *)
(* only takes a thread, takes and gives back connections, and needs the    *)
(* loop in between.                                                        *)
(***************************************************************************)
EXTENDS Integers, FiniteSets

CONSTANTS Queries,     \* clients of GET /jobs..., /metrics: one connection
          Probes,      \* clients of GET /api/v1/health: two, one after the other
          Retries,     \* clients of POST /jobs/{id}/retry: one more after the commit
          Uploads,     \* clients of POST /invoices: one more on the event loop
          Threads,     \* tokens of the thread limiter
          Connections, \* pool_size + max_overflow
          None         \* no request

Clients == Queries \cup Probes \cup Retries \cup Uploads

ASSUME ApiAssumption ==
  /\ IsFiniteSet(Clients) /\ None \notin Clients
  /\ Queries \cap (Probes \cup Retries \cup Uploads) = {}
  /\ Uploads \cap (Probes \cup Retries) = {} /\ Probes \cap Retries = {}
  /\ Threads \in Nat \ {0} /\ Connections \in Nat \ {0}

VARIABLES
  step,    \* per client, where its request is
  turn,    \* per client, which of its connections its request is at
  holds,   \* the requests that have a connection checked out
  failed,  \* the requests whose handler has raised
  loop     \* the request the event loop is blocked by, or None

vars == <<step, turn, holds, failed, loop>>

(***************************************************************************)
(*   accepted   its coroutine runs, waiting for a thread                   *)
(*   waiting    in a thread, waiting for a connection                      *)
(*   working    in a thread, with a connection                             *)
(*   returned   handler done; thread kept until the loop takes the result  *)
(*   reloading  an upload on the loop, refreshing the job it committed     *)
(*   answering  waiting for a thread that validates the response model     *)
(*   answered   validated; thread kept until the loop takes the result     *)
(*   closing    session.close in a thread of its own                       *)
(*   closed     waiting for the loop to send the response                  *)
(***************************************************************************)
InThread == {"waiting", "working", "returned", "answered"}
Steps == InThread \cup {"idle", "accepted", "reloading", "answering", "closing", "closed"}

TypeOK ==
  /\ step \in [Clients -> Steps]
  /\ turn \in [Clients -> {1, 2}]
  /\ holds \subseteq Clients /\ failed \subseteq Clients
  /\ Cardinality(holds) <= Connections
  /\ Cardinality({r \in Clients : step[r] \in InThread}) <= Threads
  /\ loop \in Clients \cup {None}
  /\ \A r \in Clients : loop = r <=> step[r] = "reloading"

Init ==
  /\ step = [r \in Clients |-> "idle"]
  /\ turn = [r \in Clients |-> 1]
  /\ holds = {} /\ failed = {} /\ loop = None

Goes(r, s) == step' = [step EXCEPT ![r] = s]

LoopFree == loop = None
ThreadFree == Cardinality({r \in Clients : step[r] \in InThread}) < Threads
ConnectionFree == Cardinality(holds) < Connections

\* Requests that take a second connection in their thread.
Twice == Probes \cup Retries
-----------------------------------------------------------------------------
(* On the event loop.                                                      *)

Accept(r) ==
  /\ LoopFree /\ step[r] = "idle"
  /\ Goes(r, "accepted")
  /\ UNCHANGED <<turn, holds, failed, loop>>

\* get_db and then the handler get a thread.  A new session has no connection.
Dispatch(r) ==
  /\ LoopFree /\ step[r] = "accepted" /\ ThreadFree
  /\ Goes(r, "waiting")
  /\ UNCHANGED <<turn, holds, failed, loop>>

\* The loop takes the result of a handler and the thread is free again.
\* job.id of an upload is expired by the commit: reading it loads the row
\* again, here.
TakeUpload(r) ==
  /\ LoopFree /\ step[r] = "returned" /\ r \in Uploads \ failed
  /\ Goes(r, "reloading") /\ loop' = r
  /\ UNCHANGED <<turn, holds, failed>>

\* What a plain function returned for a response model is validated in a
\* thread once more, with the session open.
TakeAnswer(r) ==
  /\ LoopFree /\ step[r] = "returned" /\ r \in (Queries \cup Retries) \ failed
  /\ Goes(r, "answering")
  /\ UNCHANGED <<turn, holds, failed, loop>>

Validate(r) ==
  /\ LoopFree /\ step[r] = "answering" /\ ThreadFree
  /\ Goes(r, "answered")
  /\ UNCHANGED <<turn, holds, failed, loop>>

\* It is validated, or there is nothing to validate: an exception, the dict
\* of the health endpoint, the Response of /metrics and of the PDF.
Resume(r) ==
  /\ LoopFree
  /\ \/ step[r] = "answered"
     \/ step[r] = "returned" /\ r \in failed \cup Probes \cup Queries
  /\ Goes(r, "closing")
  /\ UNCHANGED <<turn, holds, failed, loop>>

Reload(r) ==
  /\ loop = r /\ ConnectionFree
  /\ holds' = holds \cup {r}
  /\ Goes(r, "closing")
  /\ loop' = None
  /\ UNCHANGED <<turn, failed>>

(* Seeded defect: the checkout tried again until it succeeds. *)
ReloadTriesAgain(r) ==
  /\ loop = r /\ ~ConnectionFree
  /\ UNCHANGED vars

\* pool_timeout: the upload is answered 500 though its row is committed.
ReloadTimesOut(r) ==
  /\ loop = r /\ ~ConnectionFree
  /\ failed' = failed \cup {r}
  /\ Goes(r, "closing")
  /\ loop' = None
  /\ UNCHANGED <<turn, holds>>

Respond(r) ==
  /\ LoopFree /\ step[r] = "closed"
  /\ Goes(r, "idle")
  /\ turn' = [turn EXCEPT ![r] = 1]
  /\ failed' = failed \ {r}
  /\ UNCHANGED <<holds, loop>>
-----------------------------------------------------------------------------
(* In the threads.                                                         *)

(* Seeded defect: max_overflow=-1. *)
ConnectUnlimited(r) ==
  /\ step[r] = "waiting"
  /\ holds' = holds \cup {r}
  /\ Goes(r, "working")
  /\ UNCHANGED <<turn, failed, loop>>

Connect(r) ==
  /\ step[r] = "waiting" /\ ConnectionFree
  /\ holds' = holds \cup {r}
  /\ Goes(r, "working")
  /\ UNCHANGED <<turn, failed, loop>>

\* pool_timeout: QueuePool raises; the health endpoint catches it and goes on.
ConnectTimesOut(r) ==
  /\ step[r] = "waiting" /\ ~ConnectionFree
  /\ IF r \in Probes
     THEN /\ turn' = [turn EXCEPT ![r] = 2]
          /\ step' = [step EXCEPT ![r] = IF turn[r] = 1 THEN "waiting" ELSE "returned"]
          /\ UNCHANGED failed
     ELSE /\ failed' = failed \cup {r}
          /\ Goes(r, "returned")
          /\ UNCHANGED turn
  /\ UNCHANGED <<holds, loop>>

(* Seeded defect: the counts inside "with engine.connect()". *)
NextTurnNested(r) ==
  /\ step[r] = "working" /\ r \in Twice /\ turn[r] = 1
  /\ Goes(r, "waiting")
  /\ turn' = [turn EXCEPT ![r] = 2]
  /\ UNCHANGED <<holds, failed, loop>>

\* The end of "with engine.connect()" (health), or the commit and the reload
\* of the expired job (retry): the connection goes back and another one is
\* needed.
NextTurn(r) ==
  /\ step[r] = "working" /\ r \in Twice /\ turn[r] = 1
  /\ holds' = holds \ {r}
  /\ Goes(r, "waiting")
  /\ turn' = [turn EXCEPT ![r] = 2]
  /\ UNCHANGED <<failed, loop>>

\* _persist_upload ends with its commit.
CommitUpload(r) ==
  /\ step[r] = "working" /\ r \in Uploads
  /\ holds' = holds \ {r}
  /\ Goes(r, "returned")
  /\ UNCHANGED <<turn, failed, loop>>

\* The handler returns, with its session still open.
Finish(r) ==
  /\ step[r] = "working" /\ r \notin Uploads /\ (r \in Twice => turn[r] = 2)
  /\ Goes(r, "returned")
  /\ UNCHANGED <<turn, holds, failed, loop>>

\* It raises: no such job, the backlog is full, the database is gone.
Raise(r) ==
  /\ step[r] = "working" /\ r \notin Probes
  /\ failed' = failed \cup {r}
  /\ Goes(r, "returned")
  /\ UNCHANGED <<turn, holds, loop>>

(* Seeded defect: get_db without try/finally. *)
CloseNot(r) ==
  /\ step[r] = "closing"
  /\ holds' = IF r \in failed THEN holds ELSE holds \ {r}
  /\ Goes(r, "closed")
  /\ UNCHANGED <<turn, failed, loop>>

\* session.close, which no thread limit holds up.
Close(r) ==
  /\ step[r] = "closing"
  /\ holds' = holds \ {r}
  /\ Goes(r, "closed")
  /\ UNCHANGED <<turn, failed, loop>>
-----------------------------------------------------------------------------
OnLoop(r) ==
  Dispatch(r) \/ TakeUpload(r) \/ TakeAnswer(r) \/ Validate(r) \/ Resume(r) \/ Respond(r)
Work(r) == NextTurn(r) \/ CommitUpload(r) \/ Finish(r) \/ Raise(r)
GoesOn(r) ==
  Connect(r) \/ ConnectTimesOut(r) \/ Work(r) \/ Close(r) \/ Reload(r) \/ ReloadTimesOut(r)

Next == \E r \in Clients : Accept(r) \/ OnLoop(r) \/ GoesOn(r)

Spec == Init /\ [][Next]_vars

\* Callbacks of the loop and waiters of the thread limiter are first come,
\* first served; queries end; a wait for a connection ends by pool_timeout.
Fairness == \A r \in Clients : SF_vars(OnLoop(r)) /\ WF_vars(GoesOn(r))

FairSpec == Spec /\ Fairness
-----------------------------------------------------------------------------
Waits(r) == step[r] \in {"waiting", "reloading"}

\* No request waits for a connection with another one in its hands: those
\* that hold one work, or wait for the loop or a thread.
NoHoldAndWait == \A r \in Clients : Waits(r) => r \notin holds

\* Where a request may have a connection checked out.
Session == {"working", "returned", "answering", "answered", "closing"}

\* A request that was answered, whatever became of it, has given back its
\* connection (get_db closes the session in a finally).
NoConnectionLost == \A r \in holds : step[r] \in Session

\* Every request is answered, though the loop may be waiting for connections
\* that only the loop can free, and every thread for connections held by
\* requests that wait for a thread: pool_timeout ends both.
EveryRequestAnswered == \A r \in Clients : step[r] = "accepted" ~> step[r] = "idle"

\* The loop waits for a connection and every connection is held by a request
\* that waits for the loop.
CircularWait ==
  /\ ~LoopFree /\ ~ConnectionFree
  /\ \A r \in holds : step[r] \in {"returned", "answering", "answered"}

\* "blocking work in the upload path (hashing, disk write, DB calls) already
\* runs via run_in_threadpool so it doesn't stall the event loop either way"
\* (README).
LoopNotStalled == ~CircularWait
=============================================================================
