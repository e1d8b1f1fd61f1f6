------------------------------ MODULE Pipeline ------------------------------
(***************************************************************************)
(* The worker threads inside run_pipeline: the pages of a PDF, each scanned *)
(* one an OCR call with a timeout on an engine of the thread, then up to   *)
(* three requests to the Ollama hosts.  Review has the stages after these, *)
(* JobQueue what process_job does with the outcome.                        *)
(***************************************************************************)
EXTENDS Naturals, Sequences, FiniteSets, Functions

CONSTANTS Threads,     \* worker threads
          Engines,     \* OCR engine objects
          None,
          NumHosts,    \* length of settings.ollama_hosts
          OcrTimeout,  \* ocr_timeout_seconds
          MaxPages,    \* bound: pages of a PDF
          MaxRuns      \* bound: calls of run_pipeline

ASSUME PipelineAssumption ==
  /\ None \notin Engines
  /\ NumHosts \in Nat \ {0} /\ OcrTimeout \in Nat \ {0}
  /\ MaxPages \in Nat /\ MaxRuns \in Nat

MaxAttempts == 3   \* max_attempts of structure_invoice
Hosts == 1..NumHosts
Pages == {"digital", "scanned"}

ExtractionErrors == {"NoUsableText", "OcrTimeout", "LLMFormat"}
Outcomes == {"none", "result", "other"} \cup ExtractionErrors

VARIABLES
  run,       \* per thread, its call of run_pipeline
  engine,    \* per thread, _thread_local.ocr_engine
  calls,     \* the OCR calls the pool threads are executing
  runs       \* how much of MaxRuns is spent
vars == <<run, engine, calls, runs>>

(***************************************************************************)
(* stage of a run:                                                         *)
(*   idle      none under way                                              *)
(*   pages     at the top of the loop over the pages                       *)
(*   waiting   in future.result                                            *)
(*   leaving   timed out, in the __exit__ of the ThreadPoolExecutor        *)
(*   llm       about to send a request                                     *)
(*   asking    request sent                                                *)
(*   over      returned or raised                                          *)
(***************************************************************************)
Stages == {"idle", "pages", "waiting", "leaving", "llm", "asking", "over"}

\* todo      the pages not extracted yet
\* lines     some page had text
\* attempts  the hosts of the requests sent
\* host      the next one of the itertools.cycle of this run's client
\* last      the attempts that last_raw and last_error are from; 0 for None
NoneYet == [raw |-> 0, error |-> 0]
NoRun == [stage |-> "idle", todo |-> <<>>, lines |-> FALSE, attempts |-> <<>>, host |-> 1,
          last |-> NoneYet, outcome |-> "none"]
Runs == [stage: Stages, todo: Seq(Pages), lines: BOOLEAN, attempts: Seq(Hosts), host: Hosts,
         last: [raw: Nat, error: Nat], outcome: Outcomes]

\* page: pages left after it; ticks: time since the call began, saturated.
Calls == [thread: Threads, page: Nat, engine: Engines, ticks: 0..(OcrTimeout + 1)]

TypeOK ==
  /\ run \in [Threads -> Runs]
  /\ engine \in [Threads -> Engines \cup {None}]
  /\ calls \subseteq Calls
  /\ runs \in 0..MaxRuns

Init ==
  /\ run = [w \in Threads |-> NoRun]
  /\ engine = [w \in Threads |-> None]
  /\ calls = {}
  /\ runs = 0

Ends(w, how) == run' = [run EXCEPT ![w].stage = "over", ![w].outcome = how]
CallsOf(w) == {c \in calls : c.thread = w}
-----------------------------------------------------------------------------
(* triage_pdf and the loop over the pages.                                 *)

Begin(w) ==
  /\ run[w].stage = "idle" /\ runs < MaxRuns
  /\ \E n \in 0..MaxPages : \E pages \in [1..n -> Pages] :
       run' = [run EXCEPT ![w] = [NoRun EXCEPT !.stage = "pages", !.todo = pages]]
  /\ runs' = runs + 1
  /\ UNCHANGED <<engine, calls>>

NextPage(w, text) ==
  run' = [run EXCEPT ![w].stage = "pages", ![w].todo = Tail(@), ![w].lines = @ \/ text]

DigitalPage(w) ==
  /\ run[w].stage = "pages" /\ run[w].todo # <<>> /\ Head(run[w].todo) = "digital"
  /\ \E text \in BOOLEAN : NextPage(w, text)
  /\ UNCHANGED <<engine, calls, runs>>

\* No page at all, no text on any page, or on to the LLM with a new client.
PagesDone(w) ==
  /\ run[w].stage = "pages" /\ run[w].todo = <<>>
  /\ IF run[w].lines
     THEN run' = [run EXCEPT ![w].stage = "llm", ![w].host = 1]
     ELSE Ends(w, "NoUsableText")
  /\ UNCHANGED <<engine, calls, runs>>

\* Anything else raises: the PDF library, the OCR library, its import.
Breaks(w) ==
  /\ run[w].stage = "pages"
  /\ Ends(w, "other")
  /\ UNCHANGED <<engine, calls, runs>>
-----------------------------------------------------------------------------
(* _ocr_page_with_timeout.                                                 *)

\* _get_ocr_engine: the engine of the thread, created at its first use.
GetOcrEngine(w) ==
  IF engine[w] # None THEN {engine[w]} ELSE Engines \ Range(engine)

SubmitOcr(w) ==
  /\ run[w].stage = "pages" /\ run[w].todo # <<>> /\ Head(run[w].todo) = "scanned"
  /\ \E e \in GetOcrEngine(w) :
       /\ engine' = [engine EXCEPT ![w] = e]
       /\ calls' = calls \cup
            {[thread |-> w, page |-> Len(run[w].todo) - 1, engine |-> e, ticks |-> 0]}
  /\ run' = [run EXCEPT ![w].stage = "waiting"]
  /\ UNCHANGED <<runs>>

\* The call returns lines or none, or raises, while its thread waits for it.
OcrReturns(w) ==
  /\ run[w].stage = "waiting"
  /\ calls' = calls \ CallsOf(w)
  /\ (\E text \in BOOLEAN : NextPage(w, text)) \/ Ends(w, "other")
  /\ UNCHANGED <<engine, runs>>

\* Seeded defect: pool.shutdown(wait=False), as the docstring has it, and the
\* run goes on with the next page.
OcrTimesOutAndGoesOn(w) ==
  /\ run[w].stage = "waiting"
  /\ \E c \in CallsOf(w) : c.ticks >= OcrTimeout
  /\ NextPage(w, FALSE)
  /\ UNCHANGED <<engine, calls, runs>>

\* Seeded defect: future.result() without its timeout.
OcrTimesOutNever(w) == FALSE

\* future.result raises; the executor's __exit__ waits for the pool thread.
OcrTimesOut(w) ==
  /\ run[w].stage = "waiting"
  /\ \E c \in CallsOf(w) : c.ticks >= OcrTimeout
  /\ run' = [run EXCEPT ![w].stage = "leaving"]
  /\ UNCHANGED <<engine, calls, runs>>

\* A call nobody waits for the result of ends.
OcrEndsLate(w) ==
  /\ run[w].stage # "waiting"
  /\ \E c \in CallsOf(w) : calls' = calls \ {c}
  /\ UNCHANGED <<run, engine, runs>>

LeavePool(w) ==
  /\ run[w].stage = "leaving" /\ CallsOf(w) = {}
  /\ Ends(w, "OcrTimeout")
  /\ UNCHANGED <<engine, calls, runs>>

\* Time passes for the OCR calls; future.result does not oversleep.
Tick ==
  /\ \A w \in Threads : run[w].stage = "waiting" =>
       \A c \in CallsOf(w) : c.ticks < OcrTimeout
  /\ calls' = {[c EXCEPT !.ticks = IF @ > OcrTimeout THEN @ ELSE @ + 1] : c \in calls}
  /\ UNCHANGED <<run, engine, runs>>
-----------------------------------------------------------------------------
(* structure_invoice and OllamaClient.                                     *)

(* Seeded defects: a cycle that is not advanced, or an index that is not   *)
(* wrapped around.                                                         *)
AfterHostSame(h) == h
AfterHostOnly(h) == h + 1

AfterHost(h) == IF h = NumHosts THEN 1 ELSE h + 1
AttemptsNow(attempts, h) == Append(attempts, h)

AskLlm(w) ==
  /\ run[w].stage = "llm"
  /\ run' = [run EXCEPT ![w].stage = "asking", ![w].host = AfterHost(@),
                        ![w].attempts = AttemptsNow(@, run[w].host)]
  /\ UNCHANGED <<engine, calls, runs>>

\* The answer passes the schema; the stages after it (Review) may still raise.
LlmSucceeds(w) ==
  /\ run[w].stage = "asking"
  /\ Ends(w, "result") \/ Ends(w, "other")
  /\ UNCHANGED <<engine, calls, runs>>

\* Seeded defect: raw not set to None before the request.
RecalledOnlyAnswers(last, n, answered) ==
  [raw |-> IF answered THEN n ELSE last.raw, error |-> n]

\* What the loop keeps of attempt n: its error, and its answer if there was one.
Recalled(last, n, answered) == [raw |-> IF answered THEN n ELSE 0, error |-> n]

\* Every exception is an attempt that failed, with no answer (an HTTP error, a
\* timeout, no JSON) or with one that misses the schema; the last one is
\* raised as an LLMFormatError.
LlmFails(w) ==
  /\ run[w].stage = "asking"
  /\ IF Len(run[w].attempts) = MaxAttempts
     THEN Ends(w, "LLMFormat")
     ELSE \E answered \in BOOLEAN :
            run' = [run EXCEPT ![w].stage = "llm",
                               ![w].last = Recalled(@, Len(run[w].attempts), answered)]
  /\ UNCHANGED <<engine, calls, runs>>

\* What the next prompt quotes: nothing, or an answer and its error.
Quoted(w) == IF run[w].last.raw = 0 THEN NoneYet ELSE run[w].last

\* process_job takes over: the thread goes on with its next job.
Dispose(w) ==
  /\ run[w].stage = "over"
  /\ run' = [run EXCEPT ![w].stage = "idle"]
  /\ UNCHANGED <<engine, calls, runs>>
-----------------------------------------------------------------------------
ThreadStep(w) ==
  \/ DigitalPage(w) \/ PagesDone(w) \/ SubmitOcr(w) \/ OcrTimesOut(w) \/ LeavePool(w)
  \/ AskLlm(w) \/ Dispose(w)

Next ==
  \/ \E w \in Threads : \/ Begin(w) \/ Breaks(w) \/ ThreadStep(w)
                        \/ OcrReturns(w) \/ OcrEndsLate(w)
                        \/ LlmSucceeds(w) \/ LlmFails(w)
  \/ Tick

Spec == Init /\ [][Next]_vars

\* The threads go on, requests to Ollama are answered or run into
\* ollama_timeout_seconds, and time passes.  Nothing makes an OCR call return.
Fairness ==
  /\ \A w \in Threads : WF_vars(ThreadStep(w)) /\ WF_vars(LlmSucceeds(w) \/ LlmFails(w))
  /\ WF_vars(Tick)

FairSpec == Spec /\ Fairness
-----------------------------------------------------------------------------
\* "Genuine isolation" (run.py): no OCR engine executes two calls at once, of
\* two threads or, after a timeout, of one thread.
EngineExclusive ==
  \A c, d \in calls : c.engine = d.engine => c = d

\* A run does not give up on the LLM before it has asked as many different
\* hosts as its attempts allow.
AllHostsAsked ==
  \A w \in Threads : run[w].outcome = "LLMFormat" =>
    Cardinality(Range(run[w].attempts))
      = IF NumHosts < MaxAttempts THEN NumHosts ELSE MaxAttempts

\* The OCR timeout makes a run whose call never returns come out of
\* future.result, and nothing else holds a run up, whatever the pages and the
\* hosts do: it ends, or stands in the exit of the executor.
OnlyPoolHolds ==
  \A w \in Threads : run[w].stage # "idle" ~> run[w].stage \in {"idle", "leaving"}

\* "OCR calls now have an explicit OCR_TIMEOUT_SECONDS ceiling so a hung/
\* pathological page fails cleanly instead of tying up a worker thread
\* indefinitely" (README): every run ends.
EveryRunEnds == \A w \in Threads : run[w].stage # "idle" ~> run[w].stage = "idle"

\* A prompt that asks for a correction shows the LLM the answer of the request
\* just before and the error that this very answer gave: never an older
\* answer with the failure of another request.
CorrectionMatches ==
  \A w \in Threads : run[w].stage = "llm" /\ Quoted(w) # NoneYet =>
    Quoted(w) = [raw |-> Len(run[w].attempts), error |-> Len(run[w].attempts)]
=============================================================================
