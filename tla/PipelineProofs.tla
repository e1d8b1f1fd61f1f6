--------------------------- MODULE PipelineProofs ---------------------------
(***************************************************************************)
(* Proofs that no OCR engine is ever used by two calls at once, that a     *)
(* correction prompt quotes one answer with its own error, and that a run  *)
(* asks every host it can before it gives up, for any number of threads,   *)
(* pages, hosts and any timeout.                                           *)
(***************************************************************************)
EXTENDS Pipeline, FiniteSetTheorems, TLAPS

\* A call runs on the engine of its thread, no two threads have the same one,
\* and a thread has one call while it is in future.result or in the exit of
\* the executor, and none elsewhere; the page of the call is still to do.
EnginesApart ==
  /\ \A c \in calls : c.engine = engine[c.thread]
  /\ \A v, w \in Threads : engine[v] = engine[w] /\ engine[v] # None => v = w
  /\ \A c, d \in calls : c.thread = d.thread => c = d
  /\ \A c \in calls : run[c.thread].stage \in {"waiting", "leaving"}
  /\ \A w \in Threads : run[w].stage \in {"waiting", "leaving"} => run[w].todo # <<>>

Inv == TypeOK /\ EnginesApart

LEMMA InvInit == Init => Inv
  BY PipelineAssumption DEF Init, Inv, TypeOK, EnginesApart, Runs, NoRun, NoneYet, Stages, Outcomes,
     ExtractionErrors, Hosts, Pages, Calls

\* How a run may change.
LEMMA EndsTyped ==
  ASSUME TypeOK, NEW w \in Threads, NEW how \in Outcomes, Ends(w, how)
  PROVE  run' \in [Threads -> Runs]
  <1>1. run[w] \in Runs /\ "over" \in Stages
    BY DEF TypeOK, Stages
  <1>2. [run[w] EXCEPT !.stage = "over", !.outcome = how] \in Runs
    BY <1>1 DEF Runs
  <1>3. run' = [run EXCEPT ![w] = [run[w] EXCEPT !.stage = "over", !.outcome = how]]
    BY DEF Ends, TypeOK
  <1> QED BY <1>2, <1>3 DEF TypeOK

LEMMA NextPageTyped ==
  ASSUME TypeOK, NEW w \in Threads, NEW text \in BOOLEAN, NextPage(w, text),
         run[w].todo # <<>>
  PROVE  run' \in [Threads -> Runs]
  <1> DEFINE new == [run[w] EXCEPT !.stage = "pages", !.todo = Tail(run[w].todo),
                                   !.lines = run[w].lines \/ text]
  <1>1. run[w] \in Runs /\ "pages" \in Stages
    BY DEF TypeOK, Stages
  <1>2. run[w].todo \in Seq(Pages) /\ run[w].lines \in BOOLEAN
    BY <1>1 DEF Runs
  <1>3. Tail(run[w].todo) \in Seq(Pages)
    BY <1>2
  <1>4. (run[w].lines \/ text) \in BOOLEAN
    OBVIOUS
  <1>5. new \in Runs
    BY <1>1, <1>3, <1>4 DEF Runs
  <1>6. run' = [run EXCEPT ![w] = new]
    BY DEF NextPage, TypeOK
  <1> HIDE DEF new
  <1> QED BY <1>5, <1>6 DEF TypeOK

\* A thread without a call may change its run in any way that needs none.
LEMMA ApartKept ==
  ASSUME TypeOK, EnginesApart, NEW w \in Threads, NEW new,
         run' = [run EXCEPT ![w] = new],
         new.stage \notin {"waiting", "leaving"},
         engine' = engine, calls' \subseteq calls, \A c \in calls' : c.thread # w
  PROVE  EnginesApart'
  <1>1. \A v \in Threads : v # w => run'[v] = run[v]
    BY DEF TypeOK
  <1>2. run'[w] = new
    BY DEF TypeOK
  <1>3. \A c \in calls' : c.thread \in Threads
    BY DEF TypeOK, Calls
  <1> QED BY <1>1, <1>2, <1>3 DEF EnginesApart

\* The type and the separation of the engines, action by action.
LEMMA InvStep ==
  ASSUME Inv, [Next]_vars
  PROVE  Inv'
  <1> USE PipelineAssumption DEF Inv
  <1>1. ASSUME NEW w \in Threads, Begin(w) PROVE Inv'
    <2>1. TypeOK'
      <3>1. PICK n \in 0..MaxPages : \E pages \in [1..n -> Pages] :
              run' = [run EXCEPT ![w] = [NoRun EXCEPT !.stage = "pages", !.todo = pages]]
        BY <1>1 DEF Begin
      <3>2. PICK pages \in [1..n -> Pages] :
              run' = [run EXCEPT ![w] = [NoRun EXCEPT !.stage = "pages", !.todo = pages]]
        BY <3>1
      <3>3. n \in Nat /\ pages \in Seq(Pages)
        OBVIOUS
      <3>4. [NoRun EXCEPT !.stage = "pages", !.todo = pages] \in Runs
        <4>1. 1 \in Hosts /\ <<>> \in Seq(Hosts)
          BY DEF Hosts
        <4>2. "pages" \in Stages /\ "none" \in Outcomes
          BY DEF Stages, Outcomes
        <4> QED BY <3>3, <4>1, <4>2 DEF NoRun, NoneYet, Runs
      <3>5. run' \in [Threads -> Runs]
        BY <3>2, <3>4 DEF TypeOK
      <3> QED BY <1>1, <3>5 DEF Begin, TypeOK
    <2>2. EnginesApart'
      BY <1>1 DEF Begin, TypeOK, EnginesApart, Runs, Calls, NoRun
    <2> QED BY <2>1, <2>2
  <1>2. ASSUME NEW w \in Threads, DigitalPage(w) PROVE Inv'
    <2>1. TypeOK'
      BY <1>2 DEF DigitalPage, NextPage, TypeOK, Runs, Stages, Outcomes, ExtractionErrors, Hosts, Pages, Calls
    <2>2. EnginesApart'
      BY <1>2 DEF DigitalPage, NextPage, TypeOK, EnginesApart, Runs, Calls
    <2> QED BY <2>1, <2>2
  <1>3. ASSUME NEW w \in Threads, PagesDone(w) PROVE Inv'
    <2>1. TypeOK'
      <3>1. CASE run[w].lines
        <4>1. run' = [run EXCEPT ![w] = [run[w] EXCEPT !.stage = "llm", !.host = 1]]
          BY <1>3, <3>1 DEF PagesDone, TypeOK
        <4>2. [run[w] EXCEPT !.stage = "llm", !.host = 1] \in Runs
          <5>1. 1 \in Hosts /\ "llm" \in Stages
            BY DEF Hosts, Stages
          <5> QED BY <5>1 DEF TypeOK, Runs
        <4> QED BY <1>3, <4>1, <4>2 DEF PagesDone, TypeOK
      <3>2. CASE ~run[w].lines
        <4>1. Ends(w, "NoUsableText") /\ "NoUsableText" \in Outcomes
          BY <1>3, <3>2 DEF PagesDone, Outcomes, ExtractionErrors
        <4> QED BY <1>3, <4>1, EndsTyped DEF PagesDone, TypeOK
      <3> QED BY <3>1, <3>2
    <2>2. EnginesApart'
      <3>1. UNCHANGED <<engine, calls>> /\ run[w].stage = "pages"
        BY <1>3 DEF PagesDone
      <3>2. \A c \in calls' : c.thread # w
        BY <3>1 DEF EnginesApart
      <3>3. PICK new : run' = [run EXCEPT ![w] = new] /\ new.stage \in {"llm", "over"}
        <4>1. CASE run[w].lines
          <5> DEFINE new == [run[w] EXCEPT !.stage = "llm", !.host = 1]
          <5>1. run' = [run EXCEPT ![w] = new]
            BY <1>3, <4>1 DEF PagesDone, TypeOK
          <5>2. new.stage = "llm"
            BY DEF TypeOK, Runs
          <5> QED BY <5>1, <5>2
        <4>2. CASE ~run[w].lines
          <5> DEFINE new == [run[w] EXCEPT !.stage = "over", !.outcome = "NoUsableText"]
          <5>1. run' = [run EXCEPT ![w] = new]
            BY <1>3, <4>2 DEF PagesDone, Ends, TypeOK
          <5>2. new.stage = "over"
            BY DEF TypeOK, Runs
          <5> QED BY <5>1, <5>2
        <4> QED BY <4>1, <4>2
      <3> QED BY <3>1, <3>2, <3>3, ApartKept
    <2> QED BY <2>1, <2>2
  <1>4. ASSUME NEW w \in Threads, Breaks(w) PROVE Inv'
    <2>1. TypeOK'
      <3>1. Ends(w, "other") /\ "other" \in Outcomes
        BY <1>4 DEF Breaks, Outcomes, ExtractionErrors
      <3> QED BY <1>4, <3>1, EndsTyped DEF Breaks, TypeOK
    <2>2. EnginesApart'
      BY <1>4 DEF Breaks, Ends, TypeOK, EnginesApart, Runs, Calls
    <2> QED BY <2>1, <2>2
  <1>5. ASSUME NEW w \in Threads, SubmitOcr(w) PROVE Inv'
    <2>1. PICK e \in GetOcrEngine(w) :
            /\ engine' = [engine EXCEPT ![w] = e]
            /\ calls' = calls \cup
                 {[thread |-> w, page |-> Len(run[w].todo) - 1, engine |-> e, ticks |-> 0]}
      BY <1>5 DEF SubmitOcr
    <2>2. /\ e \in Engines /\ e # None
          /\ \A v \in Threads : v # w => engine[v] # e
      <3>1. CASE engine[w] # None
        BY <2>1, <3>1 DEF GetOcrEngine, TypeOK, EnginesApart
      <3>2. CASE engine[w] = None
        BY <2>1, <3>2 DEF GetOcrEngine, TypeOK, Range
      <3> QED BY <3>1, <3>2
    <2>3. run[w] \in Runs /\ run[w].todo \in Seq(Pages) /\ run[w].todo # <<>>
      BY <1>5 DEF SubmitOcr, TypeOK, Runs
    <2>4. Len(run[w].todo) - 1 \in Nat
      BY <2>3
    <2>5. calls' \subseteq Calls
      BY <2>1, <2>2, <2>4 DEF TypeOK, Calls
    <2>6. [run[w] EXCEPT !.stage = "waiting"] \in Runs
      BY <2>3 DEF Runs, Stages
    <2>7. run' = [run EXCEPT ![w] = [run[w] EXCEPT !.stage = "waiting"]]
      BY <1>5 DEF SubmitOcr, TypeOK
    <2>8. TypeOK'
      BY <1>5, <2>1, <2>2, <2>5, <2>6, <2>7 DEF SubmitOcr, TypeOK
    <2>9. \A c \in calls : c.thread # w
      BY <1>5 DEF SubmitOcr, EnginesApart
    <2>10. \A c \in calls : c.thread \in Threads
      BY DEF TypeOK, Calls
    <2>11. \A v \in Threads : v # w => run'[v] = run[v] /\ engine'[v] = engine[v]
      BY <2>1, <2>7 DEF TypeOK
    <2>12. run'[w].stage = "waiting" /\ run'[w].todo # <<>> /\ engine'[w] = e
      BY <2>1, <2>3, <2>7 DEF TypeOK, Runs
    <2>13. EnginesApart'
      BY <2>1, <2>2, <2>9, <2>10, <2>11, <2>12 DEF EnginesApart
    <2> QED BY <2>8, <2>13
  <1>6. ASSUME NEW w \in Threads, OcrReturns(w) PROVE Inv'
    <2>1. TypeOK'
      <3>1. calls' \subseteq Calls
        BY <1>6 DEF OcrReturns, TypeOK
      <3>2. CASE \E text \in BOOLEAN : NextPage(w, text)
        BY <1>6, <3>1, <3>2, NextPageTyped DEF OcrReturns, TypeOK, EnginesApart
      <3>3. CASE Ends(w, "other")
        <4>1. "other" \in Outcomes
          BY DEF Outcomes
        <4> QED BY <1>6, <3>1, <3>3, <4>1, EndsTyped DEF OcrReturns, TypeOK
      <3> QED BY <1>6, <3>2, <3>3 DEF OcrReturns
    <2>2. EnginesApart'
      <3>1. engine' = engine /\ calls' = calls \ CallsOf(w)
        BY <1>6 DEF OcrReturns
      <3>2. calls' \subseteq calls /\ \A c \in calls' : c.thread # w
        BY <3>1 DEF CallsOf
      <3>3. PICK new :
              run' = [run EXCEPT ![w] = new] /\ new.stage \in {"pages", "over"}
        <4>1. CASE \E text \in BOOLEAN : NextPage(w, text)
          <5>1. PICK text \in BOOLEAN : NextPage(w, text)
            BY <4>1
          <5> DEFINE new == [run[w] EXCEPT !.stage = "pages", !.todo = Tail(run[w].todo),
                                           !.lines = run[w].lines \/ text]
          <5>2. run' = [run EXCEPT ![w] = new]
            BY <5>1 DEF NextPage, TypeOK
          <5>3. new.stage = "pages"
            BY DEF TypeOK, Runs
          <5> QED BY <5>2, <5>3
        <4>2. CASE Ends(w, "other")
          <5> DEFINE new == [run[w] EXCEPT !.stage = "over", !.outcome = "other"]
          <5>1. run' = [run EXCEPT ![w] = new]
            BY <4>2 DEF Ends, TypeOK
          <5>2. new.stage = "over"
            BY DEF TypeOK, Runs
          <5> QED BY <5>1, <5>2
        <4> QED BY <1>6, <4>1, <4>2 DEF OcrReturns
      <3> QED BY <3>1, <3>2, <3>3, ApartKept
    <2> QED BY <2>1, <2>2
  <1>7. ASSUME NEW w \in Threads, OcrTimesOut(w) PROVE Inv'
    <2>1. TypeOK'
      <3>1. run' = [run EXCEPT ![w] = [run[w] EXCEPT !.stage = "leaving"]]
        BY <1>7 DEF OcrTimesOut, TypeOK
      <3>2. [run[w] EXCEPT !.stage = "leaving"] \in Runs
        BY DEF TypeOK, Runs, Stages
      <3> QED BY <1>7, <3>1, <3>2 DEF OcrTimesOut, TypeOK
    <2>2. EnginesApart'
      BY <1>7 DEF OcrTimesOut, CallsOf, TypeOK, EnginesApart, Runs, Calls
    <2> QED BY <2>1, <2>2
  <1>8. ASSUME NEW w \in Threads, OcrEndsLate(w) PROVE Inv'
    <2>1. TypeOK'
      BY <1>8 DEF OcrEndsLate, CallsOf, TypeOK, Runs, Stages, Outcomes, ExtractionErrors, Hosts, Pages, Calls
    <2>2. EnginesApart'
      BY <1>8 DEF OcrEndsLate, CallsOf, TypeOK, EnginesApart, Runs, Calls
    <2> QED BY <2>1, <2>2
  <1>9. ASSUME NEW w \in Threads, LeavePool(w) PROVE Inv'
    <2>1. TypeOK'
      <3>1. Ends(w, "OcrTimeout") /\ "OcrTimeout" \in Outcomes
        BY <1>9 DEF LeavePool, Outcomes, ExtractionErrors
      <3> QED BY <1>9, <3>1, EndsTyped DEF LeavePool, TypeOK
    <2>2. EnginesApart'
      BY <1>9 DEF LeavePool, Ends, CallsOf, TypeOK, EnginesApart, Runs, Calls
    <2> QED BY <2>1, <2>2
  <1>10. ASSUME NEW w \in Threads, AskLlm(w) PROVE Inv'
    <2>1. TypeOK'
      <3> DEFINE tried == AttemptsNow(run[w].attempts, run[w].host)
                 next  == AfterHost(run[w].host)
                 new   == [run[w] EXCEPT !.stage = "asking", !.host = next,
                                         !.attempts = tried]
      <3>1. run[w] \in Runs /\ run[w].host \in Hosts /\ run[w].attempts \in Seq(Hosts)
        BY DEF TypeOK, Runs
      <3>2. tried \in Seq(Hosts) /\ next \in Hosts /\ "asking" \in Stages
        BY <3>1 DEF AttemptsNow, AfterHost, Hosts, Stages
      <3>3. run' = [run EXCEPT ![w] = new]
        BY <1>10 DEF AskLlm, TypeOK
      <3> HIDE DEF tried, next
      <3>4. new \in Runs
        BY <3>1, <3>2 DEF Runs
      <3> HIDE DEF new
      <3>5. run' \in [Threads -> Runs]
        BY <3>3, <3>4 DEF TypeOK
      <3> QED BY <1>10, <3>5 DEF AskLlm, TypeOK
    <2>2. EnginesApart'
      BY <1>10 DEF AskLlm, TypeOK, EnginesApart, Runs, Calls
    <2> QED BY <2>1, <2>2
  <1>11. ASSUME NEW w \in Threads, LlmSucceeds(w) PROVE Inv'
    <2>1. TypeOK'
      <3>1. \E how \in Outcomes : Ends(w, how)
        BY <1>11 DEF LlmSucceeds, Outcomes, ExtractionErrors
      <3> QED BY <1>11, <3>1, EndsTyped DEF LlmSucceeds, TypeOK
    <2>2. EnginesApart'
      BY <1>11 DEF LlmSucceeds, Ends, TypeOK, EnginesApart, Runs, Calls
    <2> QED BY <2>1, <2>2
  <1>12. ASSUME NEW w \in Threads, LlmFails(w) PROVE Inv'
    <2>1. TypeOK'
      <3>1. CASE Len(run[w].attempts) = MaxAttempts
        <4>1. Ends(w, "LLMFormat") /\ "LLMFormat" \in Outcomes
          BY <1>12, <3>1 DEF LlmFails, Outcomes, ExtractionErrors
        <4> QED BY <1>12, <4>1, EndsTyped DEF LlmFails, TypeOK
      <3>2. CASE Len(run[w].attempts) # MaxAttempts
        <4>1. PICK answered \in BOOLEAN :
                run' = [run EXCEPT ![w].stage = "llm",
                                   ![w].last = Recalled(@, Len(run[w].attempts), answered)]
          BY <1>12, <3>2 DEF LlmFails
        <4> DEFINE kept == Recalled(run[w].last, Len(run[w].attempts), answered)
                   new  == [run[w] EXCEPT !.stage = "llm", !.last = kept]
        <4>2. run' = [run EXCEPT ![w] = new]
          BY <4>1 DEF TypeOK
        <4>3. run[w] \in Runs /\ Len(run[w].attempts) \in Nat /\ "llm" \in Stages
          BY DEF TypeOK, Runs, Stages
        <4>4. kept \in [raw: Nat, error: Nat]
          BY <4>3 DEF Recalled
        <4> HIDE DEF kept
        <4>5. new \in Runs
          BY <4>3, <4>4 DEF Runs
        <4> HIDE DEF new
        <4> QED BY <1>12, <4>2, <4>5 DEF LlmFails, TypeOK
      <3> QED BY <3>1, <3>2
    <2>2. EnginesApart'
      <3>1. UNCHANGED <<engine, calls>> /\ run[w].stage = "asking"
        BY <1>12 DEF LlmFails
      <3>2. \A c \in calls' : c.thread # w
        BY <3>1 DEF EnginesApart
      <3>3. PICK new : run' = [run EXCEPT ![w] = new] /\ new.stage \in {"llm", "over"}
        <4>1. CASE Len(run[w].attempts) = MaxAttempts
          <5> DEFINE new == [run[w] EXCEPT !.stage = "over", !.outcome = "LLMFormat"]
          <5>1. run' = [run EXCEPT ![w] = new]
            BY <1>12, <4>1 DEF LlmFails, Ends, TypeOK
          <5>2. new.stage = "over"
            BY DEF TypeOK, Runs
          <5> QED BY <5>1, <5>2
        <4>2. CASE Len(run[w].attempts) # MaxAttempts
          <5>1. PICK answered \in BOOLEAN :
                  run' = [run EXCEPT ![w].stage = "llm",
                                     ![w].last = Recalled(@, Len(run[w].attempts), answered)]
            BY <1>12, <4>2 DEF LlmFails
          <5> DEFINE kept == Recalled(run[w].last, Len(run[w].attempts), answered)
                     new  == [run[w] EXCEPT !.stage = "llm", !.last = kept]
          <5>2. run' = [run EXCEPT ![w] = new]
            BY <5>1 DEF TypeOK
          <5> HIDE DEF kept
          <5>3. new.stage = "llm"
            BY DEF TypeOK, Runs
          <5> QED BY <5>2, <5>3
        <4> QED BY <4>1, <4>2
      <3> QED BY <3>1, <3>2, <3>3, ApartKept
    <2> QED BY <2>1, <2>2
  <1>13. ASSUME NEW w \in Threads, Dispose(w) PROVE Inv'
    <2>1. TypeOK'
      BY <1>13 DEF Dispose, TypeOK, Runs, Stages, Outcomes, ExtractionErrors, Hosts, Pages, Calls
    <2>2. EnginesApart'
      BY <1>13 DEF Dispose, TypeOK, EnginesApart, Runs, Calls
    <2> QED BY <2>1, <2>2
  <1>14. CASE Tick
    <2>1. TypeOK'
      BY <1>14 DEF Tick, TypeOK, Calls
    <2>2. EnginesApart'
      BY <1>14 DEF Tick, TypeOK, EnginesApart, Calls
    <2> QED BY <2>1, <2>2
  <1>15. CASE UNCHANGED vars
    BY <1>15 DEF vars, TypeOK, EnginesApart
  <1> QED
    BY <1>1, <1>2, <1>3, <1>4, <1>5, <1>6, <1>7, <1>8, <1>9, <1>10, <1>11, <1>12, <1>13, <1>14, <1>15 DEF Next, ThreadStep

LEMMA InvAlways == Spec => []Inv
  BY InvInit, InvStep, PTL DEF Spec

\* Every variable keeps to its type: in particular the host cycle stays
\* inside the list of hosts.
THEOREM TypeCorrect == Spec => []TypeOK
  BY InvAlways, PTL DEF Inv

\* No engine executes two OCR calls at once, timeouts included, however many
\* threads there are and whatever the timeout is: the executor's exit, which
\* waits for the call that timed out, is what makes it so.
THEOREM OneCallPerEngine == Spec => []EngineExclusive
  <1>1. Inv => EngineExclusive
    BY PipelineAssumption DEF Inv, TypeOK, EnginesApart, EngineExclusive, Calls
  <1> QED BY <1>1, InvAlways, PTL
-----------------------------------------------------------------------------
(* What the LLM is shown of its previous answer.                           *)

\* Nothing is recalled before the first request, and then at most the answer
\* of the latest one, with its own error.
Recollection(r) ==
  /\ r.stage \in {"pages", "waiting", "leaving"} => r.last = NoneYet
  /\ r.stage = "llm" =>
       r.last.raw = 0 \/ r.last = [raw |-> Len(r.attempts), error |-> Len(r.attempts)]

Recollections == \A w \in Threads : Recollection(run[w])

LEMMA RecollectionsKept == Inv /\ Recollections /\ [Next]_vars => Recollections'
  <1> SUFFICES ASSUME Inv, Recollections, [Next]_vars PROVE Recollections'
    OBVIOUS
  <1>0. run \in [Threads -> Runs]
    BY DEF Inv, TypeOK
  <1>1. ASSUME NEW w \in Threads, NEW new, run' = [run EXCEPT ![w] = new], Recollection(new)
        PROVE  Recollections'
    BY <1>0, <1>1 DEF Recollections
  <1>2. ASSUME NEW w \in Threads, Begin(w) PROVE Recollections'
    <2>1. PICK pages : run' = [run EXCEPT ![w] = [NoRun EXCEPT !.stage = "pages", !.todo = pages]]
      BY <1>2 DEF Begin
    <2> QED BY <1>1, <2>1 DEF Recollection, NoRun
  <1>3. ASSUME NEW w \in Threads, NEW text \in BOOLEAN, NextPage(w, text),
               run[w].stage \in {"pages", "waiting"}
        PROVE  Recollections'
    <2> DEFINE new == [run[w] EXCEPT !.stage = "pages", !.todo = Tail(run[w].todo),
                                     !.lines = run[w].lines \/ text]
    <2>1. run' = [run EXCEPT ![w] = new]
      BY <1>0, <1>3 DEF NextPage
    <2>2. new.stage = "pages" /\ new.last = run[w].last
      BY <1>0 DEF Runs
    <2>3. run[w].last = NoneYet
      BY <1>3 DEF Recollections, Recollection
    <2> HIDE DEF new
    <2> QED BY <1>1, <2>1, <2>2, <2>3 DEF Recollection
  <1>4. ASSUME NEW w \in Threads, NEW how, Ends(w, how) PROVE Recollections'
    BY <1>0, <1>4 DEF Ends, Recollections, Recollection, Runs
  <1>5. ASSUME NEW w \in Threads, NEW st, run' = [run EXCEPT ![w].stage = st],
               st \in {"idle", "waiting", "leaving"},
               st # "idle" => run[w].stage \in {"pages", "waiting"}
        PROVE  Recollections'
    BY <1>0, <1>5 DEF Recollections, Recollection, Runs
  <1>6. ASSUME NEW w \in Threads, PagesDone(w) PROVE Recollections'
    <2>1. CASE run[w].lines
      <3> DEFINE new == [run[w] EXCEPT !.stage = "llm", !.host = 1]
      <3>1. run' = [run EXCEPT ![w] = new]
        BY <1>0, <1>6, <2>1 DEF PagesDone
      <3>2. run[w].last = NoneYet
        BY <1>6 DEF PagesDone, Recollections, Recollection
      <3>3. new.stage = "llm" /\ new.last.raw = 0
        BY <1>0, <3>2 DEF Runs, NoneYet
      <3> HIDE DEF new
      <3> QED BY <1>1, <3>1, <3>3 DEF Recollection
    <2>2. CASE ~run[w].lines
      BY <1>4, <1>6, <2>2 DEF PagesDone
    <2> QED BY <2>1, <2>2
  <1>7. ASSUME NEW w \in Threads, AskLlm(w) PROVE Recollections'
    BY <1>0, <1>7 DEF AskLlm, Recollections, Recollection, Runs
  <1>8. ASSUME NEW w \in Threads, LlmFails(w) PROVE Recollections'
    <2>1. CASE Len(run[w].attempts) = MaxAttempts
      BY <1>4, <1>8, <2>1 DEF LlmFails
    <2>2. CASE Len(run[w].attempts) # MaxAttempts
      <3>1. PICK answered \in BOOLEAN :
              run' = [run EXCEPT ![w].stage = "llm",
                                 ![w].last = Recalled(@, Len(run[w].attempts), answered)]
        BY <1>8, <2>2 DEF LlmFails
      <3> QED BY <1>0, <3>1 DEF Recalled, Recollections, Recollection, Runs
    <2> QED BY <2>1, <2>2
  <1>9. CASE UNCHANGED run
    BY <1>9 DEF Recollections
  <1>10. ASSUME NEW w \in Threads, ThreadStep(w) PROVE Recollections'
    <2>1. CASE DigitalPage(w)
      BY <1>3, <2>1 DEF DigitalPage
    <2>2. CASE SubmitOcr(w) \/ OcrTimesOut(w) \/ Dispose(w)
      BY <1>5, <2>2 DEF SubmitOcr, OcrTimesOut, Dispose
    <2>3. CASE LeavePool(w)
      BY <1>4, <2>3 DEF LeavePool
    <2> QED BY <1>6, <1>7, <1>10, <2>1, <2>2, <2>3 DEF ThreadStep
  <1>11. ASSUME NEW w \in Threads, OcrReturns(w) PROVE Recollections'
    BY <1>3, <1>4, <1>11 DEF OcrReturns
  <1>12. ASSUME NEW w \in Threads, Breaks(w) \/ LlmSucceeds(w) PROVE Recollections'
    BY <1>4, <1>12 DEF Breaks, LlmSucceeds
  <1> QED
    BY <1>2, <1>8, <1>9, <1>10, <1>11, <1>12 DEF Next, OcrEndsLate, Tick, vars

\* A correction prompt never pairs an answer with the failure of another
\* request, however many requests failed with or without an answer.
THEOREM CorrectionsMatch == Spec => []CorrectionMatches
  <1>1. Init => Recollections
    BY DEF Init, Recollections, Recollection, NoRun
  <1>2. Init /\ [][Next]_vars => []Recollections
    BY <1>1, InvInit, InvStep, RecollectionsKept, PTL
  <1>3. Recollections => CorrectionMatches
    BY DEF Recollections, Recollection, CorrectionMatches, Quoted
  <1> QED BY <1>2, <1>3, PTL DEF Spec
-----------------------------------------------------------------------------
(* Which hosts a run asks.                                                 *)

\* The host of the request after the ones in attempts: the cycle of a new
\* client starts at the first host and goes on from the last one asked.
NextHost(attempts) ==
  IF attempts = <<>> THEN 1 ELSE AfterHost(attempts[Len(attempts)])

\* The requests of a run follow the cycle from its first host; a run that
\* gave up on the LLM has used all its attempts.
Cycling(r) ==
  /\ Len(r.attempts) <= MaxAttempts
  /\ \A i \in 1..Len(r.attempts) :
       r.attempts[i] = IF i = 1 THEN 1 ELSE AfterHost(r.attempts[i - 1])
  /\ r.stage \in {"pages", "waiting", "leaving"} => r.attempts = <<>>
  /\ r.stage = "llm" => Len(r.attempts) < MaxAttempts
  /\ r.stage \in {"llm", "asking"} => r.host = NextHost(r.attempts)
  /\ r.stage \notin {"over", "idle"} => r.outcome # "LLMFormat"
  /\ r.outcome = "LLMFormat" => Len(r.attempts) = MaxAttempts

CycleInv == \A w \in Threads : Cycling(run[w])

\* One more request keeps to the cycle.
LEMMA CycleGrows ==
  ASSUME NEW r \in Runs, Cycling(r), r.stage = "llm",
         NEW new \in Runs, new.stage = "asking", new.outcome = r.outcome,
         new.host = AfterHost(r.host), new.attempts = Append(r.attempts, r.host)
  PROVE  Cycling(new)
  <1> DEFINE n == Len(r.attempts)
  <1>1. /\ r.attempts \in Seq(Hosts) /\ r.host \in Hosts /\ n \in Nat
        /\ new.attempts \in Seq(Hosts)
    BY DEF Runs
  <1>2. /\ Len(new.attempts) = n + 1 /\ new.attempts[n + 1] = r.host
        /\ \A i \in 1..n : new.attempts[i] = r.attempts[i]
    BY <1>1
  <1>3. n + 1 <= MaxAttempts
    BY <1>1 DEF Cycling, MaxAttempts
  <1>4. r.host = IF n + 1 = 1 THEN 1 ELSE AfterHost(new.attempts[n])
    BY <1>1, <1>2 DEF Cycling, NextHost
  <1>5. \A i \in 1..(n + 1) :
          new.attempts[i] = IF i = 1 THEN 1 ELSE AfterHost(new.attempts[i - 1])
    <2> SUFFICES ASSUME NEW i \in 1..(n + 1)
                 PROVE  new.attempts[i] = IF i = 1 THEN 1 ELSE AfterHost(new.attempts[i - 1])
      OBVIOUS
    <2>1. CASE i = n + 1
      BY <1>1, <1>2, <1>4, <2>1
    <2>2. CASE i \in 1..n
      <3>1. i = 1 \/ i - 1 \in 1..n
        BY <1>1, <2>2
      <3>2. QED
        BY <1>2, <2>2, <3>1 DEF Cycling
    <2> QED BY <1>1, <2>1, <2>2
  <1>6. new.host = NextHost(new.attempts)
    BY <1>1, <1>2 DEF NextHost
  <1> QED BY <1>2, <1>3, <1>5, <1>6 DEF Cycling

\* A step that sends no request: the attempts stay, or the run begins anew.
LEMMA CycleStays ==
  ASSUME NEW r \in Runs, Cycling(r), NEW new \in Runs, new.attempts = r.attempts,
         new.stage \in {"pages", "waiting", "leaving"} =>
           r.stage \in {"pages", "waiting", "leaving"},
         new.stage # "asking", new.stage # "llm",
         new.stage \notin {"over", "idle"} => new.outcome # "LLMFormat",
         new.outcome = "LLMFormat" => Len(r.attempts) = MaxAttempts
  PROVE  Cycling(new)
  BY DEF Cycling

LEMMA CycleKept == Inv /\ Inv' /\ CycleInv /\ [Next]_vars => CycleInv'
  <1> SUFFICES ASSUME Inv, Inv', CycleInv, [Next]_vars PROVE CycleInv'
    OBVIOUS
  <1>0. run \in [Threads -> Runs] /\ run' \in [Threads -> Runs]
    BY DEF Inv, TypeOK
  <1>1. ASSUME NEW w \in Threads, NEW new, run' = [run EXCEPT ![w] = new], Cycling(new)
        PROVE  CycleInv'
    BY <1>0, <1>1 DEF CycleInv
  <1>2. ASSUME NEW w \in Threads, Begin(w) PROVE CycleInv'
    <2>1. PICK pages : run' = [run EXCEPT ![w] = [NoRun EXCEPT !.stage = "pages", !.todo = pages]]
      BY <1>2 DEF Begin
    <2> DEFINE new == [NoRun EXCEPT !.stage = "pages", !.todo = pages]
    <2>2. new.stage = "pages" /\ new.attempts = <<>> /\ new.outcome = "none"
      BY DEF NoRun
    <2>3. run' = [run EXCEPT ![w] = new]
      BY <2>1
    <2> HIDE DEF new
    <2>4. Cycling(new)
      BY <2>2 DEF Cycling, MaxAttempts
    <2> QED BY <1>1, <2>3, <2>4
  <1>3. ASSUME NEW w \in Threads, NEW text \in BOOLEAN, NextPage(w, text),
               run[w].stage \in {"pages", "waiting"}
        PROVE  CycleInv'
    <2> DEFINE new == [run[w] EXCEPT !.stage = "pages", !.todo = Tail(run[w].todo),
                                     !.lines = run[w].lines \/ text]
    <2>1. run' = [run EXCEPT ![w] = new] /\ run'[w] = new
      BY <1>0, <1>3 DEF NextPage
    <2>2. /\ new.stage = "pages" /\ new.attempts = run[w].attempts
          /\ new.outcome = run[w].outcome
      BY <1>0 DEF Runs
    <2>3. new \in Runs /\ run[w] \in Runs /\ Cycling(run[w])
      BY <1>0, <2>1 DEF CycleInv
    <2> HIDE DEF new
    <2>4. Cycling(new)
      BY <1>3, <2>2, <2>3 DEF Cycling
    <2> QED BY <1>1, <2>1, <2>4
  <1>4. ASSUME NEW w \in Threads, NEW how, Ends(w, how),
               how = "LLMFormat" => Len(run[w].attempts) = MaxAttempts
        PROVE  CycleInv'
    <2> DEFINE new == [run[w] EXCEPT !.stage = "over", !.outcome = how]
    <2>1. run' = [run EXCEPT ![w] = new] /\ run'[w] = new
      BY <1>0, <1>4 DEF Ends
    <2>2. new.stage = "over" /\ new.attempts = run[w].attempts /\ new.outcome = how
      BY <1>0 DEF Runs
    <2>3. new \in Runs /\ run[w] \in Runs /\ Cycling(run[w])
      BY <1>0, <2>1 DEF CycleInv
    <2> HIDE DEF new
    <2>4. Cycling(new)
      BY <1>4, <2>2, <2>3, CycleStays
    <2> QED BY <1>1, <2>1, <2>4
  <1>5. ASSUME NEW w \in Threads, NEW st, run' = [run EXCEPT ![w].stage = st],
               st \in {"idle", "waiting", "leaving"},
               st # "idle" => run[w].stage \in {"pages", "waiting"}
        PROVE  CycleInv'
    <2> DEFINE new == [run[w] EXCEPT !.stage = st]
    <2>1. run' = [run EXCEPT ![w] = new] /\ run'[w] = new
      BY <1>0, <1>5
    <2>2. /\ new.stage = st /\ new.attempts = run[w].attempts
          /\ new.outcome = run[w].outcome
      BY <1>0 DEF Runs
    <2>3. new \in Runs /\ run[w] \in Runs /\ Cycling(run[w])
      BY <1>0, <2>1 DEF CycleInv
    <2> HIDE DEF new
    <2>4. Cycling(new)
      BY <1>5, <2>2, <2>3 DEF Cycling
    <2> QED BY <1>1, <2>1, <2>4
  <1>6. ASSUME NEW w \in Threads, PagesDone(w) PROVE CycleInv'
    <2>1. CASE run[w].lines
      <3> DEFINE new == [run[w] EXCEPT !.stage = "llm", !.host = 1]
      <3>1. run' = [run EXCEPT ![w] = new] /\ run'[w] = new
        BY <1>0, <1>6, <2>1 DEF PagesDone
      <3>2. /\ new.stage = "llm" /\ new.host = 1 /\ new.attempts = run[w].attempts
            /\ new.outcome = run[w].outcome
        BY <1>0 DEF Runs
      <3>3. Cycling(run[w]) /\ run[w].stage = "pages"
        BY <1>6 DEF CycleInv, PagesDone
      <3> HIDE DEF new
      <3>4. Cycling(new)
        BY <3>2, <3>3 DEF Cycling, NextHost, MaxAttempts
      <3> QED BY <1>1, <3>1, <3>4
    <2>2. CASE ~run[w].lines
      BY <1>4, <1>6, <2>2 DEF PagesDone
    <2> QED BY <2>1, <2>2
  <1>7. ASSUME NEW w \in Threads, AskLlm(w) PROVE CycleInv'
    <2> DEFINE tried == AttemptsNow(run[w].attempts, run[w].host)
               next  == AfterHost(run[w].host)
               new   == [run[w] EXCEPT !.stage = "asking", !.host = next, !.attempts = tried]
    <2>1. run' = [run EXCEPT ![w] = new] /\ run'[w] = new
      BY <1>0, <1>7 DEF AskLlm
    <2>2. /\ new.stage = "asking" /\ new.host = next /\ new.attempts = tried
          /\ new.outcome = run[w].outcome
      <3> HIDE DEF tried, next
      <3> QED BY <1>0 DEF Runs
    <2>3. new \in Runs /\ run[w] \in Runs /\ Cycling(run[w]) /\ run[w].stage = "llm"
      BY <1>0, <1>7, <2>1 DEF CycleInv, AskLlm
    <2> HIDE DEF new
    <2>4. Cycling(new)
      BY <2>2, <2>3, CycleGrows DEF AttemptsNow
    <2> QED BY <1>1, <2>1, <2>4
  <1>8. ASSUME NEW w \in Threads, LlmFails(w) PROVE CycleInv'
    <2>1. CASE Len(run[w].attempts) = MaxAttempts
      BY <1>4, <1>8, <2>1 DEF LlmFails
    <2>2. CASE Len(run[w].attempts) # MaxAttempts
      <3>1. PICK answered \in BOOLEAN :
              run' = [run EXCEPT ![w].stage = "llm",
                                 ![w].last = Recalled(@, Len(run[w].attempts), answered)]
        BY <1>8, <2>2 DEF LlmFails
      <3> DEFINE kept == Recalled(run[w].last, Len(run[w].attempts), answered)
                 new  == [run[w] EXCEPT !.stage = "llm", !.last = kept]
      <3>2. run' = [run EXCEPT ![w] = new]
        BY <1>0, <3>1
      <3> HIDE DEF kept
      <3>3. /\ new.stage = "llm" /\ new.host = run[w].host
            /\ new.attempts = run[w].attempts /\ new.outcome = run[w].outcome
        BY <1>0 DEF Runs
      <3>4. Cycling(run[w]) /\ run[w].stage = "asking" /\ Len(run[w].attempts) \in Nat
        BY <1>0, <1>8 DEF CycleInv, LlmFails, Runs
      <3> HIDE DEF new
      <3>5. Len(run[w].attempts) < MaxAttempts
        <4> DEFINE n == Len(run[w].attempts)
        <4>1. n <= MaxAttempts /\ n \in Nat /\ n # MaxAttempts
          BY <2>2, <3>4 DEF Cycling
        <4> HIDE DEF n
        <4>2. n < MaxAttempts
          BY <4>1 DEF MaxAttempts
        <4> QED BY <4>2 DEF n
      <3>6. Cycling(new)
        BY <3>3, <3>4, <3>5 DEF Cycling
      <3> QED BY <1>1, <3>2, <3>6
    <2> QED BY <2>1, <2>2
  <1>9. CASE UNCHANGED run
    BY <1>9 DEF CycleInv
  <1>10. ASSUME NEW w \in Threads, ThreadStep(w) PROVE CycleInv'
    <2>1. CASE DigitalPage(w)
      BY <1>3, <2>1 DEF DigitalPage
    <2>2. CASE SubmitOcr(w) \/ OcrTimesOut(w) \/ Dispose(w)
      BY <1>5, <2>2 DEF SubmitOcr, OcrTimesOut, Dispose
    <2>3. CASE LeavePool(w)
      BY <1>4, <2>3 DEF LeavePool
    <2> QED BY <1>6, <1>7, <1>10, <2>1, <2>2, <2>3 DEF ThreadStep
  <1>11. ASSUME NEW w \in Threads, OcrReturns(w) PROVE CycleInv'
    BY <1>3, <1>4, <1>11 DEF OcrReturns
  <1>12. ASSUME NEW w \in Threads, Breaks(w) \/ LlmSucceeds(w) PROVE CycleInv'
    BY <1>4, <1>12 DEF Breaks, LlmSucceeds
  <1> QED
    BY <1>2, <1>8, <1>9, <1>10, <1>11, <1>12 DEF Next, OcrEndsLate, Tick, vars

LEMMA IntervalSize == ASSUME NEW n \in Nat, n >= 1 PROVE Cardinality(1..n) = n
  <1>1. Cardinality(1..n) = IF 1 > n THEN 0 ELSE n - 1 + 1
    BY FS_Interval
  <1> QED BY <1>1

\* Three requests along the cycle go to as many hosts as there are, at most
\* three.
LEMMA ThreeRequests ==
  ASSUME NEW r \in Runs, Cycling(r), Len(r.attempts) = MaxAttempts
  PROVE  Cardinality(Range(r.attempts))
           = IF NumHosts < MaxAttempts THEN NumHosts ELSE MaxAttempts
  <1> USE PipelineAssumption
  <1>1. r.attempts \in Seq(Hosts)
    BY DEF Runs
  <1>2. /\ r.attempts[1] = 1 /\ r.attempts[2] = AfterHost(1)
        /\ r.attempts[3] = AfterHost(AfterHost(1))
    <2>1. {1, 2, 3} \subseteq 1..Len(r.attempts)
      BY DEF MaxAttempts
    <2> QED BY <2>1 DEF Cycling
  <1>3. Range(r.attempts) = {r.attempts[1], r.attempts[2], r.attempts[3]}
    <2>1. DOMAIN r.attempts = {1, 2, 3}
      BY <1>1 DEF MaxAttempts
    <2> QED BY <2>1 DEF Range
  <1>4. CASE NumHosts < MaxAttempts
    <2>1. NumHosts = 1 \/ NumHosts = 2
      BY <1>4 DEF MaxAttempts
    <2>2. Range(r.attempts) = 1..NumHosts
      BY <1>2, <1>3, <2>1 DEF AfterHost
    <2> QED BY <1>4, <2>2, IntervalSize
  <1>5. CASE ~(NumHosts < MaxAttempts)
    <2>1. Range(r.attempts) = 1..MaxAttempts
      BY <1>2, <1>3, <1>5 DEF AfterHost, MaxAttempts
    <2>2. MaxAttempts \in Nat /\ MaxAttempts >= 1
      BY DEF MaxAttempts
    <2> QED BY <1>5, <2>1, <2>2, IntervalSize
  <1> QED BY <1>4, <1>5

\* A run that ends with an LLMFormatError has asked three different hosts, or
\* all of them where there are fewer.
THEOREM HostsExhausted == Spec => []AllHostsAsked
  <1>1. Init => CycleInv
    BY DEF Init, CycleInv, Cycling, NoRun, MaxAttempts
  <1>2. Init /\ [][Next]_vars => []CycleInv
    BY <1>1, InvInit, InvStep, CycleKept, PTL
  <1>3. Inv /\ CycleInv => AllHostsAsked
    BY ThreeRequests DEF Inv, TypeOK, CycleInv, Cycling, AllHostsAsked
  <1> QED BY <1>2, <1>3, InvAlways, PTL DEF Spec
=============================================================================
