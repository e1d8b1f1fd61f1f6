-------------------------- MODULE ApiServerProofs --------------------------
(* Proofs about ApiServer, for any number of clients, threads and          *)
(* connections.                                                            *)
EXTENDS ApiServer, FiniteSetTheorems, TLAPS

Threaded == {r \in Clients : step[r] \in InThread}

\* TypeOK without the two limits.
Shapes ==
  /\ step \in [Clients -> Steps]
  /\ turn \in [Clients -> {1, 2}]
  /\ holds \subseteq Clients /\ failed \subseteq Clients
  /\ loop \in Clients \cup {None}
  /\ \A r \in Clients : loop = r <=> step[r] = "reloading"

\* An upload gives its connection back with its commit, before the loop
\* takes it up again.
UploadsReleased ==
  \A r \in Uploads : step[r] = "returned" /\ r \notin failed => r \notin holds

Limits ==
  /\ Cardinality(holds) <= Connections
  /\ Cardinality(Threaded) <= Threads

Inv == Shapes /\ NoConnectionLost /\ UploadsReleased

USE DEF Clients, Goes, Twice

LEMMA InvInit == Init => Inv
BY ApiAssumption DEF Init, Inv, Shapes, NoConnectionLost, UploadsReleased, Steps, InThread

LEMMA InvNext == Inv /\ [Next]_vars => Inv'
<1> SUFFICES ASSUME Inv, [Next]_vars PROVE Inv'
  OBVIOUS
<1> USE ApiAssumption DEF Inv, Shapes, NoConnectionLost, UploadsReleased, Steps, InThread,
        Session, LoopFree
<1>1. CASE UNCHANGED vars
  BY <1>1 DEF vars
<1>2. ASSUME NEW r \in Clients, Accept(r) PROVE Inv'
  BY <1>2 DEF Accept
<1>3. ASSUME NEW r \in Clients, Dispatch(r) PROVE Inv'
  BY <1>3 DEF Dispatch
<1>4. ASSUME NEW r \in Clients, TakeUpload(r) PROVE Inv'
  BY <1>4 DEF TakeUpload
<1>5. ASSUME NEW r \in Clients, TakeAnswer(r) PROVE Inv'
  BY <1>5 DEF TakeAnswer
<1>6. ASSUME NEW r \in Clients, Validate(r) PROVE Inv'
  BY <1>6 DEF Validate
<1>7. ASSUME NEW r \in Clients, Resume(r) PROVE Inv'
  BY <1>7 DEF Resume
<1>8. ASSUME NEW r \in Clients, Respond(r) PROVE Inv'
  BY <1>8 DEF Respond
<1>9. ASSUME NEW r \in Clients, Connect(r) PROVE Inv'
  BY <1>9 DEF Connect
<1>10. ASSUME NEW r \in Clients, ConnectTimesOut(r) PROVE Inv'
  BY <1>10 DEF ConnectTimesOut
<1>11. ASSUME NEW r \in Clients, NextTurn(r) PROVE Inv'
  BY <1>11 DEF NextTurn
<1>12. ASSUME NEW r \in Clients, CommitUpload(r) PROVE Inv'
  BY <1>12 DEF CommitUpload
<1>13. ASSUME NEW r \in Clients, Finish(r) PROVE Inv'
  BY <1>13 DEF Finish
<1>14. ASSUME NEW r \in Clients, Raise(r) PROVE Inv'
  BY <1>14 DEF Raise
<1>15. ASSUME NEW r \in Clients, Close(r) PROVE Inv'
  BY <1>15 DEF Close
<1>16. ASSUME NEW r \in Clients, Reload(r) PROVE Inv'
  BY <1>16 DEF Reload
<1>17. ASSUME NEW r \in Clients, ReloadTimesOut(r) PROVE Inv'
  BY <1>17 DEF ReloadTimesOut
<1> QED
  BY <1>1, <1>2, <1>3, <1>4, <1>5, <1>6, <1>7, <1>8, <1>9, <1>10, <1>11, <1>12, <1>13,
     <1>14, <1>15, <1>16, <1>17 DEF Next, OnLoop, GoesOn, Work

LEMMA Invariance == Spec => []Inv
BY InvInit, InvNext, PTL DEF Spec

\* The cause of every cycle of waiting requests is that a connection is held
\* for a thread or the loop, never that one is held for another connection.
THEOREM NeverHoldAndWait == Spec => []NoHoldAndWait
<1>1. Inv => NoHoldAndWait
  BY DEF Inv, NoConnectionLost, Session, NoHoldAndWait, Waits
<1> QED
  BY <1>1, Invariance, PTL

\* get_db closes the session of every request, also of one that failed.
THEOREM ConnectionsComeBack == Spec => []NoConnectionLost
<1>1. Inv => NoConnectionLost
  BY DEF Inv
<1> QED
  BY <1>1, Invariance, PTL
-----------------------------------------------------------------------------
(* The two limits.                                                         *)

\* A set of clients that only loses members stays below its limit.
LEMMA Shrinks ==
  ASSUME NEW S \in SUBSET Clients, NEW T \in SUBSET S, NEW n \in Nat, Cardinality(S) <= n
  PROVE  Cardinality(T) <= n
<1>1. IsFiniteSet(S)
  BY ApiAssumption, FS_Subset
<1>2. Cardinality(S) \in Nat /\ Cardinality(T) \in Nat /\ Cardinality(T) <= Cardinality(S)
  BY <1>1, FS_Subset, FS_CardinalityType
<1> QED
  BY <1>2

\* One that is below its limit may take in another.
LEMMA Grows ==
  ASSUME NEW S \in SUBSET Clients, NEW r \in Clients, NEW n \in Nat, Cardinality(S) < n
  PROVE  Cardinality(S \cup {r}) <= n
<1>1. IsFiniteSet(S)
  BY ApiAssumption, FS_Subset
<1>2. Cardinality(S) \in Nat
  BY <1>1, FS_CardinalityType
<1>3. Cardinality(S \cup {r}) = IF r \in S THEN Cardinality(S) ELSE Cardinality(S) + 1
  BY <1>1, FS_AddElement
<1> QED
  BY <1>2, <1>3

LEMMA LimitsInit == Init => Limits
<1> SUFFICES ASSUME Init PROVE Limits
  OBVIOUS
<1>1. holds = {} /\ Threaded = {}
  BY DEF Init, Threaded, InThread
<1> QED
  BY <1>1, FS_EmptySet, ApiAssumption DEF Limits

LEMMA LimitsNext == Inv /\ Limits /\ [Next]_vars => Limits'
<1> SUFFICES ASSUME Inv, Limits, [Next]_vars PROVE Limits'
  OBVIOUS
<1>1. holds \subseteq Clients /\ Threaded \subseteq Clients /\ step \in [Clients -> Steps]
  BY DEF Inv, Shapes, Threaded
<1>2. Connections \in Nat /\ Threads \in Nat
  BY ApiAssumption
<1>3. ASSUME holds' \subseteq holds, Threaded' \subseteq Threaded PROVE Limits'
  BY <1>1, <1>2, <1>3, Shrinks DEF Limits
<1>4. ASSUME NEW r \in Clients, Dispatch(r) \/ Validate(r) PROVE Limits'
  <2>1. holds' = holds /\ Threaded' = Threaded \cup {r}
    BY <1>1, <1>4 DEF Dispatch, Validate, Threaded, InThread
  <2>2. Cardinality(Threaded) < Threads
    BY <1>4 DEF Dispatch, Validate, ThreadFree, Threaded
  <2> QED
    BY <1>1, <1>2, <2>1, <2>2, Grows DEF Limits
<1>5. ASSUME NEW r \in Clients, Connect(r) \/ Reload(r) PROVE Limits'
  <2>1. holds' = holds \cup {r} /\ Threaded' \subseteq Threaded
    BY <1>1, <1>5 DEF Connect, Reload, Threaded, InThread, Inv, Shapes
  <2>2. Cardinality(holds) < Connections
    BY <1>5 DEF Connect, Reload, ConnectionFree
  <2>3. Cardinality(holds') <= Connections
    BY <1>1, <1>2, <2>1, <2>2, Grows
  <2>4. Cardinality(Threaded') <= Threads
    BY <1>1, <1>2, <2>1, Shrinks DEF Limits
  <2> QED
    BY <2>3, <2>4 DEF Limits
<1>6. ASSUME NEW r \in Clients,
             Accept(r) \/ TakeUpload(r) \/ TakeAnswer(r) \/ Resume(r) \/ Respond(r)
      PROVE  Limits'
  <2>1. holds' = holds /\ Threaded' \subseteq Threaded
    BY <1>1, <1>6 DEF Accept, TakeUpload, TakeAnswer, Resume, Respond, Threaded, InThread
  <2> QED
    BY <2>1, <1>3
<1>7. ASSUME NEW r \in Clients, ConnectTimesOut(r) \/ Work(r) PROVE Limits'
  <2>1. holds' \subseteq holds /\ Threaded' \subseteq Threaded
    BY <1>1, <1>7 DEF ConnectTimesOut, Work, NextTurn, CommitUpload, Finish, Raise, Threaded,
       InThread
  <2> QED
    BY <2>1, <1>3
<1>8. ASSUME NEW r \in Clients, Close(r) \/ ReloadTimesOut(r) PROVE Limits'
  <2>1. holds' \subseteq holds /\ Threaded' \subseteq Threaded
    BY <1>1, <1>8 DEF Close, ReloadTimesOut, Threaded, InThread
  <2> QED
    BY <2>1, <1>3
<1>9. CASE UNCHANGED vars
  BY <1>3, <1>9 DEF vars, Threaded
<1> QED
  BY <1>4, <1>5, <1>6, <1>7, <1>8, <1>9 DEF Next, OnLoop, GoesOn

\* No more than pool_size + max_overflow connections are out and no more
\* threads run handlers than the limiter has tokens, whatever times out.
THEOREM LimitsKept == Spec => []TypeOK
<1>1. Inv /\ Limits => TypeOK
  BY DEF Inv, Shapes, Limits, Threaded, TypeOK
<1>2. Init /\ [][Next]_vars => [](Inv /\ Limits)
  BY InvInit, InvNext, LimitsInit, LimitsNext, PTL
<1> QED
  BY <1>1, <1>2, PTL DEF Spec
=============================================================================
