---------------------------- MODULE MCDocuments ----------------------------
(* Instances of DocumentReads for TLC. *)
EXTENDS DocumentReads

\* Job ids are uuids: which one an upload draws makes no difference, so that
\* drawing them in order reaches every state up to a renaming of jobs.
InOrder == \A j, k \in Jobs : j < k /\ k \in used' => j \in used'

\* Bound: no retry request is under way while the client walks the list.  A
\* retry neither stores a row nor moves one.
NoRetryDuringWalk == listing'.step = "idle" \/ \A h \in Handlers : request'[h] = NoRequest

MCNext == ReadsNext /\ InOrder /\ NoRetryDuringWalk

MCSpec == ReadsInit /\ [][MCNext]_readVars /\ Fairness
=============================================================================
