----------------------------- MODULE MCJobQueue -----------------------------
(* Instances of JobQueue for TLC. *)
EXTENDS JobQueueRefinement, TLC

\* Tokens and threads are interchangeable (safety runs only).
Symmetry == Permutations(Tokens) \cup Permutations(Workers) \cup Permutations(Handlers)
=============================================================================
