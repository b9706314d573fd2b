----------------------------- MODULE MCBatchLoop -----------------------------
(***************************************************************************)
(* Small instances of BatchLoop for TLC.                                   *)
(***************************************************************************)
EXTENDS BatchLoop, TLC

\* The members of a set are interchangeable (in safety runs only).
Symmetry ==
  Permutations(Deliverables) \cup Permutations(Sessions) \cup Permutations(Calls)
=============================================================================
