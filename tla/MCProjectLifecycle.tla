------------------------- MODULE MCProjectLifecycle -------------------------
(***************************************************************************)
(* Small instances of ProjectLifecycle for TLC.                            *)
(***************************************************************************)
EXTENDS ProjectLifecycle, TLC

\* Coroutines are interchangeable (in safety runs only).
Symmetry == Permutations(Jobs) \cup Permutations(Sessions)
=============================================================================
