----------------------------- MODULE MCEscalations -----------------------------
(* Escalations with the symmetry of its projects, rows and requests.         *)
EXTENDS Escalations, TLC

Symmetry == Permutations(Projects) \cup Permutations(DirectorItems)
              \cup Permutations(CeoItems) \cup Permutations(Requests)
=============================================================================
