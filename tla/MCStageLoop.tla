------------------------------ MODULE MCStageLoop ------------------------------
(* StageLoop with two stages; the first has a required validator of its      *)
(* taskgroup, the second one of the stage.                                   *)
EXTENDS StageLoop, TLC

MCRequired == [k \in Stages |-> IF k = 1 THEN {"PER_TASKGROUP"} ELSE {"PER_STAGE"}]

Symmetry == Permutations(StageIds) \cup Permutations(GroupIds)
              \cup Permutations(Sessions)
=============================================================================
