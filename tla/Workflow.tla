------------------------------- MODULE Workflow -------------------------------
(***************************************************************************)
(* What the stage loop promises about a project: its stages are begun in   *)
(* the order of the manifest, each one only when those before it are       *)
(* complete, none is completed twice, and the project is completed last.   *)
(***************************************************************************)
EXTENDS Naturals

CONSTANT StageCount
VARIABLES current,    \* the stage that was begun last
          completed,  \* the stages that are complete
          finished    \* whether the project is

Earlier(k) == 1..(k - 1)

WInit == current = 0 /\ completed = {} /\ finished = FALSE

BeginStage(k) ==
  /\ Earlier(k) \subseteq completed
  /\ current' = k
  /\ UNCHANGED <<completed, finished>>

FinishStage(k) ==
  /\ k \notin completed /\ Earlier(k) \subseteq completed
  /\ completed' = completed \cup {k}
  /\ UNCHANGED <<current, finished>>

FinishProject ==
  /\ completed = 1..StageCount
  /\ finished' = TRUE
  /\ UNCHANGED <<current, completed>>

WNext == \/ \E k \in 1..StageCount : BeginStage(k) \/ FinishStage(k)
         \/ FinishProject

WSpec == WInit /\ [][WNext]_<<current, completed, finished>>
=============================================================================
