--------------------------- MODULE StageLoop_proofs ---------------------------
(***************************************************************************)
(* Theorems about StageLoop, for any number of stages and any sets of      *)
(* sessions and rows: its types, the evidence of what it completes, and    *)
(* that it implements Workflow, all with sessions that overlap; and what   *)
(* holds besides as long as no two sessions have overlapped.               *)
(***************************************************************************)
EXTENDS StageLoop, TLAPS

-----------------------------------------------------------------------------
\* The steps that move a session keep its variables typed.
LEMMA MoveType ==
  ASSUME TypeOK, NEW s \in Sessions,
         Leave(s) \/ Advance(s) \/ \E at \in StepPc : Goto(s, at)
  PROVE  /\ pc' \in [Sessions -> StepPc \cup {"idle"}]
         /\ stage' \in [Sessions -> Stages]
         /\ sid' \in [Sessions -> StageIds \cup {Nothing}]
         /\ gid' \in [Sessions -> GroupIds \cup {Nothing}]
         /\ passed' \in [Sessions -> BOOLEAN]
<1>1. CASE Leave(s)
  BY <1>1, StageAssumption DEF Leave, TypeOK, Stages
<1>2. CASE Advance(s)
  <2>1. CASE stage[s] < StageCount
    <3>1. stage[s] + 1 \in Stages
      BY <2>1, StageAssumption DEF TypeOK, Stages
    <3> QED
      BY <1>2, <2>1, <3>1 DEF Advance, TypeOK, StepPc
  <2>2. CASE ~(stage[s] < StageCount)
    BY <1>2, <2>2 DEF Advance, TypeOK, StepPc
  <2> QED
    BY <2>1, <2>2
<1>3. CASE \E at \in StepPc : Goto(s, at)
  BY <1>3 DEF Goto, TypeOK
<1> QED
  BY <1>1, <1>2, <1>3

\* A change of one field of a taskgroup's row keeps the rows well typed.
LEMMA GroupRowType ==
  ASSUME TypeOK, NEW g,
         \/ groupRow' = [groupRow EXCEPT ![g].saved = TRUE]
         \/ groupRow' = [groupRow EXCEPT ![g].status = "COMPLETED"]
         \/ \E v \in Report : groupRow' = [groupRow EXCEPT ![g].report = v]
  PROVE  groupRow' \in [GroupIds -> [of: StageIds \cup {Nothing}, status: Status,
                                    saved: BOOLEAN, report: Report]]
<1> DEFINE Rows == [of: StageIds \cup {Nothing}, status: Status,
                    saved: BOOLEAN, report: Report]
<1>1. groupRow \in [GroupIds -> Rows]
  BY DEF TypeOK
<1>2. ASSUME NEW r \in Rows
      PROVE  /\ [r EXCEPT !.saved = TRUE] \in Rows
             /\ [r EXCEPT !.status = "COMPLETED"] \in Rows
             /\ \A v \in Report : [r EXCEPT !.report = v] \in Rows
  <2>1. [r EXCEPT !.saved = TRUE] \in Rows
    OBVIOUS
  <2>2. [r EXCEPT !.status = "COMPLETED"] \in Rows
    BY DEF Status
  <2>3. ASSUME NEW v \in Report PROVE [r EXCEPT !.report = v] \in Rows
    OBVIOUS
  <2> QED
    BY <2>1, <2>2, <2>3
<1> HIDE DEF Rows
<1>3. ASSUME NEW o \in Rows
      PROVE  [groupRow EXCEPT ![g] = o] \in [GroupIds -> Rows]
  BY <1>1
<1>4. CASE g \notin GroupIds
  BY <1>1, <1>4 DEF Rows
<1>5. CASE g \in GroupIds
  <2>1. PICK o \in Rows : groupRow' = [groupRow EXCEPT ![g] = o]
    BY <1>1, <1>2, <1>5
  <2> QED
    BY <1>3, <2>1 DEF Rows
<1> QED
  BY <1>4, <1>5

\* A change of one field of a stage's row keeps the rows well typed.
LEMMA StageRowType ==
  ASSUME TypeOK, NEW r,
         \/ stageRow' = [stageRow EXCEPT ![r].status = "COMPLETED"]
         \/ \E v \in Report : stageRow' = [stageRow EXCEPT ![r].report = v]
  PROVE  stageRow' \in [StageIds -> [stage: 0..StageCount, status: Status,
                                    report: Report]]
<1> DEFINE Rows == [stage: 0..StageCount, status: Status, report: Report]
<1>1. stageRow \in [StageIds -> Rows]
  BY DEF TypeOK
<1>2. ASSUME NEW q \in Rows
      PROVE  /\ [q EXCEPT !.status = "COMPLETED"] \in Rows
             /\ \A v \in Report : [q EXCEPT !.report = v] \in Rows
  <2>1. [q EXCEPT !.status = "COMPLETED"] \in Rows
    BY DEF Status
  <2>2. ASSUME NEW v \in Report PROVE [q EXCEPT !.report = v] \in Rows
    OBVIOUS
  <2> QED
    BY <2>1, <2>2
<1> HIDE DEF Rows
<1>3. ASSUME NEW o \in Rows
      PROVE  [stageRow EXCEPT ![r] = o] \in [StageIds -> Rows]
  BY <1>1
<1>4. CASE r \notin StageIds
  BY <1>1, <1>4 DEF Rows
<1>5. CASE r \in StageIds
  <2>1. PICK o \in Rows : stageRow' = [stageRow EXCEPT ![r] = o]
    BY <1>1, <1>2, <1>5
  <2> QED
    BY <1>3, <2>1 DEF Rows
<1> QED
  BY <1>4, <1>5

\* Every step of a stage keeps the types.
LEMMA StageStepType ==
  ASSUME TypeOK, NEW s \in Sessions, StageStep(s)
  PROVE  TypeOK'
<1>1. CASE FindStage(s)
  <2>1. CASE Leave(s) \/ Advance(s) \/ Goto(s, "insert")
    BY <1>1, <2>1, MoveType DEF FindStage, TypeOK, StepPc, rows, project, world
  <2>2. CASE /\ UNCHANGED <<stage, gid, passed>>
             /\ \E r \in StageIds : sid' = [sid EXCEPT ![s] = r]
             /\ pc' = [pc EXCEPT ![s] = "enter"]
    BY <1>1, <2>2 DEF FindStage, TypeOK, StepPc, rows, project, world
  <2> QED
    BY <1>1, <2>1, <2>2 DEF FindStage
<1>2. CASE InsertStage(s)
  BY <1>2 DEF InsertStage, TypeOK, StepPc, Status, Report, Stages, RowsOf,
              project, world
<1>3. CASE SetCurrentStage(s)
  BY <1>3, MoveType DEF SetCurrentStage, TypeOK, StepPc, Stages, rows, world
<1>4. CASE CreateTaskgroup(s)
  BY <1>4 DEF CreateTaskgroup, TypeOK, StepPc, Status, Report, GroupsOf,
              project, world
<1>5. CASE SetCurrentTaskgroup(s)
  BY <1>5, MoveType DEF SetCurrentTaskgroup, TypeOK, StepPc, rows, world
<1>6. CASE RunBatches(s)
  BY <1>6 DEF RunBatches, TypeOK, StepPc, rows, project
<1>7. CASE CheckpointTaskgroup(s)
  <2>1. Leave(s) \/ \E at \in StepPc : Goto(s, at)
    BY <1>7 DEF CheckpointTaskgroup, StepPc
  <2>2. groupRow' \in [GroupIds -> [of: StageIds \cup {Nothing}, status: Status,
                                    saved: BOOLEAN, report: Report]]
    BY <1>7, GroupRowType DEF CheckpointTaskgroup
  <2> QED
    BY <1>7, <2>1, <2>2, MoveType DEF CheckpointTaskgroup, TypeOK, project, world
<1>8. CASE ReadDeliverables(s) \/ CheckTaskgroup(s)
  <2>1. Leave(s) \/ \E at \in StepPc : Goto(s, at)
    BY <1>8 DEF ReadDeliverables, CheckTaskgroup, StepPc
  <2> QED
    BY <1>8, <2>1, MoveType
       DEF ReadDeliverables, CheckTaskgroup, TypeOK, rows, project, world
<1>9. CASE StoreTaskgroupReport(s)
  <2>1. \E at \in StepPc : Goto(s, at)
    BY <1>9 DEF StoreTaskgroupReport, StepPc
  <2>2. \E v \in Report : groupRow' = [groupRow EXCEPT ![gid[s]].report = v]
    BY <1>9 DEF StoreTaskgroupReport, Report
  <2>3. groupRow' \in [GroupIds -> [of: StageIds \cup {Nothing}, status: Status,
                                    saved: BOOLEAN, report: Report]]
    BY <2>2, GroupRowType
  <2> QED
    BY <1>9, <2>1, <2>3, MoveType
       DEF StoreTaskgroupReport, TypeOK, project, world
<1>10. CASE CompleteTaskgroup(s)
  <2>1. \E at \in StepPc : Goto(s, at)
    BY <1>10 DEF CompleteTaskgroup, StepPc
  <2>2. groupRow' \in [GroupIds -> [of: StageIds \cup {Nothing}, status: Status,
                                    saved: BOOLEAN, report: Report]]
    BY <1>10, GroupRowType DEF CompleteTaskgroup
  <2> QED
    BY <1>10, <2>1, <2>2, MoveType
       DEF CompleteTaskgroup, TypeOK, project, world
<1>11. CASE VerifyStage(s)
  BY <1>11 DEF VerifyStage, TypeOK, StepPc, rows, project, world
<1>12. CASE StoreStageReport(s)
  <2>1. \E at \in StepPc : Goto(s, at)
    BY <1>12 DEF StoreStageReport, StepPc
  <2>2. Verdict(GroupsOf(sid[s])) \in Report
    BY DEF Verdict, Report
  <2>3. stageRow' \in [StageIds -> [stage: 0..StageCount, status: Status,
                                    report: Report]]
    BY <1>12, <2>2, StageRowType DEF StoreStageReport
  <2> QED
    BY <1>12, <2>1, <2>3, MoveType
       DEF StoreStageReport, TypeOK, project, world
<1>13. CASE CompleteStage(s)
  <2>1. stageRow' \in [StageIds -> [stage: 0..StageCount, status: Status,
                                    report: Report]]
    BY <1>13, StageRowType DEF CompleteStage
  <2> QED
    BY <1>13, <2>1, MoveType DEF CompleteStage, TypeOK, project, world
<1>14. CASE CompleteProject(s)
  BY <1>14, MoveType DEF CompleteProject, TypeOK, rows, world
<1> QED
  BY <1>1, <1>2, <1>3, <1>4, <1>5, <1>6, <1>7, <1>8, <1>9, <1>10, <1>11, <1>12,
     <1>13, <1>14 DEF StageStep

LEMMA TypeStep == TypeOK /\ [Next]_vars => TypeOK'
<1> SUFFICES ASSUME TypeOK, [Next]_vars PROVE TypeOK'
  OBVIOUS
<1>1. CASE \E s \in Sessions : StageStep(s)
  BY <1>1, StageStepType
<1>2. ASSUME NEW s \in Sessions, StartLoop(s) PROVE TypeOK'
  <2>1. \E at \in StepPc : Goto(s, at)
    BY <1>2 DEF StartLoop, StepPc
  <2> QED
    BY <1>2, <2>1, MoveType DEF StartLoop, TypeOK, rows, project, world
<1>3. ASSUME NEW s \in Sessions, Interrupt(s) PROVE TypeOK'
  BY <1>3, MoveType DEF Interrupt, TypeOK, rows, project, world
<1>4. CASE ChangeDeliverables \/ ChangeEscalations
  BY <1>4 DEF ChangeDeliverables, ChangeEscalations, TypeOK, rows, project,
              sessionVars
<1>5. CASE UNCHANGED vars
  BY <1>5 DEF vars, TypeOK, rows, project, world, sessionVars
<1> QED
  BY <1>1, <1>2, <1>3, <1>4, <1>5 DEF Next

LEMMA TypeInit == Init => TypeOK
<1> SUFFICES ASSUME Init PROVE TypeOK
  OBVIOUS
<1>1. 0 \in 0..StageCount /\ 1 \in Stages
  BY StageAssumption DEF Stages
<1>2. /\ NoStageRow \in [stage: 0..StageCount, status: Status, report: Report]
      /\ NoGroupRow \in [of: StageIds \cup {Nothing}, status: Status,
                         saved: BOOLEAN, report: Report]
  BY <1>1 DEF NoStageRow, NoGroupRow, Status, Report
<1> QED
  BY <1>1, <1>2 DEF Init, TypeOK

\* TypeOK: the rows that the loop writes and every session's place in the
\* loop have their types in every reachable state.
THEOREM TypeCorrect == Spec => []TypeOK
  BY TypeInit, TypeStep, PTL DEF Spec

-----------------------------------------------------------------------------
(***************************************************************************)
(* Where a session is tells what its rows say.  Rows are only ever added   *)
(* to: nobody takes back what a row says, whoever else writes it.          *)
(***************************************************************************)
Working == StepPc \ {"find", "insert", "finish"}
Inside == Working \ {"enter", "open"}

\* A session that works on a stage has the keys of its rows.
Placed(s) ==
  /\ pc[s] \in Working =>
       sid[s] \in StageIds /\ stageRow[sid[s]].stage = stage[s]
  /\ pc[s] \in Inside =>
       gid[s] \in GroupIds /\ groupRow[gid[s]].of = sid[s]

\* What it has already written is there.
Evident(s) ==
  /\ pc[s] \in Inside \ {"point", "batches", "save"} => groupRow[gid[s]].saved
  /\ pc[s] \in {"close", "verify", "aggregate", "complete"} =>
       groupRow[gid[s]].report # "none"
  /\ pc[s] \in {"verify", "aggregate", "complete"} =>
       groupRow[gid[s]].status = "COMPLETED"
  /\ pc[s] = "complete" => stageRow[sid[s]].report # "none"

\* The stages behind it are complete.
Ordered(s) ==
  /\ pc[s] = "idle" => stage[s] = 1
  /\ pc[s] # "idle" => \A k \in Stages : k < stage[s] => k \in Completed
  /\ pc[s] = "finish" => Stages \subseteq Completed

FreeInv == \A r \in StageIds : stageRow[r].stage = 0 => stageRow[r] = NoStageRow

LoopInv == /\ TypeOK /\ FreeInv
           /\ \A s \in Sessions : Placed(s) /\ Evident(s) /\ Ordered(s)
           /\ CompletedHasEvidence

\* What a step keeps of the rows.
RowsKept ==
  /\ \A r \in StageIds :
       /\ stageRow[r].stage # 0 => stageRow'[r].stage = stageRow[r].stage
       /\ stageRow[r].status = "COMPLETED" => stageRow'[r].status = "COMPLETED"
       /\ stageRow[r].report # "none" => stageRow'[r].report # "none"
  /\ \A g \in GroupIds :
       groupRow[g].of # Nothing =>
         /\ groupRow'[g].of = groupRow[g].of
         /\ groupRow[g].saved => groupRow'[g].saved
         /\ groupRow[g].status = "COMPLETED" => groupRow'[g].status = "COMPLETED"
         /\ groupRow[g].report # "none" => groupRow'[g].report # "none"

\* The actions that leave the rows alone.
LEMMA RowsUnchanged ==
  ASSUME NEW s \in Sessions,
         \/ FindStage(s) \/ SetCurrentStage(s) \/ SetCurrentTaskgroup(s)
         \/ RunBatches(s) \/ ReadDeliverables(s) \/ CheckTaskgroup(s)
         \/ VerifyStage(s) \/ CompleteProject(s) \/ StartLoop(s) \/ Interrupt(s)
  PROVE  UNCHANGED rows
BY DEF FindStage, SetCurrentStage, SetCurrentTaskgroup, RunBatches,
       ReadDeliverables, CheckTaskgroup, VerifyStage, CompleteProject, StartLoop,
       Interrupt

LEMMA RowsKeptStep == ASSUME LoopInv, [Next]_vars PROVE RowsKept
<1>1. CASE UNCHANGED rows
  BY <1>1 DEF rows, RowsKept
<1>2. ASSUME NEW s \in Sessions, InsertStage(s) PROVE RowsKept
  BY <1>2 DEF InsertStage, RowsKept, LoopInv, TypeOK, FreeInv, NoStageRow, RowsOf
<1>3. ASSUME NEW s \in Sessions, CreateTaskgroup(s) PROVE RowsKept
  BY <1>3 DEF CreateTaskgroup, RowsKept, LoopInv, TypeOK, GroupsOf
<1>4. ASSUME NEW s \in Sessions, CheckpointTaskgroup(s) PROVE RowsKept
  BY <1>4 DEF CheckpointTaskgroup, RowsKept, LoopInv, TypeOK
<1>5. ASSUME NEW s \in Sessions, StoreTaskgroupReport(s) PROVE RowsKept
  <2>1. PICK v \in {"pass", "fail"} :
          groupRow' = [groupRow EXCEPT ![gid[s]].report = v]
    BY <1>5 DEF StoreTaskgroupReport
  <2> QED
    BY <1>5, <2>1 DEF StoreTaskgroupReport, RowsKept, LoopInv, TypeOK
<1>6. ASSUME NEW s \in Sessions, CompleteTaskgroup(s) PROVE RowsKept
  BY <1>6 DEF CompleteTaskgroup, RowsKept, LoopInv, TypeOK
<1>7. ASSUME NEW s \in Sessions, StoreStageReport(s) PROVE RowsKept
  <2>1. Verdict(GroupsOf(sid[s])) # "none"
    BY DEF Verdict
  <2> QED
    BY <1>7, <2>1 DEF StoreStageReport, RowsKept, LoopInv, TypeOK
<1>8. ASSUME NEW s \in Sessions, CompleteStage(s) PROVE RowsKept
  BY <1>8 DEF CompleteStage, RowsKept, LoopInv, TypeOK
<1>9. CASE ChangeDeliverables \/ ChangeEscalations \/ UNCHANGED vars
  BY <1>9, <1>1 DEF ChangeDeliverables, ChangeEscalations, vars
<1> QED
  BY <1>1, <1>2, <1>3, <1>4, <1>5, <1>6, <1>7, <1>8, <1>9, RowsUnchanged
     DEF Next, StageStep

LEMMA CompletedKept ==
  ASSUME LoopInv, RowsKept PROVE Completed \subseteq Completed'
BY DEF Completed, RowsOf, RowsKept, Stages

\* What a session knows stays true when another one steps.
LEMMA OthersKept ==
  ASSUME LoopInv, RowsKept, NEW t \in Sessions,
         pc'[t] = pc[t], stage'[t] = stage[t], sid'[t] = sid[t], gid'[t] = gid[t]
  PROVE  Placed(t)' /\ Evident(t)' /\ Ordered(t)'
<1>1. Placed(t)'
  <2>1. stage[t] # 0
    BY DEF LoopInv, TypeOK, Stages
  <2>2. Placed(t)
    BY DEF LoopInv
  <2>3. Inside \subseteq Working
    BY DEF Inside
  <2> QED
    BY <2>1, <2>2, <2>3, KeyAssumption DEF Placed, RowsKept
<1>2. Evident(t)'
  <2>1. Placed(t) /\ Evident(t)
    BY DEF LoopInv
  <2> QED
    BY <2>1, KeyAssumption DEF Placed, Evident, RowsKept, Working, Inside, StepPc
<1>3. Ordered(t)'
  BY CompletedKept DEF LoopInv, Ordered
<1> QED
  BY <1>1, <1>2, <1>3

LEMMA SessionFrame ==
  ASSUME TypeOK, NEW s \in Sessions, StageStep(s) \/ StartLoop(s) \/ Interrupt(s)
  PROVE  \A t \in Sessions \ {s} :
           /\ pc'[t] = pc[t] /\ stage'[t] = stage[t]
           /\ sid'[t] = sid[t] /\ gid'[t] = gid[t]
<1>1. CASE Leave(s) \/ Advance(s) \/ \E at \in StepPc : Goto(s, at)
  BY <1>1 DEF Leave, Advance, Goto, TypeOK
<1>2. CASE InsertStage(s) \/ CreateTaskgroup(s) \/ RunBatches(s) \/ VerifyStage(s)
  BY <1>2 DEF InsertStage, CreateTaskgroup, RunBatches, VerifyStage, TypeOK
<1>3. CASE FindStage(s)
  BY <1>3, <1>1 DEF FindStage, TypeOK, StepPc
<1>4. CASE StartLoop(s) \/ Interrupt(s) \/ SetCurrentStage(s)
           \/ SetCurrentTaskgroup(s) \/ CheckpointTaskgroup(s)
           \/ ReadDeliverables(s) \/ CheckTaskgroup(s)
  BY <1>4, <1>1 DEF StartLoop, Interrupt, SetCurrentStage, SetCurrentTaskgroup,
                   CheckpointTaskgroup, ReadDeliverables, CheckTaskgroup, StepPc
<1>5. CASE StoreTaskgroupReport(s) \/ CompleteTaskgroup(s) \/ StoreStageReport(s)
           \/ CompleteStage(s) \/ CompleteProject(s)
  BY <1>5, <1>1 DEF StoreTaskgroupReport, CompleteTaskgroup, StoreStageReport,
                   CompleteStage, CompleteProject, StepPc
<1> QED
  BY <1>2, <1>3, <1>4, <1>5 DEF StageStep

\* To leave the loop is to know nothing.
LEMMA LeaveKnows ==
  ASSUME TypeOK, NEW s \in Sessions, Leave(s)
  PROVE  Placed(s)' /\ Evident(s)' /\ Ordered(s)'
<1>1. pc'[s] = "idle" /\ stage'[s] = 1
  BY DEF Leave, TypeOK
<1> QED
  BY <1>1 DEF Placed, Evident, Ordered, Working, Inside, StepPc

\* To advance past a stage takes that it is complete.
LEMMA AdvanceKnows ==
  ASSUME LoopInv, RowsKept, NEW s \in Sessions, Advance(s), pc[s] # "idle",
         stage[s] \in Completed'
  PROVE  Placed(s)' /\ Evident(s)' /\ Ordered(s)'
<1>1. ASSUME NEW k \in Stages, k <= stage[s] PROVE k \in Completed'
  <2>1. k < stage[s] => k \in Completed
    BY DEF LoopInv, Ordered
  <2>2. k < stage[s] \/ k = stage[s]
    BY <1>1, StageAssumption DEF LoopInv, TypeOK, Stages
  <2> QED
    BY <2>1, <2>2, CompletedKept
<1>2. CASE stage[s] < StageCount
  <2>1. pc'[s] = "find" /\ stage'[s] = stage[s] + 1
    BY <1>2 DEF Advance, LoopInv, TypeOK
  <2>2. \A k \in Stages : k < stage'[s] => k \in Completed'
    BY <2>1, <1>1 DEF LoopInv, TypeOK, Stages
  <2> QED
    BY <2>1, <2>2 DEF Placed, Evident, Ordered, Working, Inside, StepPc
<1>3. CASE ~(stage[s] < StageCount)
  <2>1. pc'[s] = "finish" /\ stage'[s] = stage[s]
    BY <1>3 DEF Advance, LoopInv, TypeOK
  <2>2. \A k \in Stages : k \in Completed'
    BY <1>3, <1>1, StageAssumption DEF LoopInv, TypeOK, Stages
  <2> QED
    BY <2>1, <2>2 DEF Placed, Evident, Ordered, Working, Inside, StepPc
<1> QED
  BY <1>2, <1>3

\* The step of a session inside a stage.
LEMMA WorkingKnows ==
  ASSUME LoopInv, RowsKept, NEW s \in Sessions, StageStep(s), ~Leave(s),
         ~Advance(s)
  PROVE  Placed(s)' /\ Evident(s)'
<1>0. TypeOK /\ Placed(s) /\ Evident(s)
  BY DEF LoopInv
<1>1. CASE FindStage(s)
  <2>1. CASE pc'[s] = "insert"
    BY <2>1 DEF Placed, Evident, Working, Inside, StepPc
  <2>2. CASE pc'[s] # "insert"
    <3>1. PICK r \in StageIds : /\ RowsOf(stage[s]) = {r}
                                /\ sid' = [sid EXCEPT ![s] = r]
                                /\ pc' = [pc EXCEPT ![s] = "enter"]
                                /\ UNCHANGED <<stage, stageRow>>
      BY <1>0, <1>1, <2>2 DEF FindStage, Goto, rows, TypeOK
    <3>2. stageRow[r].stage = stage[s]
      BY <3>1 DEF RowsOf
    <3> QED
      BY <1>0, <3>1, <3>2 DEF Placed, Evident, Working, Inside, StepPc, TypeOK
  <2> QED
    BY <2>1, <2>2
<1>2. CASE InsertStage(s)
  BY <1>0, <1>2 DEF InsertStage, Placed, Evident, Working, Inside, StepPc,
                    TypeOK, RowsOf
<1>3. CASE SetCurrentStage(s)
  BY <1>0, <1>3 DEF SetCurrentStage, Goto, Placed, Evident, Working, Inside,
                    StepPc, TypeOK, rows
<1>4. CASE CreateTaskgroup(s)
  BY <1>0, <1>4 DEF CreateTaskgroup, Placed, Evident, Working, Inside, StepPc,
                    TypeOK, GroupsOf
<1>5. CASE SetCurrentTaskgroup(s)
  BY <1>0, <1>5 DEF SetCurrentTaskgroup, Goto, Placed, Evident, Working, Inside,
                    StepPc, TypeOK, rows
<1>6. CASE RunBatches(s)
  BY <1>0, <1>6 DEF RunBatches, Placed, Evident, Working, Inside, StepPc,
                    TypeOK, rows
<1>7. CASE CheckpointTaskgroup(s)
  BY <1>0, <1>7 DEF CheckpointTaskgroup, Goto, Placed, Evident, Working, Inside,
                    StepPc, TypeOK
<1>8. CASE ReadDeliverables(s) \/ CheckTaskgroup(s)
  BY <1>0, <1>8 DEF ReadDeliverables, CheckTaskgroup, Goto, Placed, Evident,
                    Working, Inside, StepPc, TypeOK, rows
<1>9. CASE StoreTaskgroupReport(s)
  <2>1. PICK v \in {"pass", "fail"} :
          groupRow' = [groupRow EXCEPT ![gid[s]].report = v]
    BY <1>9 DEF StoreTaskgroupReport
  <2> QED
    BY <1>0, <1>9, <2>1 DEF StoreTaskgroupReport, Goto, Placed, Evident, Working,
                            Inside, StepPc, TypeOK
<1>10. CASE CompleteTaskgroup(s)
  BY <1>0, <1>10 DEF CompleteTaskgroup, Goto, Placed, Evident, Working, Inside,
                     StepPc, TypeOK
<1>11. CASE VerifyStage(s)
  BY <1>0, <1>11 DEF VerifyStage, Placed, Evident, Working, Inside, StepPc,
                     TypeOK, rows
<1>12. CASE StoreStageReport(s)
  <2>1. Verdict(GroupsOf(sid[s])) # "none"
    BY DEF Verdict
  <2> QED
    BY <1>0, <1>12, <2>1 DEF StoreStageReport, Goto, Placed, Evident, Working,
                             Inside, StepPc, TypeOK
<1>13. CASE CompleteStage(s) \/ CompleteProject(s)
  BY <1>13 DEF CompleteStage, CompleteProject
<1> QED
  BY <1>1, <1>2, <1>3, <1>4, <1>5, <1>6, <1>7, <1>8, <1>9, <1>10, <1>11, <1>12,
     <1>13 DEF StageStep

LEMMA WorkingOrdered ==
  ASSUME LoopInv, RowsKept, NEW s \in Sessions, StageStep(s), ~Leave(s),
         ~Advance(s)
  PROVE  Ordered(s)'
<1>1. stage' = stage /\ pc[s] # "idle" /\ pc'[s] \notin {"idle", "finish"}
  <2>1. CASE FindStage(s)
    BY <2>1 DEF FindStage, Goto, LoopInv, TypeOK
  <2>2. CASE ~FindStage(s)
    BY <2>2 DEF StageStep, InsertStage, SetCurrentStage, CreateTaskgroup,
                SetCurrentTaskgroup, RunBatches, CheckpointTaskgroup,
                ReadDeliverables, CheckTaskgroup, StoreTaskgroupReport,
                CompleteTaskgroup, VerifyStage, StoreStageReport, CompleteStage,
                CompleteProject, Goto, LoopInv, TypeOK
  <2> QED
    BY <2>1, <2>2
<1> QED
  BY <1>1, CompletedKept DEF LoopInv, Ordered

-----------------------------------------------------------------------------
(***************************************************************************)
(* The invariant of the loop, step by step.                                *)
(***************************************************************************)
LEMMA EndKnows ==
  ASSUME LoopInv, RowsKept, NEW s \in Sessions, StageStep(s), Advance(s)
  PROVE  stage[s] \in Completed' /\ pc[s] # "idle"
<1>0. TypeOK /\ Placed(s) /\ pc'[s] \in {"find", "finish"}
  BY DEF LoopInv, TypeOK, Advance
<1>1. CASE FindStage(s)
  <2>1. PICK r \in StageIds :
          RowsOf(stage[s]) = {r} /\ stageRow[r].status = "COMPLETED"
    BY <1>0, <1>1 DEF FindStage, Goto, Leave, TypeOK
  <2>2. stage[s] \in Completed
    BY <1>0, <2>1 DEF Completed, TypeOK
  <2> QED
    BY <1>1, <2>2, CompletedKept DEF FindStage
<1>2. CASE CompleteStage(s)
  <2>1. sid[s] \in StageIds /\ stageRow[sid[s]].stage = stage[s]
    BY <1>0, <1>2 DEF CompleteStage, Placed, Working, StepPc
  <2>2. stageRow'[sid[s]].stage = stage[s] /\ stageRow'[sid[s]].status = "COMPLETED"
    BY <1>0, <1>2, <2>1 DEF CompleteStage, TypeOK
  <2> QED
    BY <1>0, <1>2, <2>1, <2>2 DEF CompleteStage, Completed, RowsOf, TypeOK
<1>3. CASE ~FindStage(s) /\ ~CompleteStage(s)
  BY <1>0, <1>3 DEF StageStep, InsertStage, SetCurrentStage, CreateTaskgroup,
                SetCurrentTaskgroup, RunBatches, CheckpointTaskgroup,
                ReadDeliverables, CheckTaskgroup, StoreTaskgroupReport,
                CompleteTaskgroup, VerifyStage, StoreStageReport,
                CompleteProject, Goto, Leave, TypeOK
<1> QED
  BY <1>1, <1>2, <1>3

LEMMA KnowsStep ==
  ASSUME LoopInv, RowsKept, NEW s \in Sessions,
         StageStep(s) \/ StartLoop(s) \/ Interrupt(s)
  PROVE  \A t \in Sessions : Placed(t)' /\ Evident(t)' /\ Ordered(t)'
<1>1. ASSUME NEW t \in Sessions \ {s}
      PROVE  Placed(t)' /\ Evident(t)' /\ Ordered(t)'
  BY SessionFrame, OthersKept DEF LoopInv
<1>2. Placed(s)' /\ Evident(s)' /\ Ordered(s)'
  <2>1. CASE Leave(s)
    BY <2>1, LeaveKnows DEF LoopInv
  <2>2. CASE StageStep(s) /\ Advance(s)
    BY <2>2, EndKnows, AdvanceKnows
  <2>3. CASE StageStep(s) /\ ~Advance(s) /\ ~Leave(s)
    BY <2>3, WorkingKnows, WorkingOrdered
  <2>4. CASE StartLoop(s)
    <3>1. pc'[s] = "find" /\ stage'[s] = stage[s]
      BY <2>4 DEF StartLoop, Goto, LoopInv, TypeOK
    <3>2. stage[s] = 1
      BY <2>4 DEF StartLoop, LoopInv, Ordered
    <3> QED
      BY <3>1, <3>2, StageAssumption DEF Placed, Evident, Ordered, Working, Inside, StepPc, Stages
  <2> QED
    BY <2>1, <2>2, <2>3, <2>4 DEF Interrupt
<1> QED
  BY <1>1, <1>2

\* A row that appears is a new one, and only CompleteStage completes one.
LEMMA FreeStep ==
  ASSUME LoopInv, [Next]_vars PROVE FreeInv'
<1>1. CASE UNCHANGED stageRow
  BY <1>1 DEF LoopInv, FreeInv
<1>2. ASSUME NEW s \in Sessions, InsertStage(s) PROVE FreeInv'
  BY <1>2, StageAssumption DEF InsertStage, LoopInv, FreeInv, TypeOK, Stages
<1>3. ASSUME NEW s \in Sessions, StoreStageReport(s) \/ CompleteStage(s)
      PROVE  FreeInv'
  <2>1. sid[s] \in StageIds /\ stageRow[sid[s]].stage = stage[s]
    BY <1>3 DEF StoreStageReport, CompleteStage, LoopInv, Placed, Working, StepPc
  <2>2. stage[s] # 0
    BY DEF LoopInv, TypeOK, Stages
  <2> QED
    BY <1>3, <2>1, <2>2
       DEF StoreStageReport, CompleteStage, LoopInv, FreeInv, TypeOK
<1>4. CASE ChangeDeliverables \/ ChangeEscalations \/ UNCHANGED vars
  BY <1>4, <1>1 DEF ChangeDeliverables, ChangeEscalations, vars, rows
<1>5. ASSUME NEW s \in Sessions,
             \/ CreateTaskgroup(s) \/ CheckpointTaskgroup(s)
             \/ StoreTaskgroupReport(s) \/ CompleteTaskgroup(s)
      PROVE  FreeInv'
  BY <1>5, <1>1 DEF CreateTaskgroup, CheckpointTaskgroup, StoreTaskgroupReport,
                    CompleteTaskgroup
<1> QED
  BY <1>1, <1>2, <1>3, <1>4, <1>5, RowsUnchanged DEF Next, StageStep, rows

LEMMA EvidenceStep ==
  ASSUME LoopInv, RowsKept, [Next]_vars PROVE CompletedHasEvidence'
<1> SUFFICES ASSUME NEW r \in StageIds, stageRow'[r].status = "COMPLETED"
             PROVE  /\ stageRow'[r].report # "none"
                    /\ \E g \in GroupIds :
                         /\ groupRow'[g].of = r
                         /\ groupRow'[g].status = "COMPLETED"
                         /\ groupRow'[g].saved
                         /\ groupRow'[g].report # "none"
  BY DEF CompletedHasEvidence, GroupsOf
<1>1. CASE stageRow[r].status = "COMPLETED"
  <2>1. PICK g \in GroupIds : /\ groupRow[g].of = r
                             /\ groupRow[g].status = "COMPLETED"
                             /\ groupRow[g].saved
                             /\ groupRow[g].report # "none"
    BY <1>1 DEF LoopInv, CompletedHasEvidence, GroupsOf
  <2>2. stageRow[r].report # "none"
    BY <1>1 DEF LoopInv, CompletedHasEvidence
  <2> QED
    BY <2>1, <2>2, KeyAssumption DEF RowsKept
<1>2. CASE stageRow[r].status # "COMPLETED"
  <2>1. PICK s \in Sessions : CompleteStage(s) /\ sid[s] = r
    <3>1. stageRow' # stageRow
      BY <1>2
    <3>2. PICK s \in Sessions :
            InsertStage(s) \/ StoreStageReport(s) \/ CompleteStage(s)
      BY <3>1, RowsUnchanged
         DEF Next, StageStep, rows, CreateTaskgroup, CheckpointTaskgroup,
             StoreTaskgroupReport, CompleteTaskgroup, ChangeDeliverables,
             ChangeEscalations, vars
    <3>3. ~InsertStage(s)
      BY <1>2 DEF InsertStage, LoopInv, TypeOK
    <3>4. ~StoreStageReport(s)
      BY <1>2 DEF StoreStageReport, LoopInv, TypeOK
    <3> QED
      BY <1>2, <3>2, <3>3, <3>4 DEF CompleteStage, LoopInv, TypeOK
  <2>2. /\ pc[s] = "complete" /\ groupRow' = groupRow
        /\ stageRow' = [stageRow EXCEPT ![r].status = "COMPLETED"]
    BY <2>1 DEF CompleteStage
  <2>3. /\ gid[s] \in GroupIds /\ groupRow[gid[s]].of = r
        /\ groupRow[gid[s]].status = "COMPLETED"
        /\ groupRow[gid[s]].saved /\ groupRow[gid[s]].report # "none"
        /\ stageRow[r].report # "none"
    BY <2>1, <2>2 DEF LoopInv, Placed, Evident, Working, Inside, StepPc
  <2> QED
    BY <2>2, <2>3 DEF LoopInv, TypeOK
<1> QED
  BY <1>1, <1>2

LEMMA LoopInvInit == Init => LoopInv
<1> SUFFICES ASSUME Init PROVE LoopInv
  OBVIOUS
<1>1. TypeOK
  BY TypeInit
<1>2. FreeInv /\ CompletedHasEvidence
  BY DEF Init, FreeInv, CompletedHasEvidence, NoStageRow
<1>3. \A s \in Sessions : Placed(s) /\ Evident(s) /\ Ordered(s)
  BY DEF Init, Placed, Evident, Ordered, Working, Inside, StepPc
<1> QED
  BY <1>1, <1>2, <1>3 DEF LoopInv

LEMMA LoopInvStep == LoopInv /\ [Next]_vars => LoopInv'
<1> SUFFICES ASSUME LoopInv, [Next]_vars PROVE LoopInv'
  OBVIOUS
<1>1. RowsKept
  BY RowsKeptStep
<1>2. \A s \in Sessions : Placed(s)' /\ Evident(s)' /\ Ordered(s)'
  <2>1. CASE \E s \in Sessions : StageStep(s) \/ StartLoop(s) \/ Interrupt(s)
    BY <1>1, <2>1, KnowsStep
  <2>2. CASE UNCHANGED sessionVars
    BY <1>1, <2>2, OthersKept DEF sessionVars
  <2> QED
    BY <2>1, <2>2 DEF Next, ChangeDeliverables, ChangeEscalations, vars
<1> QED
  BY <1>1, <1>2, TypeStep, FreeStep, EvidenceStep DEF LoopInv

LEMMA LoopInvHolds == Spec => []LoopInv
  BY LoopInvInit, LoopInvStep, PTL DEF Spec

\* CompletedHasEvidence: whatever sessions overlap, stop or die, a COMPLETED
\* stage has its report and a completed, checkpointed, reported taskgroup.
THEOREM CompletedHasEvidenceHolds == Spec => []CompletedHasEvidence
<1>1. LoopInv => CompletedHasEvidence
  BY DEF LoopInv
<1> QED
  BY <1>1, LoopInvHolds, PTL

-----------------------------------------------------------------------------
(***************************************************************************)
(* Refinement: each step is one of Workflow, or leaves what Workflow sees  *)
(* alone.                                                                  *)
(***************************************************************************)
LEMMA WorkflowInit == Init => W!WInit
BY StageAssumption DEF Init, W!WInit, Completed, RowsOf, NoStageRow

\* Only CompleteStage completes a stage.
LEMMA CompletedUnchanged ==
  ASSUME LoopInv, [Next]_vars, \A s \in Sessions : ~CompleteStage(s)
  PROVE  Completed' = Completed
<1>1. CASE UNCHANGED stageRow
  BY <1>1 DEF Completed, RowsOf
<1>2. ASSUME NEW s \in Sessions, InsertStage(s) PROVE Completed' = Completed
  BY <1>2, StageAssumption
     DEF InsertStage, Completed, RowsOf, LoopInv, TypeOK, FreeInv, NoStageRow,
         Stages
<1>3. ASSUME NEW s \in Sessions, StoreStageReport(s)
      PROVE  Completed' = Completed
  <2>1. \A r \in StageIds : /\ stageRow'[r].stage = stageRow[r].stage
                            /\ stageRow'[r].status = stageRow[r].status
    BY <1>3 DEF StoreStageReport, LoopInv, TypeOK
  <2> QED
    BY <2>1 DEF Completed, RowsOf
<1> QED
  BY <1>1, <1>2, <1>3, RowsUnchanged
     DEF Next, StageStep, rows, CreateTaskgroup, CheckpointTaskgroup,
         StoreTaskgroupReport, CompleteTaskgroup, ChangeDeliverables,
         ChangeEscalations, vars

LEMMA WorkflowStep ==
  ASSUME LoopInv, LoopInv', [Next]_vars
  PROVE  [W!WNext]_<<currentStage, Completed, finished>>
<1>1. ASSUME NEW s \in Sessions, SetCurrentStage(s)
      PROVE  W!BeginStage(stage[s]) /\ stage[s] \in 1..StageCount
  <2>1. stage[s] \in 1..StageCount
    BY DEF LoopInv, TypeOK, Stages
  <2>2. W!Earlier(stage[s]) \subseteq Completed
    BY <1>1, <2>1, StageAssumption
       DEF SetCurrentStage, LoopInv, Ordered, W!Earlier, Stages
  <2>3. Completed' = Completed
    BY <1>1 DEF SetCurrentStage, rows, Completed, RowsOf
  <2> QED
    BY <1>1, <2>1, <2>2, <2>3 DEF SetCurrentStage, W!BeginStage
<1>2. ASSUME NEW s \in Sessions, CompleteStage(s)
      PROVE  \/ W!FinishStage(stage[s]) /\ stage[s] \in 1..StageCount
             \/ UNCHANGED <<currentStage, Completed, finished>>
  <2>1. stage[s] \in 1..StageCount
    BY DEF LoopInv, TypeOK, Stages
  <2>2. W!Earlier(stage[s]) \subseteq Completed
    BY <1>2, <2>1, StageAssumption
       DEF CompleteStage, LoopInv, Ordered, W!Earlier, Stages
  <2>3. sid[s] \in StageIds /\ stageRow[sid[s]].stage = stage[s]
    BY <1>2 DEF CompleteStage, LoopInv, Placed, Working, StepPc
  <2>4. \A r \in StageIds :
          /\ stageRow'[r].stage = stageRow[r].stage
          /\ stageRow'[r].status = IF r = sid[s] THEN "COMPLETED"
                                                 ELSE stageRow[r].status
    BY <1>2 DEF CompleteStage, LoopInv, TypeOK
  <2>5. Completed' = Completed \cup {stage[s]}
    BY <2>1, <2>3, <2>4 DEF Completed, RowsOf, Stages
  <2> QED
    BY <1>2, <2>1, <2>2, <2>5 DEF CompleteStage, project, W!FinishStage
<1>3. ASSUME NEW s \in Sessions, CompleteProject(s) PROVE W!FinishProject
  <2>1. Completed = 1..StageCount
    BY <1>3 DEF CompleteProject, LoopInv, Ordered, Completed, Stages
  <2>2. Completed' = Completed
    BY <1>3 DEF CompleteProject, rows, Completed, RowsOf
  <2> QED
    BY <1>3, <2>1, <2>2 DEF CompleteProject, W!FinishProject
<1>4. CASE \A s \in Sessions :
             ~SetCurrentStage(s) /\ ~CompleteStage(s) /\ ~CompleteProject(s)
  <2>1. UNCHANGED <<currentStage, finished>>
    BY <1>4 DEF Next, StageStep, FindStage, InsertStage, CreateTaskgroup,
                SetCurrentTaskgroup, RunBatches, CheckpointTaskgroup,
                ReadDeliverables, CheckTaskgroup, StoreTaskgroupReport,
                CompleteTaskgroup, VerifyStage, StoreStageReport, StartLoop,
                Interrupt, ChangeDeliverables, ChangeEscalations, project, vars
  <2> QED
    BY <1>4, <2>1, CompletedUnchanged
<1> QED
  BY <1>1, <1>2, <1>3, <1>4 DEF W!WNext

\* ImplementsWorkflow: the stage loop, with any number of overlapping and
\* interrupted sessions, implements Workflow.
THEOREM ImplementsWorkflowHolds == Spec => ImplementsWorkflow
<1>1. LoopInv /\ LoopInv' /\ [Next]_vars
        => [W!WNext]_<<currentStage, Completed, finished>>
  BY WorkflowStep
<1> QED
  BY <1>1, WorkflowInit, LoopInvHolds, PTL DEF Spec, ImplementsWorkflow, W!WSpec

-----------------------------------------------------------------------------
(***************************************************************************)
(* As long as no two sessions have overlapped, one session at most is in   *)
(* the loop, a stage has one row, and a session works on ACTIVE rows only. *)
(***************************************************************************)
OneRowEach ==
  \A q, r \in StageIds :
    stageRow[q].stage = stageRow[r].stage /\ q # r => stageRow[r].stage = 0

Alone == \A s, t \in Sessions : pc[s] # "idle" /\ pc[t] # "idle" => s = t

ActiveRow(s) ==
  /\ pc[s] = "insert" => RowsOf(stage[s]) = {}
  /\ pc[s] \in Working => stageRow[sid[s]].status = "ACTIVE"

AloneInv ==
  ~overlapped => /\ Alone /\ OneRowEach
                 /\ \A s \in Sessions : ActiveRow(s)

\* While nobody overlaps, a step belongs to the only session there is.
LEMMA AloneStep ==
  ASSUME LoopInv, AloneInv, NEW s \in Sessions,
         StageStep(s) \/ StartLoop(s) \/ Interrupt(s), ~overlapped'
  PROVE  /\ ~overlapped
         /\ \A t \in Sessions \ {s} : pc[t] = "idle" /\ pc'[t] = "idle"
<1>1. CASE StartLoop(s)
  <2>1. ~overlapped /\ \A t \in Sessions : pc[t] = "idle"
    BY <1>1 DEF StartLoop, LoopInv, TypeOK
  <2> QED
    BY <1>1, <2>1, SessionFrame DEF LoopInv
<1>2. CASE StageStep(s) \/ Interrupt(s)
  <2>1. UNCHANGED overlapped /\ pc[s] # "idle"
    BY <1>2 DEF StageStep, Interrupt, FindStage, InsertStage, SetCurrentStage,
                CreateTaskgroup, SetCurrentTaskgroup, RunBatches,
                CheckpointTaskgroup, ReadDeliverables, CheckTaskgroup,
                StoreTaskgroupReport, CompleteTaskgroup, VerifyStage,
                StoreStageReport, CompleteStage, CompleteProject
  <2>2. ~overlapped /\ \A t \in Sessions \ {s} : pc[t] = "idle"
    BY <2>1 DEF AloneInv, Alone
  <2> QED
    BY <1>2, <2>2, SessionFrame DEF LoopInv
<1> QED
  BY <1>1, <1>2

LEMMA ActiveRowStep ==
  ASSUME LoopInv, AloneInv, ~overlapped, NEW s \in Sessions, StageStep(s)
  PROVE  ActiveRow(s)' /\ OneRowEach'
<1>0. TypeOK /\ FreeInv /\ Placed(s) /\ ActiveRow(s) /\ OneRowEach
  BY DEF LoopInv, AloneInv
<1>1. CASE FindStage(s)
  <2>1. UNCHANGED stageRow
    BY <1>1 DEF FindStage, rows
  <2>2. CASE pc'[s] = "insert"
    <3>1. RowsOf(stage[s]) = {} /\ stage' = stage
      BY <1>0, <1>1, <2>2 DEF FindStage, Goto, Leave, Advance, TypeOK
    <3> QED
      BY <1>0, <2>1, <2>2, <3>1 DEF ActiveRow, OneRowEach, RowsOf, Working
  <2>3. CASE pc'[s] = "enter"
    <3>1. PICK r \in StageIds : /\ stageRow[r].status = "ACTIVE"
                                /\ sid' = [sid EXCEPT ![s] = r]
      BY <1>0, <1>1, <2>3 DEF FindStage, Goto, Leave, Advance, TypeOK
    <3> QED
      BY <1>0, <2>1, <2>3, <3>1 DEF ActiveRow, OneRowEach, TypeOK
  <2>4. CASE pc'[s] \notin {"insert", "enter"}
    <3>1. pc'[s] \in {"idle", "find", "finish"}
      BY <1>0, <1>1, <2>4 DEF FindStage, Goto, Leave, Advance, TypeOK
    <3> QED
      BY <1>0, <2>1, <3>1 DEF ActiveRow, OneRowEach, Working, StepPc
  <2> QED
    BY <2>2, <2>3, <2>4
<1>2. CASE InsertStage(s)
  <2>1. PICK r \in StageIds :
          /\ stageRow' = [stageRow EXCEPT ![r] = [stage |-> stage[s],
                                                  status |-> "ACTIVE",
                                                  report |-> "none"]]
          /\ sid' = [sid EXCEPT ![s] = r]
    BY <1>2 DEF InsertStage, RowsOf
  <2>2. \A q \in StageIds : stageRow[q].stage # stage[s]
    BY <1>0, <1>2 DEF InsertStage, ActiveRow, RowsOf
  <2>3. OneRowEach'
    BY <1>0, <2>1, <2>2 DEF OneRowEach, TypeOK
  <2>4. ActiveRow(s)'
    BY <1>0, <1>2, <2>1 DEF InsertStage, ActiveRow, TypeOK
  <2> QED
    BY <2>3, <2>4
<1>3. CASE StoreStageReport(s)
  <2>1. \A r \in StageIds : /\ stageRow'[r].stage = stageRow[r].stage
                            /\ stageRow'[r].status = stageRow[r].status
    BY <1>0, <1>3 DEF StoreStageReport, TypeOK
  <2>2. sid[s] \in StageIds /\ stageRow[sid[s]].status = "ACTIVE"
    BY <1>0, <1>3 DEF StoreStageReport, Placed, ActiveRow, Working, StepPc
  <2> QED
    BY <1>0, <1>3, <2>1, <2>2
       DEF StoreStageReport, Goto, ActiveRow, OneRowEach, TypeOK
<1>4. CASE CompleteStage(s)
  <2>1. \A r \in StageIds : stageRow'[r].stage = stageRow[r].stage
    BY <1>0, <1>4 DEF CompleteStage, TypeOK
  <2>2. pc'[s] \in {"find", "finish"}
    BY <1>0, <1>4 DEF CompleteStage, Advance, TypeOK
  <2> QED
    BY <1>0, <2>1, <2>2 DEF ActiveRow, OneRowEach, Working
<1>5. CASE ~FindStage(s) /\ ~InsertStage(s) /\ ~StoreStageReport(s)
           /\ ~CompleteStage(s)
  <2>1. UNCHANGED stageRow
    BY <1>5, RowsUnchanged DEF StageStep, rows, CreateTaskgroup,
       CheckpointTaskgroup, StoreTaskgroupReport, CompleteTaskgroup
  <2>2. \/ pc'[s] \in {"idle"}
        \/ pc[s] \in Working /\ sid' = sid /\ pc'[s] # "insert"
    BY <1>0, <1>5 DEF StageStep, SetCurrentStage, CreateTaskgroup,
                SetCurrentTaskgroup, RunBatches, CheckpointTaskgroup,
                ReadDeliverables, CheckTaskgroup, StoreTaskgroupReport,
                CompleteTaskgroup, VerifyStage, CompleteProject, Goto, Leave,
                Working, StepPc, TypeOK
  <2> QED
    BY <1>0, <2>1, <2>2 DEF ActiveRow, OneRowEach, Working, StepPc
<1> QED
  BY <1>1, <1>2, <1>3, <1>4, <1>5

LEMMA AloneInvStep == LoopInv /\ AloneInv /\ [Next]_vars => AloneInv'
<1> SUFFICES ASSUME LoopInv, AloneInv, [Next]_vars, ~overlapped'
             PROVE  Alone' /\ OneRowEach' /\ \A s \in Sessions : ActiveRow(s)'
  BY DEF AloneInv
<1>1. ASSUME NEW s \in Sessions, StageStep(s) \/ StartLoop(s) \/ Interrupt(s)
      PROVE  Alone' /\ OneRowEach' /\ \A t \in Sessions : ActiveRow(t)'
  <2>1. ~overlapped /\ \A t \in Sessions \ {s} : pc'[t] = "idle"
    BY <1>1, AloneStep
  <2>2. ActiveRow(s)' /\ OneRowEach'
    <3>1. CASE StageStep(s)
      BY <2>1, <3>1, ActiveRowStep
    <3>2. CASE StartLoop(s) \/ Interrupt(s)
      <4>1. UNCHANGED stageRow /\ pc'[s] \in {"idle", "find"}
        BY <3>2 DEF StartLoop, Interrupt, Goto, Leave, rows, LoopInv, TypeOK
      <4> QED
        BY <2>1, <4>1 DEF ActiveRow, OneRowEach, AloneInv, Working, StepPc
    <3> QED
      BY <1>1, <3>1, <3>2
  <2>3. \A t \in Sessions \ {s} : ActiveRow(t)'
    BY <2>1 DEF ActiveRow, Working, StepPc
  <2> QED
    BY <2>1, <2>2, <2>3 DEF Alone
<1>2. CASE UNCHANGED <<rows, sessionVars, overlapped>>
  BY <1>2 DEF AloneInv, Alone, OneRowEach, ActiveRow, RowsOf, rows, sessionVars
<1> QED
  BY <1>1, <1>2 DEF Next, ChangeDeliverables, ChangeEscalations, vars

LEMMA AloneInvHolds == Spec => []AloneInv
<1>1. Init => AloneInv
  BY DEF Init, AloneInv, Alone, OneRowEach, ActiveRow, NoStageRow, Working, StepPc
<1> QED
  BY <1>1, AloneInvStep, LoopInvHolds, PTL DEF Spec

\* StageRowUnique: only sessions that overlap can insert a stage twice.
THEOREM StageRowUniqueHolds == Spec => []StageRowUnique
<1>1. AloneInv => StageRowUnique
  BY DEF AloneInv, OneRowEach, StageRowUnique
<1> QED
  BY <1>1, AloneInvHolds, PTL

-----------------------------------------------------------------------------
(***************************************************************************)
(* A passing stage report is as good as the taskgroup reports it was built *)
(* from: nothing writes to the taskgroups of a stage between the report    *)
(* and the commit that completes the stage, nor afterwards.                *)
(***************************************************************************)
Backed(r) == stageRow[r].report = "pass"
               => \A g \in GroupsOf(r) : groupRow[g].report = "pass"

Settled(r) == \/ stageRow[r].status = "COMPLETED"
              \/ \E s \in Sessions : pc[s] = "complete" /\ sid[s] = r

ReportInv == ~overlapped => \A r \in StageIds : Settled(r) => Backed(r)

\* A session that has not yet built its report works on a row that is not
\* settled.
LEMMA WorkingUnsettled ==
  ASSUME LoopInv, AloneInv, ~overlapped, NEW s \in Sessions,
         pc[s] \in Working \ {"complete"}
  PROVE  ~Settled(sid[s])
BY DEF AloneInv, Alone, ActiveRow, Settled, Working, StepPc

\* What a step of the only session does to the taskgroups.
LEMMA GroupsKept ==
  ASSUME LoopInv, NEW s \in Sessions, StageStep(s)
  PROVE  /\ \A g \in GroupIds :
              \/ /\ groupRow'[g].of = groupRow[g].of
                 /\ groupRow'[g].report = groupRow[g].report
              \/ /\ pc[s] \in {"open", "report"}
                 /\ groupRow'[g].of = sid[s]
                 /\ groupRow[g].of \in {sid[s], Nothing}
<1>0. TypeOK /\ Placed(s)
  BY DEF LoopInv
<1>1. CASE CreateTaskgroup(s)
  BY <1>0, <1>1 DEF CreateTaskgroup, GroupsOf, TypeOK
<1>2. CASE CheckpointTaskgroup(s) \/ CompleteTaskgroup(s)
  <2>1. \A g \in GroupIds : /\ groupRow'[g].of = groupRow[g].of
                            /\ groupRow'[g].report = groupRow[g].report
    <3>1. CASE CheckpointTaskgroup(s)
      BY <1>0, <3>1 DEF CheckpointTaskgroup, TypeOK
    <3>2. CASE CompleteTaskgroup(s)
      BY <1>0, <3>2 DEF CompleteTaskgroup, TypeOK
    <3> QED
      BY <1>2, <3>1, <3>2
  <2> QED
    BY <2>1
<1>3. CASE StoreTaskgroupReport(s)
  <2>1. gid[s] \in GroupIds /\ groupRow[gid[s]].of = sid[s]
    BY <1>0, <1>3 DEF StoreTaskgroupReport, Placed, Inside, Working, StepPc
  <2>2. PICK v : groupRow' = [groupRow EXCEPT ![gid[s]].report = v]
    BY <1>3 DEF StoreTaskgroupReport
  <2> QED
    BY <1>0, <1>3, <2>1, <2>2 DEF StoreTaskgroupReport, TypeOK
<1>4. CASE InsertStage(s) \/ StoreStageReport(s) \/ CompleteStage(s)
  BY <1>4 DEF InsertStage, StoreStageReport, CompleteStage
<1>5. CASE \/ FindStage(s) \/ SetCurrentStage(s) \/ SetCurrentTaskgroup(s)
           \/ RunBatches(s) \/ ReadDeliverables(s) \/ CheckTaskgroup(s)
           \/ VerifyStage(s) \/ CompleteProject(s)
  BY <1>5, RowsUnchanged DEF rows
<1> QED
  BY <1>1, <1>2, <1>3, <1>4, <1>5 DEF StageStep

LEMMA ReportStep ==
  ASSUME LoopInv, AloneInv, ReportInv, ~overlapped, NEW s \in Sessions,
         StageStep(s), \A t \in Sessions \ {s} : pc'[t] = "idle",
         NEW r \in StageIds, Settled(r)'
  PROVE  Backed(r)'
<1>0. TypeOK /\ Placed(s) /\ ActiveRow(s) /\ (Settled(r) => Backed(r))
  BY DEF LoopInv, AloneInv, ReportInv
<1>1. CASE StoreStageReport(s)
  <2>1. /\ \A q \in StageIds \ {sid[s]} : stageRow'[q] = stageRow[q]
        /\ UNCHANGED <<groupRow, sid>>
    BY <1>1 DEF StoreStageReport, Goto
  <2>2. CASE r = sid[s]
    <3>1. stageRow'[r].report = Verdict(GroupsOf(r))
      BY <1>0, <1>1, <2>2 DEF StoreStageReport, TypeOK
    <3> QED
      BY <2>1, <3>1 DEF Backed, Verdict, GroupsOf
  <2>3. CASE r # sid[s]
    BY <1>0, <2>1, <2>3 DEF Settled, Backed, GroupsOf
  <2> QED
    BY <2>2, <2>3
<1>2. CASE CompleteStage(s)
  <2>1. stageRow'[r].report = stageRow[r].report /\ UNCHANGED groupRow
    BY <1>0, <1>2 DEF CompleteStage, TypeOK
  <2>2. stageRow'[r].status = IF r = sid[s] THEN "COMPLETED"
                                            ELSE stageRow[r].status
    BY <1>0, <1>2 DEF CompleteStage, TypeOK
  <2>3. pc[s] = "complete" /\ pc'[s] # "complete"
    BY <1>0, <1>2 DEF CompleteStage, Advance, TypeOK
  <2>4. Settled(r)
    BY <2>2, <2>3 DEF Settled
  <2> QED
    BY <1>0, <2>1, <2>4 DEF Backed, GroupsOf
<1>3. CASE InsertStage(s)
  <2>1. PICK q \in StageIds : stageRow' = [stageRow EXCEPT ![q] =
                   [stage |-> stage[s], status |-> "ACTIVE", report |-> "none"]]
    BY <1>3 DEF InsertStage, RowsOf
  <2>2. pc'[s] # "complete" /\ UNCHANGED groupRow
    BY <1>0, <1>3 DEF InsertStage, TypeOK
  <2>3. stageRow'[r].status = "COMPLETED"
    BY <2>2 DEF Settled
  <2>4. stageRow'[r] = stageRow[r]
    BY <1>0, <2>1, <2>3 DEF TypeOK
  <2> QED
    BY <1>0, <2>2, <2>3, <2>4 DEF Settled, Backed, GroupsOf
<1>4. CASE ~StoreStageReport(s) /\ ~CompleteStage(s) /\ ~InsertStage(s)
  <2>1. UNCHANGED stageRow
    BY <1>4, RowsUnchanged DEF StageStep, rows, CreateTaskgroup,
       CheckpointTaskgroup, StoreTaskgroupReport, CompleteTaskgroup
  <2>2. pc'[s] # "complete"
    BY <1>0, <1>4 DEF StageStep, FindStage, SetCurrentStage, CreateTaskgroup,
       SetCurrentTaskgroup, RunBatches, CheckpointTaskgroup, ReadDeliverables,
       CheckTaskgroup, StoreTaskgroupReport, CompleteTaskgroup, VerifyStage,
       CompleteProject, Goto, Leave, Advance, TypeOK
  <2>3. stageRow[r].status = "COMPLETED"
    BY <2>1, <2>2 DEF Settled
  <2>4. Backed(r)
    BY <1>0, <2>3 DEF Settled
  <2>5. ASSUME pc[s] \in {"open", "report"} PROVE r # sid[s]
    BY <2>3, <2>5, WorkingUnsettled DEF Settled, Working, StepPc
  <2>6. \A g \in GroupIds : groupRow'[g].of = r =>
          groupRow[g].of = r /\ groupRow'[g].report = groupRow[g].report
    BY <2>5, GroupsKept
  <2> QED
    BY <2>1, <2>4, <2>6 DEF Backed, GroupsOf
<1> QED
  BY <1>1, <1>2, <1>3, <1>4

LEMMA ReportInvStep == LoopInv /\ AloneInv /\ ReportInv /\ [Next]_vars => ReportInv'
<1> SUFFICES ASSUME LoopInv, AloneInv, ReportInv, [Next]_vars, ~overlapped',
                    NEW r \in StageIds, Settled(r)'
             PROVE  Backed(r)'
  BY DEF ReportInv
<1>1. ASSUME NEW s \in Sessions, StageStep(s) \/ StartLoop(s) \/ Interrupt(s)
      PROVE  Backed(r)'
  <2>1. ~overlapped /\ \A t \in Sessions \ {s} : pc'[t] = "idle"
    BY <1>1, AloneStep
  <2>2. CASE StageStep(s)
    BY <2>1, <2>2, ReportStep
  <2>3. CASE StartLoop(s) \/ Interrupt(s)
    <3>1. UNCHANGED rows /\ pc'[s] # "complete"
      BY <2>3 DEF StartLoop, Interrupt, Goto, Leave, LoopInv, TypeOK
    <3>2. Settled(r)
      BY <2>1, <3>1 DEF Settled, rows
    <3> QED
      BY <2>1, <3>1, <3>2 DEF ReportInv, Backed, GroupsOf, rows
  <2> QED
    BY <1>1, <2>2, <2>3
<1>2. CASE UNCHANGED <<rows, sessionVars, overlapped>>
  BY <1>2 DEF ReportInv, Settled, Backed, GroupsOf, rows, sessionVars
<1> QED
  BY <1>1, <1>2 DEF Next, ChangeDeliverables, ChangeEscalations, vars

LEMMA ReportInvHolds == Spec => []ReportInv
<1>1. Init => ReportInv
  BY DEF Init, ReportInv, Settled, NoStageRow
<1> QED
  BY <1>1, ReportInvStep, AloneInvHolds, LoopInvHolds, PTL DEF Spec

\* PassingReportHolds: a stage completes with a passing report only if every
\* taskgroup it ever had passes.
THEOREM PassingReportsHold == Spec => []PassingReportHolds
<1>1. ReportInv => PassingReportHolds
  BY DEF ReportInv, Settled, Backed, PassingReportHolds
<1> QED
  BY <1>1, ReportInvHolds, PTL

-----------------------------------------------------------------------------
\* The stages before the current one are complete, sessions overlapping or not.
PastInv == \A k \in Stages : k < currentStage => k \in Completed

LEMMA PastInvStep == LoopInv /\ LoopInv' /\ PastInv /\ [Next]_vars => PastInv'
<1> SUFFICES ASSUME LoopInv, PastInv, [Next]_vars PROVE PastInv'
  OBVIOUS
<1>1. Completed \subseteq Completed'
  BY CompletedKept, RowsKeptStep
<1>2. \/ UNCHANGED currentStage
      \/ \E s \in Sessions : SetCurrentStage(s)
  BY DEF Next, StageStep, FindStage, InsertStage, CreateTaskgroup,
         SetCurrentTaskgroup, RunBatches, CheckpointTaskgroup,
         ReadDeliverables, CheckTaskgroup, StoreTaskgroupReport,
         CompleteTaskgroup, VerifyStage, StoreStageReport, CompleteStage,
         CompleteProject, StartLoop, Interrupt, ChangeDeliverables,
         ChangeEscalations, project, vars
<1>3. ASSUME NEW s \in Sessions, SetCurrentStage(s) PROVE PastInv'
  <2>1. \A k \in Stages : k < stage[s] => k \in Completed
    BY <1>3 DEF SetCurrentStage, LoopInv, Ordered
  <2> QED
    BY <1>1, <1>3, <2>1 DEF SetCurrentStage, PastInv
<1> QED
  BY <1>1, <1>2, <1>3 DEF PastInv

LEMMA PastInvHolds == Spec => []PastInv
<1>1. Init => PastInv
  BY DEF Init, PastInv, Stages
<1> QED
  BY <1>1, PastInvStep, LoopInvHolds, PTL DEF Spec

\* CurrentStageForward: a session enters only the stage of an ACTIVE row, and
\* the only row of a stage behind the current one is COMPLETED.
THEOREM CurrentStageForwardHolds == Spec => CurrentStageForward
<1>1. LoopInv /\ AloneInv /\ PastInv /\ [Next]_vars
        => [overlapped \/ currentStage' >= currentStage]_vars
  <2> SUFFICES ASSUME LoopInv, AloneInv, PastInv, Next, ~overlapped
               PROVE  currentStage' >= currentStage
    OBVIOUS
  <2>0. currentStage \in Nat
    BY StageAssumption DEF LoopInv, TypeOK
  <2>1. ASSUME NEW s \in Sessions, SetCurrentStage(s)
        PROVE  currentStage' >= currentStage
    <3>1. /\ sid[s] \in StageIds /\ stageRow[sid[s]].stage = stage[s]
          /\ stageRow[sid[s]].status = "ACTIVE"
          /\ stage[s] \in Stages
      BY <2>1 DEF SetCurrentStage, LoopInv, TypeOK, Placed, AloneInv, ActiveRow,
                  Working, StepPc
    <3>2. stage[s] \notin Completed
      BY <3>1 DEF Completed, RowsOf, AloneInv, OneRowEach, Stages
    <3>3. ~(stage[s] < currentStage)
      BY <3>1, <3>2 DEF PastInv
    <3> QED
      BY <2>0, <2>1, <3>1, <3>3 DEF SetCurrentStage, Stages
  <2>2. CASE UNCHANGED currentStage
    BY <2>0, <2>2
  <2>3. \/ UNCHANGED currentStage
        \/ \E s \in Sessions : SetCurrentStage(s)
    BY DEF Next, StageStep, FindStage, InsertStage, CreateTaskgroup,
           SetCurrentTaskgroup, RunBatches, CheckpointTaskgroup,
           ReadDeliverables, CheckTaskgroup, StoreTaskgroupReport,
           CompleteTaskgroup, VerifyStage, StoreStageReport, CompleteStage,
           CompleteProject, StartLoop, Interrupt, ChangeDeliverables,
           ChangeEscalations, project, vars
  <2> QED
    BY <2>1, <2>2, <2>3
<1> QED
  BY <1>1, LoopInvHolds, AloneInvHolds, PastInvHolds, PTL
     DEF Spec, CurrentStageForward
=============================================================================
