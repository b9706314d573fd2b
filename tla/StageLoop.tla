------------------------------ MODULE StageLoop ------------------------------
(***************************************************************************)
(* The stages of one project: the rows in which _execute_stage_loop        *)
(* records how far the project has come.  A session goes through the       *)
(* stages of the manifest.  It resumes the row of a stage or inserts one,  *)
(* opens a taskgroup, runs the batch loop, passes a gate, and writes the   *)
(* reports and the completion of taskgroup and stage, each in a commit of  *)
(* its own.  It may stop or be killed between any two of them; the next    *)
(* session starts again at the first stage.                                *)
(*                                                                         *)
(* The deliverables and escalations that the gate asks about belong to     *)
(* others and change at any time.                                          *)
(***************************************************************************)
EXTENDS Naturals

CONSTANTS StageCount,  \* stages of the manifest
          Required,    \* the schedules a stage has required validators of
          Sessions,    \* work sessions of the project
          StageIds,    \* keys of stage rows (their number bounds the rows)
          GroupIds,    \* keys of taskgroup rows (the same)
          Nothing      \* no key

Stages == 1..StageCount
Schedule == {"PER_DELIVERABLE", "PER_BATCH", "PER_TASKGROUP", "PER_STAGE"}

ASSUME StageAssumption ==
  StageCount \in Nat \ {0} /\ Required \in [Stages -> SUBSET Schedule]
ASSUME KeyAssumption == Nothing \notin StageIds \cup GroupIds

VARIABLES stageRow, groupRow,          \* stage_executions, taskgroup_executions
          currentStage, currentGroup,  \* the same columns of the projects row
          finished,                    \* the loop has completed the project
          outstanding,                 \* some deliverable is not terminal
          pending,                     \* some escalation to the Director is
          pc, stage, sid, gid,         \* each session's step, stage and rows
          passed,                      \* what the last gate said
          overlapped                   \* history: two sessions have run at once

rows == <<stageRow, groupRow>>
project == <<currentStage, currentGroup, finished>>
world == <<outstanding, pending>>
sessionVars == <<pc, stage, sid, gid, passed>>
vars == <<rows, project, world, sessionVars, overlapped>>

\* A row that does not exist has the status "NONE".
Status == {"NONE", "ACTIVE", "COMPLETED"}
Report == {"none", "pass", "fail"}
NoStageRow == [stage |-> 0, status |-> "NONE", report |-> "none"]
NoGroupRow == [of |-> Nothing, status |-> "NONE", saved |-> FALSE,
               report |-> "none"]

RowsOf(k) == {r \in StageIds : stageRow[r].stage = k}
GroupsOf(r) == {g \in GroupIds : groupRow[g].of = r}
Completed == {k \in Stages : \E r \in RowsOf(k) : stageRow[r].status = "COMPLETED"}

StepPc == {"find", "insert", "enter", "open", "point", "batches", "save",
           "read", "gate", "report", "close", "verify", "aggregate",
           "complete", "finish"}

Init == /\ stageRow = [r \in StageIds |-> NoStageRow]
        /\ groupRow = [g \in GroupIds |-> NoGroupRow]
        /\ currentStage = 0 /\ currentGroup = Nothing /\ finished = FALSE
        /\ outstanding \in BOOLEAN /\ pending \in BOOLEAN
        /\ pc = [s \in Sessions |-> "idle"]
        /\ stage = [s \in Sessions |-> 1]
        /\ sid = [s \in Sessions |-> Nothing]
        /\ gid = [s \in Sessions |-> Nothing]
        /\ passed = [s \in Sessions |-> FALSE]
        /\ overlapped = FALSE

-----------------------------------------------------------------------------
Goto(s, at) == /\ pc' = [pc EXCEPT ![s] = at]
               /\ UNCHANGED <<stage, sid, gid, passed>>

Leave(s) == /\ pc' = [pc EXCEPT ![s] = "idle"]
            /\ stage' = [stage EXCEPT ![s] = 1]
            /\ sid' = [sid EXCEPT ![s] = Nothing]
            /\ gid' = [gid EXCEPT ![s] = Nothing]
            /\ passed' = [passed EXCEPT ![s] = FALSE]

\* The next stage, or the end of the loop with all of them complete.
Advance(s) == /\ IF stage[s] < StageCount
                   THEN /\ stage' = [stage EXCEPT ![s] = @ + 1]
                        /\ pc' = [pc EXCEPT ![s] = "find"]
                   ELSE /\ pc' = [pc EXCEPT ![s] = "finish"]
                        /\ UNCHANGED stage
              /\ sid' = [sid EXCEPT ![s] = Nothing]
              /\ gid' = [gid EXCEPT ![s] = Nothing]
              /\ passed' = [passed EXCEPT ![s] = FALSE]

StartLoop(s) ==
  /\ pc[s] = "idle" /\ Goto(s, "find")
  /\ overlapped' = (overlapped \/ \E t \in Sessions : pc[t] # "idle")
  /\ UNCHANGED <<rows, project, world>>

\* Mutant: only a COMPLETED row is looked for.
FindStageCompleted(s) ==
  /\ pc[s] = "find"
  /\ IF stage[s] \in Completed THEN Advance(s) ELSE Goto(s, "insert")
  /\ UNCHANGED <<rows, project, world, overlapped>>

\* scalar_one_or_none raises when the stage has two rows.  A row that exists
\* and is not COMPLETED is ACTIVE already.
FindStage(s) ==
  /\ pc[s] = "find"
  /\ \/ /\ RowsOf(stage[s]) = {} /\ Goto(s, "insert")
     \/ \E r \in StageIds :
          /\ RowsOf(stage[s]) = {r}
          /\ \/ stageRow[r].status = "COMPLETED" /\ Advance(s)
             \/ /\ stageRow[r].status = "ACTIVE"
                /\ sid' = [sid EXCEPT ![s] = r]
                /\ pc' = [pc EXCEPT ![s] = "enter"]
                /\ UNCHANGED <<stage, gid, passed>>
     \/ /\ \E q, r \in RowsOf(stage[s]) : q # r
        /\ Leave(s)
  /\ UNCHANGED <<rows, project, world, overlapped>>

InsertStage(s) ==
  /\ pc[s] = "insert"
  /\ \E r \in RowsOf(0) :
       /\ stageRow' = [stageRow EXCEPT ![r] = [stage |-> stage[s],
                                               status |-> "ACTIVE",
                                               report |-> "none"]]
       /\ sid' = [sid EXCEPT ![s] = r]
  /\ pc' = [pc EXCEPT ![s] = "enter"]
  /\ UNCHANGED <<groupRow, project, world, stage, gid, passed, overlapped>>

SetCurrentStage(s) ==
  /\ pc[s] = "enter" /\ Goto(s, "open")
  /\ currentStage' = stage[s]
  /\ UNCHANGED <<rows, currentGroup, finished, world, overlapped>>

\* Always a new taskgroup, whatever an interrupted session has left.
CreateTaskgroup(s) ==
  /\ pc[s] = "open"
  /\ \E g \in GroupsOf(Nothing) :
       /\ groupRow' = [groupRow EXCEPT ![g] = [of |-> sid[s],
                                               status |-> "ACTIVE",
                                               saved |-> FALSE,
                                               report |-> "none"]]
       /\ gid' = [gid EXCEPT ![s] = g]
  /\ pc' = [pc EXCEPT ![s] = "point"]
  /\ UNCHANGED <<stageRow, project, world, stage, sid, passed, overlapped>>

SetCurrentTaskgroup(s) ==
  /\ pc[s] = "point" /\ Goto(s, "batches")
  /\ currentGroup' = gid[s]
  /\ UNCHANGED <<rows, currentStage, finished, world, overlapped>>

\* The batch loop ends for want of a ready deliverable, or is interrupted by
\* a pause, its failures or its cost, which it escalates.
RunBatches(s) ==
  /\ pc[s] = "batches"
  /\ \E ended \in BOOLEAN : passed' = [passed EXCEPT ![s] = ended]
  /\ pc' = [pc EXCEPT ![s] = "save"]
  /\ \/ UNCHANGED pending
     \/ ~passed'[s] /\ pending' = TRUE
  /\ UNCHANGED <<rows, project, outstanding, stage, sid, gid, overlapped>>

\* Mutant: only an interrupted batch loop is checkpointed.
CheckpointInterrupted(s) ==
  /\ pc[s] = "save"
  /\ groupRow' = [groupRow EXCEPT ![gid[s]].saved = @ \/ ~passed[s]]
  /\ IF passed[s] THEN Goto(s, "read") ELSE Leave(s)
  /\ UNCHANGED <<stageRow, project, world, overlapped>>

\* The checkpoint is saved in either case; the loop stops at an interruption.
CheckpointTaskgroup(s) ==
  /\ pc[s] = "save"
  /\ groupRow' = [groupRow EXCEPT ![gid[s]].saved = TRUE]
  /\ IF passed[s] THEN Goto(s, "read") ELSE Leave(s)
  /\ UNCHANGED <<stageRow, project, world, overlapped>>

-----------------------------------------------------------------------------
\* Mutant: a blocked gate ends the stage instead of the loop.
ReadDeliverablesOn(s) ==
  /\ pc[s] = "read"
  /\ IF outstanding THEN Advance(s) ELSE Goto(s, "gate")
  /\ UNCHANGED <<rows, project, world, overlapped>>

\* The taskgroup gate reads the deliverables, then the pending escalations.
ReadDeliverables(s) ==
  /\ pc[s] = "read"
  /\ IF outstanding THEN Leave(s) ELSE Goto(s, "gate")
  /\ UNCHANGED <<rows, project, world, overlapped>>

\* It is given the results of the PER_TASKGROUP validators only, and blocks
\* while a required one of an earlier schedule has no result, or when a
\* required one fails.
CheckTaskgroup(s) ==
  /\ pc[s] = "gate"
  /\ \/ /\ ~pending
        /\ Required[stage[s]] \subseteq {"PER_TASKGROUP", "PER_STAGE"}
        /\ Goto(s, "report")
     \/ /\ pending \/ ~ Required[stage[s]] \subseteq {"PER_STAGE"}
        /\ Leave(s)
  /\ UNCHANGED <<rows, project, world, overlapped>>

\* A layer of the report passes when this session's validators of the stage
\* have all passed.
StoreTaskgroupReport(s) ==
  /\ pc[s] = "report" /\ Goto(s, "close")
  /\ \E v \in {"pass", "fail"} :
       groupRow' = [groupRow EXCEPT ![gid[s]].report = v]
  /\ UNCHANGED <<stageRow, project, world, overlapped>>

CompleteTaskgroup(s) ==
  /\ pc[s] = "close" /\ Goto(s, "verify")
  /\ groupRow' = [groupRow EXCEPT ![gid[s]].status = "COMPLETED"]
  /\ UNCHANGED <<stageRow, project, world, overlapped>>

\* verify_stage_completion has results of the PER_STAGE validators only, and
\* may also miss an approval or a deliverable.  Its verdict is logged.
VerifyStage(s) ==
  /\ pc[s] = "verify"
  /\ \E v \in BOOLEAN :
       /\ v => Required[stage[s]] \subseteq {"PER_STAGE"}
       /\ passed' = [passed EXCEPT ![s] = v]
  /\ pc' = [pc EXCEPT ![s] = "aggregate"]
  /\ UNCHANGED <<rows, project, world, stage, sid, gid, overlapped>>

Verdict(groups) ==
  IF \A g \in groups : groupRow[g].report = "pass" THEN "pass" ELSE "fail"

\* Mutant: taskgroups without a report are passed over.
StoreStageReportPresent(s) ==
  /\ pc[s] = "aggregate" /\ Goto(s, "complete")
  /\ stageRow' = [stageRow EXCEPT ![sid[s]].report =
                    Verdict({g \in GroupsOf(sid[s]) :
                               groupRow[g].report # "none"})]
  /\ UNCHANGED <<groupRow, project, world, overlapped>>

\* build_stage_report: a taskgroup without a report does not pass.
StoreStageReport(s) ==
  /\ pc[s] = "aggregate" /\ Goto(s, "complete")
  /\ stageRow' = [stageRow EXCEPT ![sid[s]].report =
                    Verdict(GroupsOf(sid[s]))]
  /\ UNCHANGED <<groupRow, project, world, overlapped>>

CompleteStage(s) ==
  /\ pc[s] = "complete" /\ Advance(s)
  /\ stageRow' = [stageRow EXCEPT ![sid[s]].status = "COMPLETED"]
  /\ UNCHANGED <<groupRow, project, world, overlapped>>

CompleteProject(s) ==
  /\ pc[s] = "finish" /\ Leave(s)
  /\ finished' = TRUE
  /\ UNCHANGED <<rows, currentStage, currentGroup, world, overlapped>>

\* The worker dies, ARQ cancels the session, or a step raises.
Interrupt(s) ==
  /\ pc[s] # "idle" /\ Leave(s)
  /\ UNCHANGED <<rows, project, world, overlapped>>

-----------------------------------------------------------------------------
\* Deliverables become terminal and are reset or added by the PM's tools, the
\* batch loop and resolutions.
ChangeDeliverables ==
  /\ outstanding' = ~outstanding
  /\ UNCHANGED <<rows, project, pending, sessionVars, overlapped>>

\* Agents escalate, the Director resolves.
ChangeEscalations ==
  /\ pending' = ~pending
  /\ UNCHANGED <<rows, project, outstanding, sessionVars, overlapped>>

StageStep(s) ==
  \/ FindStage(s) \/ InsertStage(s) \/ SetCurrentStage(s) \/ CreateTaskgroup(s)
  \/ SetCurrentTaskgroup(s) \/ RunBatches(s) \/ CheckpointTaskgroup(s)
  \/ ReadDeliverables(s) \/ CheckTaskgroup(s) \/ StoreTaskgroupReport(s)
  \/ CompleteTaskgroup(s) \/ VerifyStage(s) \/ StoreStageReport(s)
  \/ CompleteStage(s) \/ CompleteProject(s)

Next == \/ \E s \in Sessions : StartLoop(s) \/ StageStep(s) \/ Interrupt(s)
        \/ ChangeDeliverables \/ ChangeEscalations

Spec == Init /\ [][Next]_vars

-----------------------------------------------------------------------------
TypeOK ==
  /\ stageRow \in [StageIds -> [stage: 0..StageCount, status: Status,
                                report: Report]]
  /\ groupRow \in [GroupIds -> [of: StageIds \cup {Nothing}, status: Status,
                                saved: BOOLEAN, report: Report]]
  /\ currentStage \in 0..StageCount
  /\ currentGroup \in GroupIds \cup {Nothing}
  /\ finished \in BOOLEAN /\ outstanding \in BOOLEAN /\ pending \in BOOLEAN
  /\ pc \in [Sessions -> StepPc \cup {"idle"}]
  /\ stage \in [Sessions -> Stages]
  /\ sid \in [Sessions -> StageIds \cup {Nothing}]
  /\ gid \in [Sessions -> GroupIds \cup {Nothing}]
  /\ passed \in [Sessions -> BOOLEAN]
  /\ overlapped \in BOOLEAN

(***************************************************************************)
(* The loop implements the promise of Workflow, with any number of         *)
(* sessions that overlap, stop, fail or are killed anywhere: a stage is    *)
(* begun only after those before it, none is completed out of order, and   *)
(* the project is completed only after the last.                           *)
(***************************************************************************)
W == INSTANCE Workflow WITH current <- currentStage, completed <- Completed
ImplementsWorkflow == W!WSpec

(***************************************************************************)
(* A stage that is COMPLETED has its evidence: a report, and a completed   *)
(* taskgroup with a report and a checkpoint, although each is committed by *)
(* itself and the session may end between any two.                         *)
(***************************************************************************)
CompletedHasEvidence ==
  \A r \in StageIds :
    stageRow[r].status = "COMPLETED" =>
      /\ stageRow[r].report # "none"
      /\ \E g \in GroupsOf(r) : /\ groupRow[g].status = "COMPLETED"
                                /\ groupRow[g].saved
                                /\ groupRow[g].report # "none"

(***************************************************************************)
(* A stage has one row, so that every later session finds it, unless two   *)
(* sessions have overlapped: nothing but the order of their steps keeps    *)
(* them from inserting the row twice, and from then on every session of    *)
(* the project raises.                                                     *)
(***************************************************************************)
StageRowUnique ==
  overlapped \/ \A q, r \in StageIds :
                  stageRow[q].stage = stageRow[r].stage /\ q # r
                    => stageRow[r].stage = 0

(***************************************************************************)
(* A stage that completed with a passing report has a passing report from  *)
(* every taskgroup that any of its sessions opened, those of interrupted   *)
(* sessions included, and none is opened afterwards (build_stage_report),  *)
(* unless two sessions have overlapped.                                    *)
(***************************************************************************)
PassingReportHolds ==
  overlapped \/ \A r \in StageIds :
                  stageRow[r].status = "COMPLETED" /\ stageRow[r].report = "pass"
                    => \A g \in GroupsOf(r) : groupRow[g].report = "pass"

(***************************************************************************)
(* The stage that the gateway shows never goes back, although every        *)
(* session starts again at the first stage, unless two of them overlap.    *)
(***************************************************************************)
CurrentStageForward == [][overlapped \/ currentStage' >= currentStage]_vars
=============================================================================
