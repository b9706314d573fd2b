-------------------------- MODULE ContextRecreation --------------------------
(***************************************************************************)
(* The ADK session of a project's work sessions, the checkpoint of its     *)
(* current taskgroup, and what run_work_session does when the context      *)
(* budget is exceeded: it checkpoints the session's state, merges the      *)
(* checkpoint into it and creates a fresh session with what is critical.   *)
(*                                                                         *)
(* A value is the number of the write it comes from; zero is no value.     *)
(* The keys that only checkpoint_taskgroup adds to a state are left out:   *)
(* they repeat others.  No caller gives a session an approval.             *)
(***************************************************************************)
EXTENDS Naturals, FiniteSets

CONSTANTS Jobs,         \* jobs of run_work_session of the project
          MaxGroups,    \* bound: rows of taskgroups
          MaxWrites,    \* bound: writes to the session's state
          Ceiling       \* cost_ceiling and retry_budget of the job, as one number

RecreationAssumption == MaxGroups \in Nat /\ MaxWrites \in Nat /\ Ceiling \in Nat

\* "pm" stands for pm:, director: and deliverable_status: keys and for outputs,
\* "scratch" for all that is not critical.
Keys == {"project_config", "loaded_skill_names", "workflow_id", "pm", "scratch"}
Critical == Keys \ {"scratch"}
Shared == {"project_config", "loaded_skill_names", "workflow_id"}
Empty == [k \in Keys |-> 0]
NoCheckpoint == [k \in Shared |-> 0]
StageCheckpoint == [NoCheckpoint EXCEPT !["workflow_id"] = MaxWrites + 2]

VARIABLES adk,        \* state of session work_session_<project>
          exists,     \* it has been created
          writes,     \* number of the last write
          spent,      \* pm:retry_count or pm:total_cost, as one number
          job,        \* each job: place, taskgroup, copy of the state, seed
          fresh,      \* fresh sessions: the job and the state
          current,    \* Project.current_taskgroup_id, zero for none
          groups,     \* number of rows of taskgroups
          checkpoint, \* checkpoint_data of each, with saved
          contexts,   \* tool contexts: the session's id, or a job's fresh one
          overlapped  \* history: jobs that another job overlapped

vars == <<adk, exists, writes, spent, job, fresh, current, groups, checkpoint, contexts, overlapped>>

Idle == [at |-> "idle", group |-> 0, copy |-> Empty, id |-> "none"]

Init == /\ adk = Empty /\ exists = FALSE /\ writes = 0 /\ spent = 0
        /\ job = [j \in Jobs |-> Idle]
        /\ fresh = [j \in Jobs |-> Empty]
        /\ current = 0 /\ groups = 0
        /\ checkpoint = [g \in 1..MaxGroups |-> [saved |-> FALSE, of |-> NoCheckpoint]]
        /\ contexts = {}
        /\ overlapped = {}

Live == {j \in Jobs : job[j].at # "idle"}
Goes(j, at) == job' = [job EXCEPT ![j].at = at]

\* The last steps of a job: the tool context of its session's id goes.
Ends(j) ==
  /\ contexts' = contexts \ (IF job[j].id = "fresh" THEN {j} ELSE {"work"})
  /\ job' = [job EXCEPT ![j] = Idle]
  /\ UNCHANGED <<adk, exists, writes, spent, fresh, current, groups, checkpoint, overlapped>>

-----------------------------------------------------------------------------
\* The session is created with the limits, or is there from an earlier job.
Open(j) ==
  /\ job[j].at = "idle"
  /\ job' = [job EXCEPT ![j] = [Idle EXCEPT !.at = "agents", !.id = "work"]]
  /\ IF exists THEN UNCHANGED <<adk, writes>>
     ELSE /\ writes' = writes + 1
          /\ adk' = [Empty EXCEPT !["project_config"] = writes', !["workflow_id"] = writes']
  /\ exists' = TRUE
  /\ contexts' = contexts \cup {"work"}
  /\ overlapped' = IF Live = {} THEN overlapped \ {j} ELSE overlapped \cup Live \cup {j}
  /\ fresh' = [fresh EXCEPT ![j] = Empty]
  /\ UNCHANGED <<spent, current, groups, checkpoint>>

\* The agents and their tools write to the state, and spend.
WriteState(j, k) ==
  /\ job[j].at = "agents"
  /\ k # "project_config" /\ k # "workflow_id"
  /\ writes < MaxWrites
  /\ writes' = writes + 1
  /\ adk' = [adk EXCEPT ![k] = writes']
  /\ spent' = IF k = "pm" THEN spent + 1 ELSE spent
  /\ UNCHANGED <<exists, job, fresh, current, groups, checkpoint, contexts, overlapped>>

\* before_pm_execution: at its limit the PM does not run and the reason is
\* written; after_pm_execution only flags what it finds there.
BlockPm(j) ==
  /\ job[j].at = "agents" /\ spent >= Ceiling
  /\ writes < MaxWrites
  /\ writes' = writes + 1
  /\ adk' = [adk EXCEPT !["pm"] = writes']
  /\ Goes(j, "stages")
  /\ UNCHANGED <<exists, spent, fresh, current, groups, checkpoint, contexts, overlapped>>

\* The agents are done, or ContextBudgetMonitor raises.
EndAgents(j) ==
  /\ job[j].at = "agents"
  /\ Goes(j, "stages") \/ Goes(j, "group")
  /\ UNCHANGED <<adk, exists, writes, spent, fresh, current, groups, checkpoint, contexts, overlapped>>

-----------------------------------------------------------------------------
(***************************************************************************)
(* except ContextRecreationRequired                                        *)
(***************************************************************************)
LoadGroup(j) ==
  /\ job[j].at = "group"
  /\ job' = [job EXCEPT ![j].at = IF current = 0 THEN "old" ELSE "state", ![j].group = current]
  /\ UNCHANGED <<adk, exists, writes, spent, fresh, current, groups, checkpoint, contexts, overlapped>>

\* get_session, for the checkpoint.
LoadState(j) ==
  /\ job[j].at = "state"
  /\ job' = [job EXCEPT ![j].at = "checkpoint", ![j].copy = adk]
  /\ UNCHANGED <<adk, exists, writes, spent, fresh, current, groups, checkpoint, contexts, overlapped>>

\* Mutant: the checkpoint that the stage loop wrote is taken as it is.
CheckpointNot(j) ==
  /\ job[j].at = "checkpoint"
  /\ Goes(j, "old")
  /\ UNCHANGED <<adk, exists, writes, spent, fresh, current, groups, checkpoint, contexts, overlapped>>

\* checkpoint_taskgroup.
CheckpointTaskgroup(j) ==
  /\ job[j].at = "checkpoint"
  /\ checkpoint' = [checkpoint EXCEPT ![job[j].group] =
                      [saved |-> TRUE, of |-> [k \in Shared |-> job[j].copy[k]]]]
  /\ Goes(j, "old")
  /\ UNCHANGED <<adk, exists, writes, spent, fresh, current, groups, contexts, overlapped>>

\* get_session once more, for the recreation.
LoadOld(j) ==
  /\ job[j].at = "old"
  /\ job' = [job EXCEPT ![j].at = "merge", ![j].copy = adk]
  /\ UNCHANGED <<adk, exists, writes, spent, fresh, current, groups, checkpoint, contexts, overlapped>>

\* load_taskgroup_checkpoint and the merge, in which the checkpoint wins.
Merge(j) ==
  /\ job[j].at = "merge"
  /\ LET g == job[j].group
         ckpt == IF g # 0 /\ checkpoint[g].saved THEN Shared ELSE {}
     IN  job' = [job EXCEPT ![j].at = "create",
                            ![j].copy = [k \in Keys |-> IF k \in ckpt THEN checkpoint[g].of[k] ELSE @[k]]]
  /\ UNCHANGED <<adk, exists, writes, spent, fresh, current, groups, checkpoint, contexts, overlapped>>

\* create_fresh_session with the critical keys of the merged state.
CreateFresh(j) ==
  /\ job[j].at = "create"
  /\ fresh' = [fresh EXCEPT ![j] = [k \in Keys |-> IF k \in Critical THEN job[j].copy[k] ELSE 0]]
  /\ Goes(j, "created")
  /\ UNCHANGED <<adk, exists, writes, spent, current, groups, checkpoint, contexts, overlapped>>

\* Reading the checkpoint, creating the session or publishing one of the two
\* events raises: WorkerError, after which a fresh session may be left over.
RecreationFails(j) == job[j].at \in {"merge", "create", "created"} /\ Ends(j)

\* The job takes the id of the fresh session, and the tool context moves to it.
MoveContext(j) ==
  /\ job[j].at = "created"
  /\ contexts' = (contexts \ {"work"}) \cup {j}
  /\ job' = [job EXCEPT ![j].at = "recreated", ![j].id = "fresh"]
  /\ UNCHANGED <<adk, exists, writes, spent, fresh, current, groups, checkpoint, overlapped>>

-----------------------------------------------------------------------------
(***************************************************************************)
(* The stage loop, as far as it writes taskgroups and checkpoints.         *)
(***************************************************************************)
\* A new row, which becomes the project's current one.
CreateTaskgroup(j) ==
  /\ job[j].at \in {"stages", "recreated"}
  /\ groups < MaxGroups
  /\ groups' = groups + 1 /\ current' = groups'
  /\ job' = [job EXCEPT ![j].at = "batches", ![j].group = groups']
  /\ UNCHANGED <<adk, exists, writes, spent, fresh, checkpoint, contexts, overlapped>>

\* The state it checkpoints has no project_config and no loaded skills, and a
\* workflow_id of its own.
CheckpointStage(j) ==
  /\ job[j].at = "batches"
  /\ checkpoint' = [checkpoint EXCEPT ![job[j].group] = [saved |-> TRUE, of |-> StageCheckpoint]]
  /\ Goes(j, "stages")
  /\ UNCHANGED <<adk, exists, writes, spent, fresh, current, groups, contexts, overlapped>>

\* The job ends, by itself or by an exception elsewhere.
Close(j) == job[j].at \notin {"idle", "merge", "create", "created"} /\ Ends(j)

\* The worker dies: what it held in memory goes.
WorkerDies ==
  /\ Live # {}
  /\ job' = [j \in Jobs |-> Idle]
  /\ contexts' = {}
  /\ UNCHANGED <<adk, exists, writes, spent, fresh, current, groups, checkpoint, overlapped>>

Next == \/ \E j \in Jobs :
             \/ Open(j) \/ BlockPm(j) \/ EndAgents(j) \/ LoadGroup(j) \/ LoadState(j)
             \/ CheckpointTaskgroup(j) \/ LoadOld(j) \/ Merge(j) \/ CreateFresh(j)
             \/ RecreationFails(j) \/ MoveContext(j)
             \/ CreateTaskgroup(j) \/ CheckpointStage(j) \/ Close(j)
             \/ \E k \in Keys : WriteState(j, k)
        \/ WorkerDies

Spec == Init /\ [][Next]_vars

-----------------------------------------------------------------------------
Places == {"idle", "agents", "stages", "group", "state", "checkpoint", "old", "merge",
           "create", "created", "recreated", "batches"}

States == [Keys -> Nat]

JobRecords == [at: Places, group: 0..MaxGroups, copy: States,
               id: {"none", "work", "fresh"}]

Checkpoints == [saved: BOOLEAN, of: [Shared -> Nat]]

JobOK(r) == /\ r \in JobRecords
            /\ r.at \in {"state", "checkpoint", "batches"} => r.group # 0

TypeOK ==
  /\ adk \in States /\ exists \in BOOLEAN /\ writes \in Nat /\ spent \in Nat
  /\ job \in [Jobs -> JobRecords]
  /\ \A j \in Jobs : JobOK(job[j])
  /\ fresh \in [Jobs -> States]
  /\ groups \in 0..MaxGroups /\ current \in 0..groups
  /\ checkpoint \in [1..MaxGroups -> Checkpoints]
  /\ overlapped \subseteq Jobs

\* The inductive invariant.  While no other job overlaps it, a job alone changes
\* the state and the checkpoints, so what it copies stays up to date.
Agrees(g) == /\ checkpoint[g].saved
             /\ \A k \in Shared : checkpoint[g].of[k] = adk[k]

Carried(j) == \A k \in Critical : fresh[j][k] = adk[k]

\* What the place of a job says of its copies.
Grounded(j) ==
  /\ job[j].at = "checkpoint" => job[j].copy = adk
  /\ job[j].at \in {"old", "merge"} => job[j].group = 0 \/ Agrees(job[j].group)
  /\ job[j].at = "merge" => job[j].copy = adk
  /\ job[j].at = "create" => \A k \in Keys : job[j].copy[k] = adk[k]
  /\ job[j].at \in {"created", "recreated"} => Carried(j)
  /\ job[j].at = "recreated" => j \in contexts

\* Jobs that none overlaps are alone; a session that exists has its limits.
Sole == \A i \in Jobs, j \in Jobs \ overlapped :
          job[i].at # "idle" /\ job[j].at # "idle" => i = j

Limited == /\ \A j \in Jobs : job[j].at # "idle" => exists
           /\ exists => adk["project_config"] # 0

LatestInv == Sole /\ Limited /\ \A j \in Jobs \ overlapped : Grounded(j)

(***************************************************************************)
(* Without an overlapping job, the fresh session has the latest value of   *)
(* every critical key, the limits first of all, whatever checkpoint        *)
(* earlier jobs left in the current taskgroup, and its tools have a        *)
(* context under its id.                                                   *)
(***************************************************************************)
FreshKeepsLatest ==
  \A j \in Jobs \ overlapped : job[j].at = "recreated" =>
     /\ \A k \in Critical : fresh[j][k] = adk[k]
     /\ fresh[j]["project_config"] # 0
     /\ j \in contexts
=============================================================================
