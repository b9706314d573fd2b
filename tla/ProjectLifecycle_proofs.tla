----------------------- MODULE ProjectLifecycle_proofs -----------------------
(***************************************************************************)
(* Theorems about ProjectLifecycle, for any projects, coroutines, sessions *)
(* and bounds.  Each safety invariant is a consequence of an inductive     *)
(* one, stated first.                                                      *)
(***************************************************************************)
EXTENDS ProjectLifecycle, TLAPS

\* A session that passed the check before a deliverable has begun none under
\* the present flag, and one that has begun one will meet the flag next.
PauseInv ==
  \A s \in Sessions :
    /\ late[s] <= 1
    /\ pc[s] \in {"idle", "begin"} => late[s] = 0
    /\ late[s] > 0 => flag[proj[s]] # "none"

\* Only kinds with a target commit, on nothing half handled; only one project
\* at a time is enqueued for.
JobInvOf(o) ==
  /\ o.pc = "commit" =>
       o.kind \in {"pause", "resume", "abort", "resolve", "delegate",
                   "override_pause", "override_resume"}
  /\ o.pc = "enqueue" => o.kind \in {"resolve", "delegate"}
  /\ o.pc \in {"commit", "enqueue"} => o.due = {}
  /\ /\ o.pc \in {"commit", "enqueue"}
     /\ o.kind \in {"resolve", "delegate"}
     => \A p, q \in o.todo : p = q

JobInv == \A j \in Jobs : JobInvOf(job[j])

\* What a job promises to a project, and a project attended by somebody who
\* is not about to leave.
Promises(o, p) ==
  \/ o.pc = "clear" /\ p \in o.todo \cup o.due
  \/ o.pc = "enqueue" /\ p \in o.todo

Staffed(p) ==
  \/ queue[p] > 0
  \/ \E s \in Sessions : proj[s] = p /\ pc[s] # "close"
  \/ \E j \in Jobs : Promises(job[j], p)

\* Why an ACTIVE project may have nobody.
Accounted(p) ==
  \/ halt[p] = "pause" /\ flag[p] # "none"
  \/ halt[p] \in {"stop", "swept", "expired"}
  \/ p \in cut

StaffInv ==
  \A p \in Projects : status[p] = "ACTIVE" => Staffed(p) \/ Accounted(p)

-----------------------------------------------------------------------------
\* The step of a job to what follows it is a job again.
LEMMA AfterType == ASSUME NEW o \in Job PROVE After(o) \in Job
  BY DEF After, Job, Idle, Kind, JobPc, Reason

LEMMA CommittedType == ASSUME NEW o \in Job PROVE Committed(o) \in Job
  BY DEF Committed, Job, Idle, Kind, JobPc, Reason

\* The part of TypeOK that the lifecycle jobs change.
JobsTyped ==
  /\ status' \in [Projects -> ProjectStatus]
  /\ flag' \in [Projects -> Flag]
  /\ queue' \in [Projects -> 0..MaxQueued]
  /\ job' \in [Jobs -> Job]
  /\ late' \in [Sessions -> 0..2]
  /\ halt' \in [Projects -> Halt]
  /\ cut' \subseteq Projects
  /\ UNCHANGED <<key, recordVars, sessionVars>>

LEMMA BeginType ==
  ASSUME TypeOK, NEW j \in Jobs, NEW k \in Kind, NEW at \in JobPc,
         NEW ps \in SUBSET Projects, NEW r \in Reason, Begin(j, k, at, ps, r),
         halt' \in [Projects -> Halt]
  PROVE  JobsTyped
  BY DEF TypeOK, Begin, Job, JobsTyped, redisVars, recordVars, sessionVars

LEMMA StartType ==
  ASSUME TypeOK, NEW j \in Jobs, NEW k \in Kind, NEW at \in JobPc,
         NEW ps \in SUBSET Projects, NEW r \in Reason, Start(j, k, at, ps, r)
  PROVE  JobsTyped
  BY BeginType DEF TypeOK, Start

LEMMA RequestType ==
  ASSUME TypeOK, NEW j \in Jobs, Request(j)
  PROVE  JobsTyped
<1> USE DEF Kind, JobPc, Reason
<1>1. CASE PauseAllProjects(j)
  BY <1>1, StartType DEF PauseAllProjects, WithStatus
<1>2. CASE ResumeAllProjects(j)
  BY <1>2, StartType DEF ResumeAllProjects, WithStatus
<1>3. CASE PauseDirector(j) \/ ResumeDirector(j)
  BY <1>3 DEF PauseDirector, ResumeDirector, TypeOK, Job, Idle, JobsTyped,
              redisVars, recordVars, sessionVars
<1>4. ASSUME NEW p \in Projects,
             \/ PauseProject(j, p) \/ ResumeProject(j, p) \/ AbortProject(j, p)
             \/ ApplyResolution(j, p) \/ DelegateToPm(j, p) \/ OverridePm(j, p)
      PROVE  JobsTyped
  <2> {p} \in SUBSET Projects
    OBVIOUS
  <2>1. CASE PauseProject(j, p)
    BY <2>1, StartType DEF PauseProject
  <2>2. CASE ResumeProject(j, p)
    BY <2>2, StartType DEF ResumeProject
  <2>3. CASE AbortProject(j, p)
    BY <2>3, StartType DEF AbortProject
  <2>4. CASE ApplyResolution(j, p)
    <3>1. CASE Start(j, "resolve", "commit", {p}, "user")
      BY <3>1, StartType
    <3>2. CASE /\ Begin(j, "resolve", "enqueue", {p}, "user")
               /\ halt' = [halt EXCEPT ![p] = "none"]
      <4>1. halt' \in [Projects -> Halt]
        BY <3>2 DEF TypeOK, Halt
      <4> QED
        BY <3>2, <4>1, BeginType
    <3> QED
      BY <2>4, <3>1, <3>2 DEF ApplyResolution
  <2>5. CASE DelegateToPm(j, p)
    BY <2>5, StartType DEF DelegateToPm
  <2>6. CASE OverridePm(j, p)
    BY <2>6, StartType DEF OverridePm
  <2> QED
    BY <1>4, <2>1, <2>2, <2>3, <2>4, <2>5, <2>6
<1> QED
  BY <1>1, <1>2, <1>3, <1>4 DEF Request

\* Lowering a flag keeps flags and counters typed, and so does the reason a
\* flag that went without a resume leaves.
LEMMA LowerType ==
  ASSUME TypeOK, NEW p \in Projects, Lower(p)
  PROVE  flag' \in [Projects -> Flag] /\ late' \in [Sessions -> 0..2]
  BY DEF TypeOK, Lower, Flag, Reason

LEMMA ForgetType ==
  ASSUME TypeOK, NEW p \in Projects, NEW how \in Halt, Forget(p, how)
  PROVE  halt' \in [Projects -> Halt]
  BY DEF TypeOK, Forget

\* A job's own record, changed within its type, keeps the jobs typed.
LEMMA JobUpdate ==
  ASSUME TypeOK, NEW j \in Jobs, NEW o \in Job
  PROVE  [job EXCEPT ![j] = o] \in [Jobs -> Job]
  BY DEF TypeOK

LEMMA JobStepType ==
  ASSUME TypeOK, NEW j \in Jobs, JobStep(j)
  PROVE  JobsTyped
<1> USE DEF JobPc
<1>0. job[j] \in Job /\ Idle \in Job
  BY DEF TypeOK, Job, Idle, Kind, Reason
<1>1. CASE CommitStatus(j)
  <2>1. Target(job[j].kind) \in ProjectStatus
    BY DEF Target, ProjectStatus
  <2>2. Committed(job[j]) \in Job
    BY <1>0, CommittedType
  <2> QED
    BY <1>1, <2>1, <2>2, JobUpdate
       DEF CommitStatus, TypeOK, JobsTyped, Halt, redisVars, recordVars,
           sessionVars
<1>2. CASE SelectProjects(j)
  <2>1. WithStatus("ACTIVE") \subseteq Projects /\ WithStatus("PAUSED") \subseteq Projects
    BY DEF WithStatus
  <2>2. [job[j] EXCEPT !.pc = "flag", !.todo = WithStatus("ACTIVE")] \in Job
    BY <1>0, <2>1 DEF Job
  <2>3. [job[j] EXCEPT !.pc = "read", !.todo = WithStatus("PAUSED")] \in Job
    BY <1>0, <2>1 DEF Job
  <2>4. PICK o \in Job : job' = [job EXCEPT ![j] = o]
    BY <1>2, <2>2, <2>3, AfterType DEF SelectProjects, TypeOK
  <2> QED
    BY <1>2, <2>4, JobUpdate
       DEF SelectProjects, TypeOK, JobsTyped, redisVars, recordVars, sessionVars
<1>3. CASE CommitResumed(j)
  <2>1. [job[j] EXCEPT !.pc = "clear", !.todo = job[j].due, !.due = {}] \in Job
    BY <1>0 DEF Job
  <2>2. PICK o \in Job : job' = [job EXCEPT ![j] = o]
    BY <1>3, <2>1, AfterType DEF CommitResumed, TypeOK
  <2> QED
    BY <1>3, <2>2, JobUpdate
       DEF CommitResumed, TypeOK, JobsTyped, ProjectStatus, Halt, redisVars,
           recordVars, sessionVars
<1>4. CASE SelectSweep(j)
  <2>1. [job[j] EXCEPT !.pc = "sweep_read", !.todo = WithStatus("ACTIVE")] \in Job
    BY <1>0 DEF Job, WithStatus
  <2>2. PICK o \in Job : job' = [job EXCEPT ![j] = o]
    BY <1>4, <2>1, AfterType DEF SelectSweep, TypeOK
  <2> QED
    BY <1>4, <2>2, JobUpdate
       DEF SelectSweep, TypeOK, JobsTyped, redisVars, recordVars, sessionVars
<1>5. ASSUME NEW p \in Projects, SetFlag(j, p)
      PROVE  JobsTyped
  <2>1. After([job[j] EXCEPT !.todo = @ \ {p}]) \in Job
    BY <1>0, AfterType DEF Job
  <2>2. job[j].reason \in Flag
    BY <1>0 DEF Job, Flag
  <2> QED
    BY <1>5, <2>1, <2>2, JobUpdate
       DEF SetFlag, TypeOK, JobsTyped, redisVars, recordVars, sessionVars
<1>6. ASSUME NEW p \in Projects, ClearFlag(j, p)
      PROVE  JobsTyped
  <2>1. [job[j] EXCEPT !.todo = @ \ {p}, !.due = {p}] \in Job
    BY <1>0 DEF Job
  <2>2. job' = [job EXCEPT ![j] = [job[j] EXCEPT !.todo = @ \ {p}, !.due = {p}]]
    BY <1>6 DEF ClearFlag, TypeOK, Job
  <2> QED
    BY <1>6, <2>1, <2>2, JobUpdate, LowerType
       DEF ClearFlag, TypeOK, JobsTyped, recordVars, sessionVars
<1>7. ASSUME NEW p \in Projects, EnqueueResumed(j, p)
      PROVE  JobsTyped
  <2>1. After([job[j] EXCEPT !.due = @ \ {p}]) \in Job
    BY <1>0, AfterType DEF Job
  <2> QED
    BY <1>7, <2>1, JobUpdate, BoundAssumption
       DEF EnqueueResumed, Enqueued, TypeOK, JobsTyped, redisVars, recordVars,
           sessionVars
<1>8. ASSUME NEW p \in Projects, EnqueueSession(j, p)
      PROVE  JobsTyped
  <2>1. [job[j] EXCEPT !.pc = "commit"] \in Job
    BY <1>0 DEF Job
  <2>2. PICK o \in Job : job' = [job EXCEPT ![j] = o]
    BY <1>8, <1>0, <2>1 DEF EnqueueSession, TypeOK
  <2> QED
    BY <1>8, <2>2, JobUpdate, BoundAssumption
       DEF EnqueueSession, Enqueued, TypeOK, JobsTyped, redisVars, recordVars,
           sessionVars
<1>9. ASSUME NEW p \in Projects, ReadFlag(j, p)
      PROVE  JobsTyped
  <2>1. PICK d \in SUBSET Projects :
          job' = [job EXCEPT ![j].todo = @ \ {p}, ![j].due = d]
    BY <1>9, <1>0 DEF ReadFlag, TypeOK, Job
  <2>2. [job[j] EXCEPT !.todo = @ \ {p}, !.due = d] \in Job
    BY <1>0 DEF Job
  <2>3. job' = [job EXCEPT ![j] = [job[j] EXCEPT !.todo = @ \ {p}, !.due = d]]
    BY <1>0, <2>1 DEF TypeOK
  <2>4. job' \in [Jobs -> Job]
    BY <2>2, <2>3, JobUpdate
  <2> QED
    BY <1>9, <2>4
       DEF ReadFlag, TypeOK, JobsTyped, redisVars, recordVars, sessionVars
<1>10. ASSUME NEW p \in Projects, SweepRead(j, p)
       PROVE  JobsTyped
  <2>1. [job[j] EXCEPT !.todo = @ \ {p}, !.due = {p}] \in Job
    BY <1>0 DEF Job
  <2>2. [job[j] EXCEPT !.todo = @ \ {p}, !.due = {}] \in Job
    BY <1>0 DEF Job
  <2>3. PICK o \in Job : job' = [job EXCEPT ![j] = o]
    BY <1>10, <2>1, <2>2, AfterType DEF SweepRead, TypeOK
  <2> QED
    BY <1>10, <2>3, JobUpdate
       DEF SweepRead, TypeOK, JobsTyped, redisVars, recordVars, sessionVars
<1>11. ASSUME NEW p \in Projects, SweepFlag(j, p)
       PROVE  JobsTyped
  <2>1. After([job[j] EXCEPT !.due = {}]) \in Job
    BY <1>0, AfterType DEF Job
  <2> QED
    BY <1>11, <2>1, JobUpdate, LowerType, ForgetType
       DEF SweepFlag, TypeOK, JobsTyped, Halt, recordVars, sessionVars
<1> QED
  BY <1>1, <1>2, <1>3, <1>4, <1>5, <1>6, <1>7, <1>8, <1>9, <1>10, <1>11
     DEF JobStep

-----------------------------------------------------------------------------
LEMMA SessionStepType ==
  ASSUME TypeOK, NEW s \in Sessions, SessionStep(s)
  PROVE  TypeOK'
<1> USE BoundAssumption DEF SessionPc, Halt
<1>0. pc[s] # "idle" => proj[s] \in Projects
  BY DEF TypeOK
<1>1. CASE ActivateProject(s)
  BY <1>0, <1>1 DEF ActivateProject, Goto, Stop, TypeOK, ProjectStatus, redisVars, recordVars
<1>2. CASE OpenSession(s)
  BY <1>0, <1>2 DEF OpenSession, Goto, Stop, TypeOK, redisVars
<1>3. CASE CheckPause(s)
  <2>0. pc[s] = "check" /\ UNCHANGED <<status, redisVars, queue, escalated, job, late, cut>>
    BY <1>3 DEF CheckPause
  <2>1. CASE Stop(s, "pause") /\ UNCHANGED stagesDone
    BY <1>0, <2>0, <2>1 DEF Stop, Goto, TypeOK, redisVars
  <2>2. CASE /\ \E n \in 1..MaxBatch : left' = [left EXCEPT ![s] = n]
             /\ pc' = [pc EXCEPT ![s] = "next"]
             /\ UNCHANGED <<proj, halt, stagesDone>>
    BY <1>0, <2>0, <2>2 DEF TypeOK, redisVars
  <2>3. CASE Stop(s, "stop") /\ UNCHANGED stagesDone
    BY <1>0, <2>0, <2>3 DEF Stop, Goto, TypeOK, redisVars
  <2>4. CASE /\ stagesDone' = stagesDone \cup {proj[s]}
             /\ Goto(s, "complete") /\ UNCHANGED halt
    BY <1>0, <2>0, <2>4 DEF Goto, TypeOK, redisVars
  <2> QED
    BY <1>3, <2>1, <2>2, <2>3, <2>4 DEF CheckPause
<1>4. CASE CheckNext(s)
  BY <1>0, <1>4 DEF CheckNext, Goto, Stop, TypeOK, redisVars, recordVars
<1>5. CASE BeginDeliverable(s)
  BY <1>0, <1>5 DEF BeginDeliverable, Goto, Stop, TypeOK, redisVars, recordVars
<1>6. CASE BatchOutcome(s)
  BY <1>0, <1>6 DEF BatchOutcome, Goto, Stop, TypeOK, redisVars, recordVars
<1>7. CASE SuspendProject(s)
  BY <1>0, <1>7 DEF SuspendProject, Goto, Stop, TypeOK, ProjectStatus, redisVars, recordVars
<1>8. CASE CompleteProject(s)
  BY <1>0, <1>8 DEF CompleteProject, Goto, Stop, TypeOK, ProjectStatus, redisVars, recordVars
<1>9. CASE CloseSession(s)
  BY <1>0, <1>9 DEF CloseSession, TypeOK, Leave, recordVars
<1> QED
  BY <1>1, <1>2, <1>3, <1>4, <1>5, <1>6, <1>7, <1>8, <1>9 DEF SessionStep

(***************************************************************************)
(* The system is well typed whatever its projects, coroutines and bounds:  *)
(* statuses, flags, queue lengths and the sessions' batches stay in range, *)
(* and a session has a project exactly while it runs.                      *)
(***************************************************************************)
THEOREM TypeCorrect == Spec => []TypeOK
<1>1. Init => TypeOK
  BY ProjectAssumption, BoundAssumption
     DEF Init, TypeOK, ProjectStatus, Flag, Job, Idle, Kind, JobPc, Reason,
         SessionPc, Halt
<1>2. TypeOK /\ [Next]_vars => TypeOK'
  <2> SUFFICES ASSUME TypeOK, [Next]_vars PROVE TypeOK'
    OBVIOUS
  <2>1. ASSUME NEW j \in Jobs, Request(j) \/ JobStep(j)
        PROVE  TypeOK'
    BY <2>1, RequestType, JobStepType
       DEF JobsTyped, TypeOK, recordVars, sessionVars
  <2>2. ASSUME NEW j \in Jobs, KillJob(j)
        PROVE  TypeOK'
    <3>1. Idle \in Job /\ job[j] \in Job
      BY DEF TypeOK, Job, Idle, Kind, JobPc, Reason
    <3> QED
      BY <2>2, <3>1, JobUpdate
         DEF KillJob, TypeOK, Job, redisVars, recordVars, sessionVars
  <2>3. ASSUME NEW s \in Sessions, SessionStep(s)
        PROVE  TypeOK'
    BY <2>3, SessionStepType
  <2>4. ASSUME NEW s \in Sessions, FailSession(s)
        PROVE  TypeOK'
    BY <2>4, BoundAssumption DEF FailSession, Leave, TypeOK, SessionPc, Halt
  <2>5. ASSUME NEW s \in Sessions, KillSession(s)
        PROVE  TypeOK'
    BY <2>5, BoundAssumption
       DEF KillSession, Leave, Enqueued, TypeOK, SessionPc, redisVars, recordVars
  <2>6. ASSUME NEW s \in Sessions, NEW p \in Projects, TakeSession(s, p)
        PROVE  TypeOK'
    BY <2>6, ProjectAssumption, BoundAssumption
       DEF TakeSession, TypeOK, SessionPc, Halt, redisVars, recordVars
  <2>7. ASSUME NEW p \in Projects, ExpireFlag(p)
        PROVE  TypeOK'
    BY <2>7, LowerType, ForgetType
       DEF ExpireFlag, TypeOK, Halt, recordVars, sessionVars
  <2>8. ASSUME NEW p \in Projects, ExpireKey(p)
        PROVE  TypeOK'
    BY <2>8 DEF ExpireKey, TypeOK, recordVars, sessionVars
  <2>9. CASE UNCHANGED vars
    BY <2>9 DEF vars, TypeOK, redisVars, recordVars, sessionVars
  <2> QED
    BY <2>1, <2>2, <2>3, <2>4, <2>5, <2>6, <2>7, <2>8, <2>9 DEF Next
<1> QED
  BY <1>1, <1>2, PTL DEF Spec

-----------------------------------------------------------------------------
(***************************************************************************)
(* No step of a lifecycle job touches a session, and the counter of late   *)
(* deliverables changes only when a flag goes down.                        *)
(***************************************************************************)
LEMMA RequestFrame ==
  ASSUME NEW j \in Jobs, Request(j)
  PROVE  UNCHANGED <<status, redisVars, queue, recordVars, sessionVars, late,
                     cut>>
  BY DEF Request, PauseAllProjects, ResumeAllProjects, PauseDirector,
         ResumeDirector, PauseProject, ResumeProject, AbortProject,
         ApplyResolution, DelegateToPm, OverridePm, Start, Begin

LEMMA JobStepFrame ==
  ASSUME NEW j \in Jobs, JobStep(j)
  PROVE  /\ UNCHANGED <<key, recordVars, sessionVars, cut>>
         /\ \/ UNCHANGED <<flag, late>>
            \/ \E p \in Projects : Lower(p)
            \/ /\ \E p \in Projects : flag' = [flag EXCEPT ![p] = job[j].reason]
               /\ UNCHANGED late
<1>1. CASE CommitStatus(j) \/ SelectProjects(j) \/ CommitResumed(j) \/ SelectSweep(j)
  BY <1>1 DEF CommitStatus, SelectProjects, CommitResumed, SelectSweep, redisVars
<1>2. ASSUME NEW p \in Projects, SetFlag(j, p) \/ ClearFlag(j, p) \/ SweepFlag(j, p)
      PROVE  /\ UNCHANGED <<key, recordVars, sessionVars, cut>>
             /\ \/ Lower(p)
                \/ flag' = [flag EXCEPT ![p] = job[j].reason] /\ UNCHANGED late
  BY <1>2 DEF SetFlag, ClearFlag, SweepFlag
<1>3. ASSUME NEW p \in Projects,
             \/ EnqueueResumed(j, p) \/ EnqueueSession(j, p)
             \/ ReadFlag(j, p) \/ SweepRead(j, p)
      PROVE  UNCHANGED <<redisVars, recordVars, sessionVars, late, cut>>
  BY <1>3 DEF EnqueueResumed, EnqueueSession, ReadFlag, SweepRead
<1> QED
  BY <1>1, <1>2, <1>3 DEF JobStep, redisVars

LEMMA LowerPause ==
  ASSUME TypeOK, PauseInv, NEW p \in Projects, Lower(p), UNCHANGED sessionVars
  PROVE  PauseInv'
  BY DEF TypeOK, PauseInv, Lower, sessionVars

(***************************************************************************)
(* Pausing lets a session finish the deliverable it is on and begin at     *)
(* most one more, whatever number of pauses, resumes and sessions overlap: *)
(* the flag is read between any two deliverables, after the last one the   *)
(* counter can have counted.                                               *)
(***************************************************************************)
THEOREM PauseStopsWorkHolds == Spec => []PauseStopsWork
<1>1. Init => PauseInv
  BY DEF Init, PauseInv
<1>2. TypeOK /\ PauseInv /\ [Next]_vars => PauseInv'
  <2> SUFFICES ASSUME TypeOK, PauseInv, [Next]_vars PROVE PauseInv'
    OBVIOUS
  <2> USE DEF PauseInv
  <2>1. ASSUME NEW j \in Jobs, Request(j) PROVE PauseInv'
    BY <2>1, RequestFrame DEF redisVars, sessionVars
  <2>2. ASSUME NEW j \in Jobs, JobStep(j) PROVE PauseInv'
    <3>1. CASE UNCHANGED <<flag, late>>
      BY <2>2, <3>1, JobStepFrame DEF sessionVars
    <3>2. ASSUME NEW p \in Projects, Lower(p) PROVE PauseInv'
      BY <2>2, <3>2, JobStepFrame, LowerPause
    <3>3. ASSUME NEW p \in Projects, flag' = [flag EXCEPT ![p] = job[j].reason],
                 UNCHANGED late
          PROVE  PauseInv'
      <4>1. job[j].reason # "none"
        BY DEF TypeOK, Job, Reason
      <4> QED
        BY <2>2, <3>3, <4>1, JobStepFrame DEF TypeOK, sessionVars
    <3> QED
      BY <2>2, <3>1, <3>2, <3>3, JobStepFrame
  <2>3. ASSUME NEW j \in Jobs, KillJob(j) PROVE PauseInv'
    BY <2>3 DEF KillJob, redisVars, sessionVars
  <2>4. ASSUME NEW s \in Sessions, SessionStep(s) PROVE PauseInv'
    <3>1. CASE BeginDeliverable(s)
      BY <2>4, <3>1 DEF BeginDeliverable, TypeOK, redisVars
    <3>2. CASE CheckNext(s)
      BY <3>2 DEF CheckNext, Stop, Goto, TypeOK, redisVars
    <3>3. CASE CloseSession(s)
      BY <3>3 DEF CloseSession, Leave, TypeOK
    <3>4. CASE CheckPause(s)
      BY <3>4 DEF CheckPause, Stop, Goto, TypeOK, redisVars
    <3>5. CASE ActivateProject(s) \/ OpenSession(s) \/ BatchOutcome(s)
               \/ SuspendProject(s) \/ CompleteProject(s)
      BY <3>5 DEF ActivateProject, OpenSession, BatchOutcome, SuspendProject,
                  CompleteProject, Stop, Goto, TypeOK, redisVars
    <3> QED
      BY <2>4, <3>1, <3>2, <3>3, <3>4, <3>5 DEF SessionStep
  <2>5. ASSUME NEW s \in Sessions, FailSession(s) \/ KillSession(s) PROVE PauseInv'
    BY <2>5 DEF FailSession, KillSession, Leave, TypeOK, redisVars
  <2>6. ASSUME NEW s \in Sessions, NEW p \in Projects, TakeSession(s, p)
        PROVE  PauseInv'
    BY <2>6 DEF TakeSession, TypeOK, redisVars
  <2>7. ASSUME NEW p \in Projects, ExpireFlag(p) PROVE PauseInv'
    BY <2>7, LowerPause DEF ExpireFlag
  <2>8. ASSUME NEW p \in Projects, ExpireKey(p) PROVE PauseInv'
    BY <2>8 DEF ExpireKey, sessionVars
  <2>9. CASE UNCHANGED vars
    BY <2>9 DEF vars, redisVars, sessionVars
  <2> QED
    BY <2>1, <2>2, <2>3, <2>4, <2>5, <2>6, <2>7, <2>8, <2>9 DEF Next
<1>3. PauseInv => PauseStopsWork
  BY DEF PauseInv, PauseStopsWork
<1> QED
  BY <1>1, <1>2, <1>3, TypeCorrect, PTL DEF Spec

-----------------------------------------------------------------------------
(***************************************************************************)
(* The work-session key of a project no job of which was killed is up only *)
(* while one of its sessions runs between raising and lowering it.         *)
(***************************************************************************)
THEOREM KeyNotLeakedHolds == Spec => []KeyNotLeaked
<1>1. Init => KeyNotLeaked
  BY DEF Init, KeyNotLeaked
<1>2. TypeOK /\ KeyNotLeaked /\ [Next]_vars => KeyNotLeaked'
  <2> SUFFICES ASSUME TypeOK, KeyNotLeaked, [Next]_vars PROVE KeyNotLeaked'
    OBVIOUS
  <2> USE DEF KeyNotLeaked, Open, SessionPc
  <2>1. ASSUME NEW j \in Jobs, Request(j) PROVE KeyNotLeaked'
    BY <2>1, RequestFrame DEF redisVars, sessionVars
  <2>2. ASSUME NEW j \in Jobs, JobStep(j) PROVE KeyNotLeaked'
    BY <2>2, JobStepFrame DEF sessionVars
  <2>3. ASSUME NEW j \in Jobs, KillJob(j) PROVE KeyNotLeaked'
    BY <2>3 DEF KillJob, redisVars, sessionVars
  <2>4. ASSUME NEW s \in Sessions, SessionStep(s) PROVE KeyNotLeaked'
    <3>1. CASE CloseSession(s)
      BY <3>1 DEF CloseSession, Leave, TypeOK
    <3>2. CASE OpenSession(s)
      BY <3>2 DEF OpenSession, Goto, TypeOK
    <3>3. CASE ActivateProject(s) \/ CheckPause(s) \/ CheckNext(s)
               \/ BeginDeliverable(s) \/ BatchOutcome(s)
               \/ SuspendProject(s) \/ CompleteProject(s)
      <4>1. UNCHANGED <<key, proj, cut>>
        BY <3>3 DEF ActivateProject, CheckPause, CheckNext, BeginDeliverable,
                    BatchOutcome, SuspendProject, CompleteProject, Stop, Goto,
                    redisVars
      <4>2. pc[s] \in Open => pc'[s] \in Open
        BY <3>3 DEF ActivateProject, CheckPause, CheckNext, BeginDeliverable,
                    BatchOutcome, SuspendProject, CompleteProject, Stop, Goto,
                    TypeOK
      <4>3. \A t \in Sessions : t # s => pc'[t] = pc[t]
        BY <3>3 DEF ActivateProject, CheckPause, CheckNext, BeginDeliverable,
                    BatchOutcome, SuspendProject, CompleteProject, Stop, Goto,
                    TypeOK
      <4> QED
        BY <4>1, <4>2, <4>3 DEF TypeOK
    <3> QED
      BY <2>4, <3>1, <3>2, <3>3 DEF SessionStep
  <2>5. ASSUME NEW s \in Sessions, FailSession(s) PROVE KeyNotLeaked'
    BY <2>5 DEF FailSession, Leave, TypeOK
  <2>6. ASSUME NEW s \in Sessions, KillSession(s) PROVE KeyNotLeaked'
    BY <2>6 DEF KillSession, Leave, TypeOK, redisVars
  <2>7. ASSUME NEW s \in Sessions, NEW p \in Projects, TakeSession(s, p)
        PROVE  KeyNotLeaked'
    BY <2>7 DEF TakeSession, TypeOK, redisVars
  <2>8. ASSUME NEW p \in Projects, ExpireFlag(p) \/ ExpireKey(p)
        PROVE  KeyNotLeaked'
    BY <2>8 DEF ExpireFlag, ExpireKey, TypeOK, sessionVars
  <2>9. CASE UNCHANGED vars
    BY <2>9 DEF vars, redisVars, sessionVars
  <2> QED
    BY <2>1, <2>2, <2>3, <2>4, <2>5, <2>6, <2>7, <2>8, <2>9 DEF Next
<1> QED
  BY <1>1, <1>2, TypeCorrect, PTL DEF Spec

-----------------------------------------------------------------------------
\* Only the job that steps changes.
LEMMA RequestOthers ==
  ASSUME TypeOK, NEW j \in Jobs, Request(j), NEW i \in Jobs, i # j
  PROVE  job'[i] = job[i]
  BY DEF Request, PauseAllProjects, ResumeAllProjects, PauseDirector,
         ResumeDirector, PauseProject, ResumeProject, AbortProject,
         ApplyResolution, DelegateToPm, OverridePm, Start, Begin, TypeOK

LEMMA JobStepOthers ==
  ASSUME TypeOK, NEW j \in Jobs, JobStep(j), NEW i \in Jobs, i # j
  PROVE  job'[i] = job[i]
  BY DEF JobStep, CommitStatus, SelectProjects, CommitResumed, SelectSweep,
         SetFlag, ClearFlag, EnqueueResumed, EnqueueSession, ReadFlag,
         SweepRead, SweepFlag, TypeOK

LEMMA JobInvRequest ==
  ASSUME TypeOK, NEW j \in Jobs, Request(j)
  PROVE  JobInvOf(job'[j]) /\ job[j] = Idle
<1>1. CASE PauseDirector(j) \/ ResumeDirector(j)
  BY <1>1 DEF PauseDirector, ResumeDirector, JobInvOf, TypeOK, Job
<1>2. CASE PauseAllProjects(j) \/ ResumeAllProjects(j)
  BY <1>2 DEF PauseAllProjects, ResumeAllProjects, Start, Begin, JobInvOf, TypeOK
<1>3. ASSUME NEW p \in Projects,
             \/ PauseProject(j, p) \/ ResumeProject(j, p)
             \/ AbortProject(j, p) \/ DelegateToPm(j, p) \/ OverridePm(j, p)
      PROVE  JobInvOf(job'[j]) /\ job[j] = Idle
  BY <1>3 DEF PauseProject, ResumeProject, AbortProject, DelegateToPm,
              OverridePm, Start, Begin, JobInvOf, TypeOK
<1>4. ASSUME NEW p \in Projects, ApplyResolution(j, p)
      PROVE  JobInvOf(job'[j]) /\ job[j] = Idle
  BY <1>4 DEF ApplyResolution, Start, Begin, JobInvOf, TypeOK
<1> QED
  BY <1>1, <1>2, <1>3, <1>4 DEF Request

\* Where a job may go from a phase that is neither commit nor enqueue.
LEMMA JobInvAfter ==
  ASSUME NEW o \in Job, o.pc \notin {"commit", "enqueue"}
  PROVE  JobInvOf(After(o))
  BY DEF After, Idle, JobInvOf, Job

LEMMA JobInvJobStep ==
  ASSUME TypeOK, JobInv, NEW j \in Jobs, JobStep(j)
  PROVE  JobInvOf(job'[j])
<1>0. job[j] \in Job /\ JobInvOf(job[j])
  BY DEF TypeOK, JobInv
<1>1. CASE CommitStatus(j)
  BY <1>0, <1>1 DEF CommitStatus, Committed, Idle, JobInvOf, TypeOK, Job
<1>2. CASE SelectProjects(j)
  <2>1. [job[j] EXCEPT !.pc = "flag", !.todo = WithStatus("ACTIVE")] \in Job
    BY <1>0 DEF Job, JobPc, WithStatus
  <2>2. CASE job[j].kind = "pause_director"
    BY <1>0, <1>2, <2>1, <2>2, JobInvAfter DEF SelectProjects, TypeOK, Job
  <2>3. CASE job[j].kind # "pause_director"
    BY <1>0, <1>2, <2>3 DEF SelectProjects, TypeOK, Job, JobInvOf
  <2> QED
    BY <2>2, <2>3
<1>3. CASE CommitResumed(j)
  <2>1. [job[j] EXCEPT !.pc = "clear", !.todo = job[j].due, !.due = {}] \in Job
    BY <1>0 DEF Job, JobPc
  <2> QED
    BY <1>0, <1>3, <2>1, JobInvAfter DEF CommitResumed, TypeOK, Job
<1>4. CASE SelectSweep(j)
  <2>1. [job[j] EXCEPT !.pc = "sweep_read", !.todo = WithStatus("ACTIVE")] \in Job
    BY <1>0 DEF Job, JobPc, WithStatus
  <2> QED
    BY <1>0, <1>4, <2>1, JobInvAfter DEF SelectSweep, TypeOK, Job
<1>5. ASSUME NEW p \in Projects, SetFlag(j, p)
      PROVE  JobInvOf(job'[j])
  <2>1. [job[j] EXCEPT !.todo = @ \ {p}] \in Job
    BY <1>0 DEF Job
  <2> QED
    BY <1>0, <1>5, <2>1, JobInvAfter DEF SetFlag, TypeOK, Job
<1>6. ASSUME NEW p \in Projects, ClearFlag(j, p)
      PROVE  JobInvOf(job'[j])
  BY <1>0, <1>6 DEF ClearFlag, TypeOK, Job, JobInvOf
<1>7. ASSUME NEW p \in Projects, EnqueueResumed(j, p)
      PROVE  JobInvOf(job'[j])
  <2>1. [job[j] EXCEPT !.due = @ \ {p}] \in Job
    BY <1>0 DEF Job
  <2> QED
    BY <1>0, <1>7, <2>1, JobInvAfter DEF EnqueueResumed, TypeOK, Job
<1>8. ASSUME NEW p \in Projects, EnqueueSession(j, p)
      PROVE  JobInvOf(job'[j])
  BY <1>0, <1>8 DEF EnqueueSession, Idle, TypeOK, Job, JobInvOf
<1>9. ASSUME NEW p \in Projects, ReadFlag(j, p)
      PROVE  JobInvOf(job'[j])
  BY <1>0, <1>9 DEF ReadFlag, TypeOK, Job, JobInvOf
<1>10. ASSUME NEW p \in Projects, SweepRead(j, p)
       PROVE  JobInvOf(job'[j])
  <2>1. \A d \in {{p}, {}} : [job[j] EXCEPT !.todo = @ \ {p}, !.due = d] \in Job
    BY <1>0 DEF Job
  <2> QED
    BY <1>0, <1>10, <2>1, JobInvAfter DEF SweepRead, TypeOK, Job
<1>11. ASSUME NEW p \in Projects, SweepFlag(j, p)
       PROVE  JobInvOf(job'[j])
  <2>1. [job[j] EXCEPT !.due = {}] \in Job
    BY <1>0 DEF Job
  <2> QED
    BY <1>0, <1>11, <2>1, JobInvAfter DEF SweepFlag, TypeOK, Job
<1> QED
  BY <1>1, <1>2, <1>3, <1>4, <1>5, <1>6, <1>7, <1>8, <1>9, <1>10, <1>11
     DEF JobStep

-----------------------------------------------------------------------------
\* A step that neither changes a session nor the queue, and keeps what the
\* jobs promise, keeps a project staffed.
LEMMA StaffedKept ==
  ASSUME NEW p \in Projects, Staffed(p), UNCHANGED <<queue, sessionVars>>,
         \A j \in Jobs : Promises(job[j], p) => Promises(job'[j], p)
  PROVE  Staffed(p)'
  BY DEF Staffed, Promises, sessionVars

\* What accounts for a project is kept by a step that leaves the reason
\* alone and lowers no flag of it.
LEMMA AccountedKept ==
  ASSUME NEW p \in Projects, Accounted(p), halt'[p] = halt[p],
         flag'[p] = "none" => flag[p] = "none", cut \subseteq cut'
  PROVE  Accounted(p)'
  BY DEF Accounted

LEMMA StaffRequest ==
  ASSUME TypeOK, StaffInv, NEW j \in Jobs, Request(j)
  PROVE  StaffInv'
<1>1. UNCHANGED <<status, flag, queue, sessionVars, cut>>
  BY RequestFrame DEF redisVars
<1>2. \A i \in Jobs, p \in Projects :
         Promises(job[i], p) => Promises(job'[i], p)
  BY RequestOthers, JobInvRequest DEF Promises, Idle
<1>3. CASE UNCHANGED halt
  BY <1>1, <1>2, <1>3, StaffedKept, AccountedKept DEF StaffInv
<1>4. ASSUME NEW p \in Projects, Begin(j, "resolve", "enqueue", {p}, "user"),
             halt' = [halt EXCEPT ![p] = "none"]
      PROVE  StaffInv'
  \* the resolution forgets why work stopped, and promises a session
  <2>1. Promises(job'[j], p)
    BY <1>4 DEF Begin, Promises, TypeOK
  <2>2. Staffed(p)'
    BY <2>1 DEF Staffed
  <2>3. \A q \in Projects : q # p => halt'[q] = halt[q]
    BY <1>4 DEF TypeOK
  <2> QED
    BY <1>1, <1>2, <2>2, <2>3, StaffedKept, AccountedKept DEF StaffInv
<1>5. UNCHANGED halt \/ \E p \in Projects :
        /\ Begin(j, "resolve", "enqueue", {p}, "user")
        /\ halt' = [halt EXCEPT ![p] = "none"]
  BY DEF Request, PauseAllProjects, ResumeAllProjects, PauseDirector,
         ResumeDirector, PauseProject, ResumeProject, AbortProject,
         ApplyResolution, DelegateToPm, OverridePm, Start
<1> QED
  BY <1>3, <1>4, <1>5

LEMMA StaffJobStep ==
  ASSUME TypeOK, JobInv, StaffInv, NEW j \in Jobs, JobStep(j)
  PROVE  StaffInv'
<1>0. /\ job[j] \in Job /\ JobInvOf(job[j])
      /\ \A i \in Jobs : i # j => job'[i] = job[i]
      /\ UNCHANGED <<sessionVars, cut>>
  BY JobStepOthers, JobStepFrame DEF TypeOK, JobInv
<1>1. SUFFICES ASSUME NEW p \in Projects, status'[p] = "ACTIVE"
               PROVE  Staffed(p)' \/ Accounted(p)'
  BY DEF StaffInv
\* the cases in which the job keeps its promise and changes no status
<1>2. ASSUME UNCHANGED <<status, queue>>, halt'[p] = halt[p],
             flag'[p] = "none" => flag[p] = "none",
             Promises(job[j], p) => Promises(job'[j], p)
      PROVE  Staffed(p)' \/ Accounted(p)'
  <2>1. \A i \in Jobs : Promises(job[i], p) => Promises(job'[i], p)
    BY <1>0, <1>2
  <2> QED
    BY <1>0, <1>1, <1>2, <2>1, StaffedKept, AccountedKept DEF StaffInv
<1>3. CASE CommitStatus(j)
  <2>1. CASE p \in job[j].todo
    <3>1. job[j].kind \in {"resume", "resolve", "delegate", "override_resume"}
      <4>1. Target(job[j].kind) = "ACTIVE"
        BY <1>1, <1>3, <2>1 DEF CommitStatus
      <4>2. job[j].kind \in {"pause", "resume", "abort", "resolve", "delegate",
                             "override_pause", "override_resume"}
        BY <1>0, <1>3 DEF CommitStatus, JobInvOf
      <4> QED
        BY <4>1, <4>2 DEF Target
    <3>2. CASE job[j].kind \in {"resume", "resolve"}
      <4>1. Promises(job'[j], p)
        BY <1>0, <1>3, <2>1, <3>2 DEF CommitStatus, Committed, Promises, TypeOK, Job
      <4> QED
        BY <4>1 DEF Staffed
    <3>3. CASE job[j].kind \in {"delegate", "override_resume"}
      <4>1. CASE InHand(p)
        BY <1>0, <1>3, <4>1 DEF CommitStatus, InHand, Staffed, sessionVars
      <4>2. CASE ~InHand(p)
        BY <1>3, <2>1, <3>3, <4>2 DEF CommitStatus, Accounted, TypeOK
      <4> QED
        BY <4>1, <4>2
    <3> QED
      BY <3>1, <3>2, <3>3
  <2>2. CASE p \notin job[j].todo
    <3>1. \A i \in Jobs : Promises(job[i], p) => Promises(job'[i], p)
      BY <1>0, <1>3 DEF CommitStatus, Promises
    <3>2. status[p] = "ACTIVE" /\ halt'[p] = halt[p] /\ UNCHANGED <<queue, flag>>
      BY <1>1, <1>3, <2>2 DEF CommitStatus, redisVars
    <3> QED
      BY <1>0, <3>1, <3>2, StaffedKept, AccountedKept DEF StaffInv
  <2> QED
    BY <2>1, <2>2
<1>4. CASE CommitResumed(j)
  <2>1. CASE p \in job[j].due
    <3> DEFINE o == [job[j] EXCEPT !.pc = "clear", !.todo = job[j].due, !.due = {}]
    <3>0. o.pc = "clear" /\ o.todo = job[j].due /\ After(o) = o
      BY <1>0, <2>1 DEF After, Job
    <3>1. Promises(job'[j], p)
      <4>1. job'[j] = o
        BY <1>4, <3>0 DEF CommitResumed, TypeOK
      <4> QED
        BY <2>1, <3>0, <4>1 DEF Promises
    <3> QED
      BY <3>1 DEF Staffed
  <2>2. CASE p \notin job[j].due
    <3>1. \A i \in Jobs : Promises(job[i], p) => Promises(job'[i], p)
      BY <1>0, <1>4 DEF CommitResumed, Promises
    <3>2. status[p] = "ACTIVE" /\ halt'[p] = halt[p] /\ UNCHANGED <<queue, flag>>
      BY <1>1, <1>4, <2>2 DEF CommitResumed, redisVars
    <3> QED
      BY <1>0, <3>1, <3>2, StaffedKept, AccountedKept DEF StaffInv
  <2> QED
    BY <2>1, <2>2
<1>5. CASE SelectProjects(j) \/ SelectSweep(j)
  BY <1>2, <1>5 DEF SelectProjects, SelectSweep, Promises, redisVars
<1>6. ASSUME NEW q \in Projects, SetFlag(j, q)
      PROVE  Staffed(p)' \/ Accounted(p)'
  <2>1. job[j].reason # "none"
    BY <1>0 DEF Job, Reason
  <2> QED
    BY <1>2, <1>6, <2>1 DEF SetFlag, Promises, TypeOK
<1>7. ASSUME NEW q \in Projects, ReadFlag(j, q) \/ SweepRead(j, q)
      PROVE  Staffed(p)' \/ Accounted(p)'
  BY <1>2, <1>7 DEF ReadFlag, SweepRead, Promises, redisVars
<1>8. ASSUME NEW q \in Projects, EnqueueResumed(j, q)
      PROVE  Staffed(p)' \/ Accounted(p)'
  <2>1. CASE p = q
    BY <1>8, <2>1 DEF EnqueueResumed, Enqueued, Staffed, TypeOK
  <2>2. CASE p # q
    <3>1. Promises(job[j], p) => Promises(job'[j], p)
      BY <1>0, <1>8, <2>2 DEF EnqueueResumed, After, Promises, TypeOK, Job
    <3>2. Staffed(p) => Staffed(p)'
      BY <1>0, <1>8, <2>2, <3>1
         DEF EnqueueResumed, Enqueued, Staffed, TypeOK, sessionVars
    <3> QED
      BY <1>1, <1>0, <1>8, <3>2, AccountedKept
         DEF EnqueueResumed, StaffInv, redisVars
  <2> QED
    BY <2>1, <2>2
<1>9. ASSUME NEW q \in Projects, EnqueueSession(j, q)
      PROVE  Staffed(p)' \/ Accounted(p)'
  <2>1. CASE p = q
    BY <1>9, <2>1 DEF EnqueueSession, Enqueued, Staffed, TypeOK
  <2>2. CASE p # q
    <3>1. ~Promises(job[j], p)
      BY <1>0, <1>9, <2>2 DEF EnqueueSession, Promises, JobInvOf
    <3>2. Staffed(p) => Staffed(p)'
      BY <1>0, <1>9, <2>2, <3>1
         DEF EnqueueSession, Enqueued, Staffed, TypeOK, sessionVars
    <3> QED
      BY <1>1, <1>0, <1>9, <3>2, AccountedKept
         DEF EnqueueSession, StaffInv, redisVars
  <2> QED
    BY <2>1, <2>2
<1>10. ASSUME NEW q \in Projects, ClearFlag(j, q)
       PROVE  Staffed(p)' \/ Accounted(p)'
  <2>1. Promises(job[j], p) => Promises(job'[j], p)
    BY <1>0, <1>10 DEF ClearFlag, Promises, TypeOK, Job
  <2>2. CASE p = q
    <3>1. Promises(job[j], p)
      BY <1>10, <2>2 DEF ClearFlag, Promises
    <3> QED
      BY <2>1, <3>1 DEF Staffed
  <2>3. CASE p # q
    <3>1. flag'[p] = flag[p]
      BY <1>10, <2>3 DEF ClearFlag, Lower, TypeOK
    <3> QED
      BY <1>2, <1>10, <2>1, <3>1 DEF ClearFlag
  <2> QED
    BY <2>2, <2>3
<1>11. ASSUME NEW q \in Projects, SweepFlag(j, q)
       PROVE  Staffed(p)' \/ Accounted(p)'
  <2>1. ~Promises(job[j], p)
    BY <1>11 DEF SweepFlag, Promises
  <2>2. UNCHANGED <<status, queue>>
    BY <1>11 DEF SweepFlag
  <2>3. CASE p = q /\ halt[p] = "pause"
    BY <1>11, <2>3 DEF SweepFlag, Forget, Accounted, TypeOK
  <2>4. CASE p = q /\ halt[p] # "pause"
    <3>1. halt'[p] = halt[p]
      BY <1>11, <2>4 DEF SweepFlag, Forget, TypeOK
    <3>2. Accounted(p) => Accounted(p)'
      BY <1>0, <2>4, <3>1 DEF Accounted
    <3>3. Staffed(p) => Staffed(p)'
      BY <1>0, <2>1, <2>2, StaffedKept
    <3> QED
      BY <1>1, <2>2, <3>2, <3>3 DEF StaffInv
  <2>5. CASE p # q
    <3>1. flag'[p] = flag[p] /\ halt'[p] = halt[p]
      BY <1>11, <2>5 DEF SweepFlag, Lower, Forget, TypeOK
    <3> QED
      BY <1>2, <2>1, <2>2, <3>1
  <2> QED
    BY <2>3, <2>4, <2>5
<1> QED
  BY <1>3, <1>4, <1>5, <1>6, <1>7, <1>8, <1>9, <1>10, <1>11 DEF JobStep

LEMMA StaffSessionStep ==
  ASSUME TypeOK, StaffInv, NEW s \in Sessions, SessionStep(s)
  PROVE  StaffInv'
<1> USE DEF StaffInv, Staffed, Accounted, redisVars
<1>1. CASE CloseSession(s)
  BY <1>1 DEF CloseSession, Leave, TypeOK
<1>2. CASE BatchOutcome(s)
  BY <1>2 DEF BatchOutcome, Goto, Stop, TerminalStatus, TypeOK
<1>3. CASE SuspendProject(s) \/ CompleteProject(s)
  BY <1>3 DEF SuspendProject, CompleteProject, Goto, TypeOK
<1>4. CASE ActivateProject(s) \/ OpenSession(s)
  BY <1>4 DEF ActivateProject, OpenSession, Goto, TypeOK
<1>5. CASE CheckPause(s)
  BY <1>5 DEF CheckPause, Goto, Stop, TypeOK
<1>6. CASE CheckNext(s) \/ BeginDeliverable(s)
  BY <1>6 DEF CheckNext, BeginDeliverable, Goto, Stop, TypeOK
<1> QED
  BY <1>1, <1>2, <1>3, <1>4, <1>5, <1>6 DEF SessionStep

(***************************************************************************)
(* No ACTIVE project is silently abandoned: a resume or a resolution never *)
(* loses its session, and a session only leaves an ACTIVE project at a     *)
(* pause flag that stays up until a resume, the sweep or its expiry takes  *)
(* it, at a blocked gate, the cost ceiling or an exception.                *)
(***************************************************************************)
THEOREM ActiveIsAttendedHolds == Spec => []ActiveIsAttended
<1>1. Init => JobInv /\ StaffInv
  BY DEF Init, JobInv, JobInvOf, Idle, StaffInv
<1>2. TypeOK /\ JobInv /\ StaffInv /\ [Next]_vars => JobInv' /\ StaffInv'
  <2> SUFFICES ASSUME TypeOK, JobInv, StaffInv, [Next]_vars
               PROVE  JobInv' /\ StaffInv'
    OBVIOUS
  <2>1. ASSUME NEW j \in Jobs, Request(j) PROVE JobInv' /\ StaffInv'
    BY <2>1, RequestOthers, JobInvRequest, StaffRequest DEF JobInv
  <2>2. ASSUME NEW j \in Jobs, JobStep(j) PROVE JobInv' /\ StaffInv'
    BY <2>2, JobStepOthers, JobInvJobStep, StaffJobStep DEF JobInv
  <2>3. ASSUME NEW j \in Jobs, KillJob(j) PROVE JobInv' /\ StaffInv'
    <3>1. JobInv'
      BY <2>3 DEF KillJob, JobInv, JobInvOf, Idle, TypeOK
    <3>2. \A p \in Projects :
            \/ p \in cut'
            \/ \A i \in Jobs : Promises(job[i], p) => Promises(job'[i], p)
      BY <2>3 DEF KillJob, Promises, TypeOK
    <3> QED
      BY <2>3, <3>1, <3>2, StaffedKept, AccountedKept
         DEF KillJob, StaffInv, Accounted, redisVars
  <2>4. ASSUME NEW s \in Sessions, SessionStep(s) PROVE JobInv' /\ StaffInv'
    <3>1. UNCHANGED job
      BY <2>4 DEF SessionStep, ActivateProject, OpenSession, CheckPause,
                  CheckNext, BeginDeliverable, BatchOutcome, SuspendProject,
                  CompleteProject, CloseSession
    <3> QED
      BY <2>4, <3>1, StaffSessionStep DEF JobInv
  <2>5. ASSUME NEW s \in Sessions, FailSession(s) PROVE JobInv' /\ StaffInv'
    BY <2>5 DEF FailSession, Leave, JobInv, StaffInv, Staffed, Accounted, TypeOK
  <2>6. ASSUME NEW s \in Sessions, KillSession(s) PROVE JobInv' /\ StaffInv'
    BY <2>6 DEF KillSession, Leave, Enqueued, JobInv, StaffInv, Staffed, Accounted,
                TypeOK, redisVars
  <2>7. ASSUME NEW s \in Sessions, NEW p \in Projects, TakeSession(s, p)
        PROVE  JobInv' /\ StaffInv'
    <3>1. /\ pc'[s] # "close" /\ proj'[s] = p /\ proj[s] = NoProject
          /\ \A t \in Sessions : t # s => proj'[t] = proj[t] /\ pc'[t] = pc[t]
          /\ \A q \in Projects : q # p => queue'[q] = queue[q] /\ halt'[q] = halt[q]
          /\ UNCHANGED <<status, flag, job, cut>>
      BY <2>7 DEF TakeSession, TypeOK, redisVars
    <3>2. ASSUME NEW q \in Projects, q # p, Staffed(q)
          PROVE  Staffed(q)'
      BY <3>1, <3>2, ProjectAssumption DEF Staffed
    <3>3. Staffed(p)'
      BY <3>1 DEF Staffed
    <3> QED
      BY <3>1, <3>2, <3>3, AccountedKept DEF JobInv, StaffInv
  <2>8. ASSUME NEW p \in Projects, ExpireFlag(p) \/ ExpireKey(p)
        PROVE  JobInv' /\ StaffInv'
    <3>1. UNCHANGED <<status, queue, job, cut, sessionVars>>
      BY <2>8 DEF ExpireFlag, ExpireKey
    <3>2. ASSUME NEW q \in Projects, Accounted(q)
          PROVE  Accounted(q)'
      <4>1. CASE ExpireKey(p)
        BY <3>2, <4>1, AccountedKept DEF ExpireKey
      <4>2. CASE ExpireFlag(p) /\ p # q
        BY <3>2, <4>2, AccountedKept DEF ExpireFlag, Lower, Forget, TypeOK
      <4>3. CASE ExpireFlag(p) /\ p = q
        BY <3>2, <4>3 DEF ExpireFlag, Forget, Accounted, TypeOK
      <4> QED
        BY <2>8, <4>1, <4>2, <4>3
    <3>3. \A q \in Projects : Staffed(q) => Staffed(q)'
      BY <3>1, StaffedKept
    <3> QED
      BY <3>1, <3>2, <3>3 DEF JobInv, StaffInv
  <2>9. CASE UNCHANGED vars
    BY <2>9 DEF vars, JobInv, StaffInv, Staffed, Accounted, redisVars,
                sessionVars
  <2> QED
    BY <2>1, <2>2, <2>3, <2>4, <2>5, <2>6, <2>7, <2>8, <2>9 DEF Next
<1>3. StaffInv => ActiveIsAttended
  BY DEF StaffInv, Staffed, Accounted, Promises, ActiveIsAttended, Attended
<1> QED
  BY <1>1, <1>2, <1>3, TypeCorrect, PTL DEF Spec

=============================================================================
