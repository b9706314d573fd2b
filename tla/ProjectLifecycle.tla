-------------------------- MODULE ProjectLifecycle --------------------------
(***************************************************************************)
(* The life of a project: its status row in PostgreSQL, the pause flags    *)
(* and work-session keys in Redis, the jobs that the gateway and the       *)
(* Director's tools enqueue, and the work sessions that ARQ runs for it.   *)
(*                                                                         *)
(* Every lifecycle job of app/workers/lifecycle.py reads a status row,     *)
(* commits a new status and only then writes Redis, with an await between  *)
(* all of these: the jobs interleave with one another and with running     *)
(* sessions at each of them.  No row is locked, so a commit may follow a   *)
(* read that is no longer true.                                            *)
(***************************************************************************)
EXTENDS Naturals

CONSTANTS Projects,    \* the projects of the installation
          Jobs,        \* coroutines running lifecycle jobs and Director tools
          Sessions,    \* coroutines running run_work_session
          NoProject,   \* what an idle session works on
          MaxQueued,   \* bound on the queued work sessions of a project
          MaxBatch     \* bound on the deliverables of a batch

ASSUME ProjectAssumption == NoProject \notin Projects
ASSUME BoundAssumption == MaxQueued \in Nat /\ MaxBatch \in Nat \ {0}

VARIABLES status,          \* projects.status
          flag,            \* Redis project:pause_requested:{id}
          queue,           \* run_work_session jobs waiting in ARQ
          stagesDone,      \* projects all of whose stage rows are COMPLETED
          escalated,       \* projects some escalation to the CEO comes from
          key,             \* Redis director:work_session:{id}
          job,             \* the lifecycle job each coroutine runs
          pc, proj, left,  \* each session's step, project and rest of batch
          late,            \* history: deliverables begun under a raised flag,
                           \* counted to two
          halt,            \* history: why work on the project last stopped
                           \* since it was taken up or resumed
          cut              \* history: projects one of whose jobs was killed

sessionVars == <<pc, proj, left>>
redisVars == <<flag, key>>
recordVars == <<stagesDone, escalated>>
vars == <<status, flag, key, queue, stagesDone, escalated, job, pc, proj, left,
          late, halt, cut>>

ProjectStatus ==
  {"SHAPING", "ACTIVE", "PAUSED", "SUSPENDED", "COMPLETED", "ABORTED"}
TerminalStatus == {"COMPLETED", "ABORTED"}
Reason == {"user", "system", "director"}
Flag == Reason \cup {"none"}

Kind == {"none", "pause", "resume", "abort", "resolve", "pause_director",
         "resume_director", "delegate", "override_pause", "override_resume"}
JobPc == {"idle", "commit", "flag", "clear", "enqueue", "select", "read",
          "sweep", "sweep_read"}
Job == [kind: Kind, pc: JobPc, todo: SUBSET Projects, due: SUBSET Projects,
        reason: Reason]
Idle == [kind |-> "none", pc |-> "idle", todo |-> {}, due |-> {},
         reason |-> "user"]

SessionPc == {"idle", "activate", "open", "check", "next", "begin", "outcome",
              "suspend", "complete", "close"}
Open == SessionPc \ {"idle", "activate", "open"}
\* "stop": blocked gate, cost ceiling, exception, or a tool's bare ACTIVE;
\* "swept", "expired": how the flag that stopped the work went without a resume
Halt == {"none", "pause", "stop", "swept", "expired"}

Init == /\ status = [p \in Projects |-> "SHAPING"]
        /\ flag = [p \in Projects |-> "none"]
        /\ queue = [p \in Projects |-> 0]
        /\ key = [p \in Projects |-> FALSE]
        /\ stagesDone = {}
        /\ escalated = {}
        /\ job = [j \in Jobs |-> Idle]
        /\ pc = [s \in Sessions |-> "idle"]
        /\ proj = [s \in Sessions |-> NoProject]
        /\ left = [s \in Sessions |-> 0]
        /\ late = [s \in Sessions |-> 0]
        /\ halt = [p \in Projects |-> "none"]
        /\ cut = {}

-----------------------------------------------------------------------------
(***************************************************************************)
(* The first step of a lifecycle job: read the rows it applies to.  A job  *)
(* whose project is in another status returns an error and does nothing.   *)
(***************************************************************************)
WithStatus(st) == {p \in Projects : status[p] = st}

Begin(j, kind, at, projects, reason) ==
  /\ job[j] = Idle
  /\ projects # {}
  /\ job' = [job EXCEPT ![j] = [kind |-> kind, pc |-> at, todo |-> projects,
                                due |-> {}, reason |-> reason]]
  /\ UNCHANGED <<status, redisVars, queue, recordVars, sessionVars, late, cut>>

Start(j, kind, at, projects, reason) ==
  Begin(j, kind, at, projects, reason) /\ UNCHANGED halt

PauseProject(j, p) ==
  status[p] = "ACTIVE" /\ Start(j, "pause", "commit", {p}, "user")

PauseAllProjects(j) ==
  Start(j, "pause", "commit", WithStatus("ACTIVE"), "system")

ResumeProject(j, p) ==
  status[p] = "PAUSED" /\ Start(j, "resume", "commit", {p}, "user")

ResumeAllProjects(j) ==
  Start(j, "resume", "commit", WithStatus("PAUSED"), "system")

AbortProject(j, p) ==
  /\ status[p] \notin TerminalStatus
  /\ Start(j, "abort", "commit", {p}, "user")

\* A resolution re-activates a suspended project and enqueues a session for
\* a project in any status.
ApplyResolution(j, p) ==
  /\ p \in escalated
  /\ \/ status[p] = "SUSPENDED" /\ Start(j, "resolve", "commit", {p}, "user")
     \/ /\ status[p] # "SUSPENDED"
        /\ Begin(j, "resolve", "enqueue", {p}, "user")
        /\ halt' = [halt EXCEPT ![p] = "none"]

\* Director tool: enqueues the session before it commits ACTIVE.
DelegateToPm(j, p) ==
  status[p] = "SHAPING" /\ Start(j, "delegate", "enqueue", {p}, "director")

OverridePm(j, p) ==
  \/ /\ status[p] = "ACTIVE"
     /\ Start(j, "override_pause", "commit", {p}, "director")
  \/ /\ status[p] = "PAUSED"
     /\ Start(j, "override_resume", "commit", {p}, "director")

PauseDirector(j) ==
  /\ job[j] = Idle
  /\ job' = [job EXCEPT ![j].kind = "pause_director", ![j].pc = "select",
                        ![j].reason = "director"]
  /\ UNCHANGED <<status, redisVars, queue, recordVars, sessionVars, late, halt, cut>>

ResumeDirector(j) ==
  /\ job[j] = Idle
  /\ job' = [job EXCEPT ![j].kind = "resume_director", ![j].pc = "select",
                        ![j].reason = "director"]
  /\ UNCHANGED <<status, redisVars, queue, recordVars, sessionVars, late, halt, cut>>

-----------------------------------------------------------------------------
(***************************************************************************)
(* The later steps of a job.  "todo" holds the projects the current phase  *)
(* has still to handle, "due" those it has half handled.                   *)
(***************************************************************************)
Target(kind) ==
  CASE kind \in {"pause", "override_pause"} -> "PAUSED"
    [] kind = "abort" -> "ABORTED"
    [] OTHER -> "ACTIVE"

\* What follows once a phase has nothing left to handle.
After(o) ==
  IF o.todo # {} \/ o.due # {} THEN o
  ELSE IF o.kind = "resume_director" /\ o.pc = "clear"
         THEN [o EXCEPT !.pc = "sweep"]
         ELSE Idle

\* The job after the commit of a status.
Committed(o) ==
  CASE o.kind = "pause" -> [o EXCEPT !.pc = "flag"]
    [] o.kind = "resume" -> [o EXCEPT !.pc = "clear"]
    [] o.kind = "resolve" -> [o EXCEPT !.pc = "enqueue"]
    [] OTHER -> Idle

\* A session of the project is queued, or has not come to its end yet.
InHand(p) ==
  queue[p] > 0 \/ \E s \in Sessions : proj[s] = p /\ pc[s] # "close"

CommitStatus(j) ==
  /\ job[j].pc = "commit"
  /\ status' = [p \in Projects |-> IF p \in job[j].todo
                                     THEN Target(job[j].kind) ELSE status[p]]
  /\ job' = [job EXCEPT ![j] = Committed(job[j])]
  \* an earlier stop explains nothing after a resume or a resolution; a
  \* tool's ACTIVE is not followed by an enqueue
  /\ halt' = [p \in Projects |->
                CASE /\ p \in job[j].todo
                     /\ job[j].kind \in {"resume", "resolve"} -> "none"
                  [] /\ p \in job[j].todo
                     /\ job[j].kind \in {"delegate", "override_resume"}
                     /\ ~InHand(p) -> "stop"
                  [] OTHER -> halt[p]]
  /\ UNCHANGED <<redisVars, queue, recordVars, sessionVars, late, cut>>

SetFlag(j, p) ==
  /\ job[j].pc = "flag" /\ p \in job[j].todo
  /\ flag' = [flag EXCEPT ![p] = job[j].reason]
  /\ job' = [job EXCEPT ![j] = After([job[j] EXCEPT !.todo = @ \ {p}])]
  /\ UNCHANGED <<status, key, queue, recordVars, sessionVars, late, halt,
                 cut>>

\* The count of late deliverables starts again when a flag goes down.
Lower(p) ==
  /\ flag' = [flag EXCEPT ![p] = "none"]
  /\ late' = [s \in Sessions |-> IF proj[s] = p THEN 0 ELSE late[s]]

\* A flag that goes down although nobody resumes leaves a stop of its own.
Forget(p, how) ==
  halt' = [halt EXCEPT ![p] = IF @ = "pause" THEN how ELSE @]

ClearFlag(j, p) ==
  /\ job[j].pc = "clear" /\ job[j].due = {} /\ p \in job[j].todo
  /\ Lower(p)
  /\ job' = [job EXCEPT ![j].todo = @ \ {p}, ![j].due = {p}]
  /\ UNCHANGED <<status, key, queue, recordVars, sessionVars, halt, cut>>

Enqueued(p) == queue[p] < MaxQueued /\ queue' = [queue EXCEPT ![p] = @ + 1]

\* Mutant: the resume forgets the session of a project.
EnqueueResumedLost(j, p) ==
  /\ job[j].pc = "clear" /\ p \in job[j].due
  /\ job' = [job EXCEPT ![j] = After([job[j] EXCEPT !.due = @ \ {p}])]
  /\ UNCHANGED <<queue, recordVars, status, redisVars, sessionVars, late, halt,
                 cut>>

EnqueueResumed(j, p) ==
  /\ job[j].pc = "clear" /\ p \in job[j].due
  /\ Enqueued(p)
  /\ job' = [job EXCEPT ![j] = After([job[j] EXCEPT !.due = @ \ {p}])]
  /\ UNCHANGED <<recordVars, status, redisVars, sessionVars, late, halt, cut>>

EnqueueSession(j, p) ==
  /\ job[j].pc = "enqueue" /\ p \in job[j].todo
  /\ Enqueued(p)
  /\ job' = [job EXCEPT ![j] = IF @.kind = "delegate"
                                 THEN [@ EXCEPT !.pc = "commit"] ELSE Idle]
  /\ UNCHANGED <<recordVars, status, redisVars, sessionVars, late, halt, cut>>

\* pause_director and resume_director read the rows after their own flag.
SelectProjects(j) ==
  /\ job[j].pc = "select"
  /\ job' = [job EXCEPT ![j] =
               IF @.kind = "pause_director"
                 THEN After([@ EXCEPT !.pc = "flag",
                                      !.todo = WithStatus("ACTIVE")])
                 ELSE [@ EXCEPT !.pc = "read",
                                !.todo = WithStatus("PAUSED")]]
  /\ UNCHANGED <<status, redisVars, queue, recordVars, sessionVars, late, halt, cut>>

ReadFlag(j, p) ==
  /\ job[j].pc = "read" /\ p \in job[j].todo
  /\ job' = [job EXCEPT ![j].todo = @ \ {p},
                        ![j].due = IF flag[p] = "director" THEN @ \cup {p}
                                                           ELSE @]
  /\ UNCHANGED <<status, redisVars, queue, recordVars, sessionVars, late, halt, cut>>

CommitResumed(j) ==
  /\ job[j].pc = "read" /\ job[j].todo = {}
  /\ status' = [p \in Projects |-> IF p \in job[j].due THEN "ACTIVE"
                                                       ELSE status[p]]
  /\ job' = [job EXCEPT ![j] = After([@ EXCEPT !.pc = "clear",
                                       !.todo = job[j].due, !.due = {}])]
  /\ halt' = [p \in Projects |-> IF p \in job[j].due THEN "none" ELSE halt[p]]
  /\ UNCHANGED <<redisVars, queue, recordVars, sessionVars, late, cut>>

\* The flags that active projects have not observed yet are cleared too.
SelectSweep(j) ==
  /\ job[j].pc = "sweep"
  /\ job' = [job EXCEPT ![j] = After([@ EXCEPT !.pc = "sweep_read",
                                               !.todo = WithStatus("ACTIVE")])]
  /\ UNCHANGED <<status, redisVars, queue, recordVars, sessionVars, late, halt, cut>>

SweepRead(j, p) ==
  /\ job[j].pc = "sweep_read" /\ job[j].due = {} /\ p \in job[j].todo
  /\ job' = [job EXCEPT ![j] =
               After([job[j] EXCEPT !.todo = @ \ {p},
                                    !.due = IF flag[p] = "director" THEN {p}
                                                                    ELSE {}])]
  /\ UNCHANGED <<status, redisVars, queue, recordVars, sessionVars, late, halt, cut>>

SweepFlag(j, p) ==
  /\ job[j].pc = "sweep_read" /\ p \in job[j].due
  /\ Lower(p)
  /\ Forget(p, "swept")
  /\ job' = [job EXCEPT ![j] = After([@ EXCEPT !.due = {}])]
  /\ UNCHANGED <<status, key, queue, recordVars, sessionVars, cut>>

\* The worker dies, or ARQ cancels the job at its timeout.
KillJob(j) ==
  /\ job[j] # Idle
  /\ cut' = cut \cup job[j].todo \cup job[j].due
  /\ job' = [job EXCEPT ![j] = Idle]
  /\ UNCHANGED <<status, redisVars, queue, recordVars, sessionVars, late, halt>>

-----------------------------------------------------------------------------
(***************************************************************************)
(* A work session: activate the project, raise the key, run the Director   *)
(* and PM agents, then the batch loop, whose batches end in one of four    *)
(* ways.  Deliverables and stages are abstracted to how many the next      *)
(* batch holds and to what the gates say; BatchLoop and StageLoop model    *)
(* them.                                                                   *)
(***************************************************************************)
Goto(s, at) == pc' = [pc EXCEPT ![s] = at] /\ UNCHANGED <<proj, left>>

Stop(s, why) ==
  /\ Goto(s, "close")
  /\ halt' = [halt EXCEPT ![proj[s]] = why]

Leave(s) == /\ pc' = [pc EXCEPT ![s] = "idle"]
            /\ proj' = [proj EXCEPT ![s] = NoProject]
            /\ left' = [left EXCEPT ![s] = 0]
            /\ late' = [late EXCEPT ![s] = 0]

\* ARQ starts a queued job; the session reads the status it finds.
TakeSession(s, p) ==
  /\ pc[s] = "idle" /\ queue[p] > 0
  /\ queue' = [queue EXCEPT ![p] = @ - 1]
  /\ proj' = [proj EXCEPT ![s] = p]
  /\ pc' = [pc EXCEPT ![s] = IF status[p] = "SHAPING" THEN "activate"
                                                      ELSE "open"]
  /\ halt' = [halt EXCEPT ![p] = "none"]
  /\ UNCHANGED <<recordVars, status, redisVars, job, left, late, cut>>

ActivateProject(s) ==
  /\ pc[s] = "activate"
  /\ status' = [status EXCEPT ![proj[s]] = "ACTIVE"]
  /\ Goto(s, "open")
  /\ UNCHANGED <<redisVars, queue, recordVars, job, late, halt, cut>>

\* The key goes up and the agents run.  The stage loop then finds a stage to
\* run, or that all of them are done.
OpenSession(s) ==
  /\ pc[s] = "open"
  /\ key' = [key EXCEPT ![proj[s]] = TRUE]
  /\ Goto(s, IF proj[s] \in stagesDone THEN "complete" ELSE "check")
  /\ escalated' = escalated \cup {proj[s]}
  /\ UNCHANGED <<status, flag, queue, stagesDone, job, late, halt, cut>>

\* Mutant: the loop selects the next batch without looking for a pause.
CheckPauseBlind(s) ==
  /\ pc[s] = "check"
  /\ \/ /\ \E n \in 1..MaxBatch : left' = [left EXCEPT ![s] = n]
        /\ pc' = [pc EXCEPT ![s] = "begin"]
        /\ UNCHANGED <<proj, halt, stagesDone>>
     \/ Stop(s, "stop") /\ UNCHANGED stagesDone
  /\ UNCHANGED <<status, redisVars, queue, escalated, job, late, cut>>

\* The loop looks for a pause before it selects a batch.  Without a batch the
\* taskgroup gate blocks, or the next stage begins, or all stages are done.
CheckPause(s) ==
  /\ pc[s] = "check"
  /\ \/ flag[proj[s]] # "none" /\ Stop(s, "pause") /\ UNCHANGED stagesDone
     \/ /\ flag[proj[s]] = "none"
        /\ \E n \in 1..MaxBatch : left' = [left EXCEPT ![s] = n]
        /\ pc' = [pc EXCEPT ![s] = "next"]
        /\ UNCHANGED <<proj, halt, stagesDone>>
     \/ flag[proj[s]] = "none" /\ Stop(s, "stop") /\ UNCHANGED stagesDone
     \/ /\ flag[proj[s]] = "none"
        /\ stagesDone' = stagesDone \cup {proj[s]}
        /\ Goto(s, "complete") /\ UNCHANGED halt
  /\ UNCHANGED <<status, redisVars, queue, escalated, job, late, cut>>

\* Mutant: it does not look again inside the batch.
CheckNextBlind(s) ==
  /\ pc[s] = "next"
  /\ Goto(s, "begin")
  /\ UNCHANGED <<status, redisVars, queue, recordVars, job, late, halt, cut>>

\* It looks again before each deliverable of the batch.
CheckNext(s) ==
  /\ pc[s] = "next"
  /\ \/ flag[proj[s]] # "none" /\ Stop(s, "pause")
     \/ flag[proj[s]] = "none" /\ Goto(s, "begin") /\ UNCHANGED halt
  /\ UNCHANGED <<status, redisVars, queue, recordVars, job, late, cut>>

BeginDeliverable(s) ==
  /\ pc[s] = "begin"
  /\ late' = [late EXCEPT ![s] = IF flag[proj[s]] # "none" /\ @ < 2
                                   THEN @ + 1 ELSE @]
  /\ left' = [left EXCEPT ![s] = @ - 1]
  /\ pc' = [pc EXCEPT ![s] = IF left[s] > 1 THEN "next" ELSE "outcome"]
  /\ UNCHANGED <<status, redisVars, queue, recordVars, job, proj, halt, cut>>

\* The batch passed, or brought the cost over the ceiling, or the failures to
\* the threshold: a suspension reads the status and spares a terminal one.
BatchOutcome(s) ==
  /\ pc[s] = "outcome"
  /\ \/ Goto(s, "check") /\ UNCHANGED halt
     \/ Stop(s, "stop")
     \/ /\ Goto(s, IF status[proj[s]] \in TerminalStatus THEN "close"
                                                         ELSE "suspend")
        /\ UNCHANGED halt
  /\ UNCHANGED <<status, redisVars, queue, recordVars, job, late, cut>>

SuspendProject(s) ==
  /\ pc[s] = "suspend"
  /\ status' = [status EXCEPT ![proj[s]] = "SUSPENDED"]
  /\ Goto(s, "close")
  /\ halt' = [halt EXCEPT ![proj[s]] = "none"]
  /\ UNCHANGED <<redisVars, queue, recordVars, job, late, cut>>

CompleteProject(s) ==
  /\ pc[s] = "complete"
  /\ status' = [status EXCEPT ![proj[s]] = "COMPLETED"]
  /\ Goto(s, "close")
  /\ halt' = [halt EXCEPT ![proj[s]] = "none"]
  /\ UNCHANGED <<redisVars, queue, recordVars, job, late, cut>>

CloseSession(s) ==
  /\ pc[s] = "close"
  /\ key' = [key EXCEPT ![proj[s]] = FALSE]
  /\ Leave(s)
  /\ UNCHANGED <<status, flag, queue, recordVars, job, halt, cut>>

\* Mutant: the exception handler leaves the key up.
FailSessionKeyUp(s) ==
  /\ pc[s] # "idle"
  /\ halt' = [halt EXCEPT ![proj[s]] = "stop"]
  /\ escalated' = escalated \cup {proj[s]}
  /\ Leave(s)
  /\ UNCHANGED <<status, redisVars, queue, stagesDone, job, cut>>

\* An exception anywhere in the session: the handler lowers the key.
FailSession(s) ==
  /\ pc[s] # "idle"
  /\ key' = [key EXCEPT ![proj[s]] = FALSE]
  /\ halt' = [halt EXCEPT ![proj[s]] = "stop"]
  /\ escalated' = escalated \cup {proj[s]}
  /\ Leave(s)
  /\ UNCHANGED <<status, flag, queue, stagesDone, job, cut>>

\* ARQ cancels the session at its timeout, or the worker dies and ARQ runs the
\* job again: no handler of the session runs.
KillSession(s) ==
  /\ pc[s] # "idle"
  /\ cut' = cut \cup {proj[s]}
  /\ UNCHANGED queue \/ Enqueued(proj[s])
  /\ Leave(s)
  /\ UNCHANGED <<recordVars, status, redisVars, job, halt>>

-----------------------------------------------------------------------------
\* Every Redis key is written with a time to live of a day.
ExpireFlag(p) ==
  /\ flag[p] # "none"
  /\ Lower(p)
  /\ Forget(p, "expired")
  /\ UNCHANGED <<status, key, queue, recordVars, job, sessionVars, cut>>

ExpireKey(p) ==
  /\ key[p]
  /\ key' = [key EXCEPT ![p] = FALSE]
  /\ UNCHANGED <<status, flag, queue, recordVars, job, sessionVars, late,
                 halt, cut>>

-----------------------------------------------------------------------------
Request(j) ==
  \/ PauseAllProjects(j) \/ ResumeAllProjects(j)
  \/ PauseDirector(j) \/ ResumeDirector(j)
  \/ \E p \in Projects :
       \/ PauseProject(j, p) \/ ResumeProject(j, p) \/ AbortProject(j, p)
       \/ ApplyResolution(j, p) \/ DelegateToPm(j, p) \/ OverridePm(j, p)

JobStep(j) ==
  \/ CommitStatus(j) \/ SelectProjects(j) \/ CommitResumed(j) \/ SelectSweep(j)
  \/ \E p \in Projects :
       \/ SetFlag(j, p) \/ ClearFlag(j, p) \/ EnqueueResumed(j, p)
       \/ EnqueueSession(j, p) \/ ReadFlag(j, p)
       \/ SweepRead(j, p) \/ SweepFlag(j, p)

SessionStep(s) ==
  \/ ActivateProject(s) \/ OpenSession(s) \/ CheckPause(s) \/ CheckNext(s)
  \/ BeginDeliverable(s) \/ BatchOutcome(s) \/ SuspendProject(s)
  \/ CompleteProject(s) \/ CloseSession(s)

Next ==
  \/ \E j \in Jobs : Request(j) \/ JobStep(j) \/ KillJob(j)
  \/ \E s \in Sessions :
       SessionStep(s) \/ FailSession(s) \/ KillSession(s)
  \/ \E s \in Sessions, p \in Projects : TakeSession(s, p)
  \/ \E p \in Projects : ExpireFlag(p) \/ ExpireKey(p)

Spec == Init /\ [][Next]_vars

-----------------------------------------------------------------------------
TypeOK ==
  /\ status \in [Projects -> ProjectStatus]
  /\ flag \in [Projects -> Flag]
  /\ queue \in [Projects -> 0..MaxQueued]
  /\ key \in [Projects -> BOOLEAN]
  /\ stagesDone \subseteq Projects
  /\ escalated \subseteq Projects
  /\ job \in [Jobs -> Job]
  /\ pc \in [Sessions -> SessionPc]
  /\ proj \in [Sessions -> Projects \cup {NoProject}]
  /\ \A s \in Sessions : pc[s] = "idle" <=> proj[s] = NoProject
  /\ left \in [Sessions -> 0..MaxBatch]
  /\ \A s \in Sessions : pc[s] \in {"next", "begin"} => left[s] > 0
  /\ late \in [Sessions -> 0..2]
  /\ halt \in [Projects -> Halt]
  /\ cut \subseteq Projects

(***************************************************************************)
(* Pausing lets a session finish the deliverable it is on: from when a     *)
(* pause flag goes up until it goes down, no session begins more than one  *)
(* more deliverable of that project, however the lifecycle jobs interleave *)
(* (the two flag checks of _execute_batch_loop).                           *)
(***************************************************************************)
PauseStopsWork == \A s \in Sessions : late[s] <= 1

(***************************************************************************)
(* The key that makes process_director_queue skip a project is not left    *)
(* behind: unless a job of the project was killed, it is up only while     *)
(* some session of the project is between its set and its delete.          *)
(***************************************************************************)
KeyNotLeaked ==
  \A p \in Projects :
    key[p] => \/ p \in cut
              \/ \E s \in Sessions : proj[s] = p /\ pc[s] \in Open

\* Somebody works on the project, or is about to enqueue a session for it.
Attended(p) ==
  \/ queue[p] > 0
  \/ \E s \in Sessions : proj[s] = p
  \/ \E j \in Jobs : \/ job[j].pc = "clear" /\ p \in job[j].todo \cup job[j].due
                     \/ job[j].pc = "enqueue" /\ p \in job[j].todo

(***************************************************************************)
(* No project is ACTIVE and silently abandoned.  When nothing runs or is   *)
(* queued for an ACTIVE project, its last session stopped at a pause flag  *)
(* that is still up, at a blocked gate, the cost ceiling or an exception,  *)
(* or a Director's tool set the status when no session was there, or a job *)
(* was killed.  A resume and a resolution forget why work stopped before   *)
(* them ("halt" is reset where they commit ACTIVE), so neither loses the   *)
(* session it has to enqueue; and the flag a session stopped at goes down  *)
(* without a new session in two ways only, which are named: the sweep of   *)
(* resume_director took it, or its day was over.                           *)
(***************************************************************************)
ActiveIsAttended ==
  \A p \in Projects :
    status[p] = "ACTIVE" =>
      \/ Attended(p)
      \/ halt[p] = "pause" /\ flag[p] # "none"
      \/ halt[p] \in {"stop", "swept", "expired"}
      \/ p \in cut

(***************************************************************************)
(* Liveness.  A coroutine that can step does: asyncio runs it, Redis and   *)
(* PostgreSQL answer, and the ADK run ends (ARQ bounds it).  ARQ takes     *)
(* queued jobs while a slot is free.  Requests, failures and expiries are  *)
(* never forced.                                                           *)
(***************************************************************************)
Fairness ==
  /\ \A j \in Jobs : WF_vars(JobStep(j))
  /\ \A s \in Sessions : WF_vars(SessionStep(s))
  /\ \A p \in Projects : WF_vars(\E s \in Sessions : TakeSession(s, p))

LiveSpec == Spec /\ Fairness

(***************************************************************************)
(* A raised pause flag stops every session of the project, unless the flag *)
(* goes down first: a pause reaches a session in any phase of its loop.    *)
(***************************************************************************)
FlagStopsSession ==
  \A s \in Sessions, p \in Projects :
    (proj[s] = p /\ flag[p] # "none") ~> (proj[s] # p \/ flag[p] = "none")

(***************************************************************************)
(* A resume that committed ACTIVE brings a session of the project, unless  *)
(* a job of it is killed between the commit and the enqueue.               *)
(***************************************************************************)
ResumeRestartsWork ==
  \A j \in Jobs, p \in Projects :
    (job[j].pc = "clear" /\ p \in job[j].todo \cup job[j].due)
      ~> (p \in cut \/ \E s \in Sessions : proj[s] = p)

-----------------------------------------------------------------------------
(***************************************************************************)
(* What the documents say and the code does not do: refuted by a run.      *)
(***************************************************************************)
\* Aborting a project terminates it: ABORTED is never left (phase-8a
\* FR-8a.96 and the terminal statuses of abort_project).
AbortIsFinal ==
  [][\A p \in Projects : status[p] = "ABORTED" => status'[p] = "ABORTED"]_vars
=============================================================================
