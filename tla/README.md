# AutoBuilder, specified

AutoBuilder turns a brief into software: a CEO (a person, through the gateway)
and a Director agent hand projects to PM agents, which split them into
*deliverables* and see them through the *stages* of a workflow. The gateway
(FastAPI) and the workers (ARQ) are separate processes; they share PostgreSQL
(projects, deliverables, stage and taskgroup rows, queue items, ADK sessions),
Redis (pause flags, session keys, the job queue, event streams, copies of the
skill and workflow indexes) and the files. There are no row locks and no
compare-and-set: every handler reads, awaits, and commits.

These TLA+ modules model the part of the program where that matters: the jobs
that change a project, the work session and its loops, the escalations and the
turns of the Director, the runs of single workflows; and the services that all
of them use: catalogs with their caches, agent definitions, validators, the
dependency graph, context recreation, task and file tools, events. TLC checks
small instances, TLAPS proves safety properties for every value of the constants.

File and line references are to `src/`.

## Reading the modules

| Module | Models | Proofs |
|---|---|---|
| `ProjectLifecycle` | `app/workers/lifecycle.py`, the Director's tools in `app/tools/management.py`, the outline of `run_work_session` in `app/workers/tasks.py` | `ProjectLifecycle_proofs` |
| `BatchLoop` | `_execute_batch_loop` in `app/workers/tasks.py`, `app/agents/supervision.py:track_batch_result`, the PM's tools on deliverables, the resolution that resets failed rows | `BatchLoop_proofs` |
| `StageLoop` | `_execute_stage_loop` in `app/workers/tasks.py`, the gates of `app/workflows/validators.py`, the reports of `app/workflows/completion.py` | `StageLoop_proofs` |
| `Workflow` | nothing: the abstract specification of the order of stages, which `StageLoop` implements | |
| `Escalations` | `app/gateway/routes/ceo_queue.py`, `director_queue.py`, and what puts items into the two queues | `Escalations_proofs` |
| `DirectorScan` | `process_director_queue` and its pattern alerts in `app/workers/tasks.py` | `DirectorScan_proofs` |
| `DirectorTurns` | `run_director_turn` and its helpers in `app/workers/tasks.py`, the chat routes, `app/tools/_context.py`, `app/agents/formation.py` | `DirectorTurns_proofs` |
| `WorkflowRun` | `run_workflow` in `app/workers/tasks.py`, the pipeline of `app/workflows/auto-code/pipeline.py` and `app/agents/custom/`, `app/agents/context_monitor.py` | `WorkflowRun_proofs` |
| `ContextRecreation` | `app/agents/context_recreation.py`, the recreation in `run_work_session`, `checkpoint_taskgroup` and the PM callbacks | `Services_proofs` |
| `SkillCatalog` | `app/skills/library.py`, its matcher and loader, the invalidation route | `Services_proofs` |
| `WorkflowCatalog` | `app/workflows/registry.py`, the start of gateway and worker, `validate_brief`, `check_resources`, `create_project` | `Services_proofs` |
| `AgentAssembly` | `app/agents/_registry.py`: definition files and what is built of them | `Services_proofs` |
| `DependencyGraph` | `app/agents/custom/dependency_resolver.py`, the graph tools of `management.py`, `dependency_validation`, `evaluate_failure_impact` | `Services_proofs` |
| `Verdicts` | `app/workflows/validators.py`, `completion.py`: what the rounds of validators see, the gates and reports | `Services_proofs` |
| `ProjectTasks` | `app/tools/task.py` | `Services_proofs` |
| `ProjectFiles` | the tools of `app/tools/filesystem.py` that change files | `Services_proofs` |
| `EventStream` | `app/events/publisher.py` | `Services_proofs` |

`MCProjectLifecycle`, `MCBatchLoop`, `MCStageLoop`, `MCEscalations`,
`MCDirectorScan`, `MCDirectorTurns` and `MCWorkflowRun` instantiate one module
each for TLC. `Services` composes the other nine: they share no state, so one
specification has them side by side. Its first state picks a `part`; the variables
`v1` to `v11` are those of that module in the order of its declarations, and its
constants are theirs. `MCServices` gives the constants their values for TLC;
`Services_proofs` leaves them open.

Definitions named `...Blind`, `...Lost`, `...Late` and the
like, marked "Mutant" in their comment, are broken variants that no action
uses: substituting one for the operator it imitates makes TLC refute a
property, which shows that the property depends on the code.

### Inventory

For each component: its state; its operations; how it interacts; what is hard;
what makes it correct.

**Project lifecycle** (`app/workers/lifecycle.py`, `app/tools/management.py`
`delegate_to_pm`, `override_pm`). State: `projects.status`, the Redis key
`project:pause_requested:{id}` with the reason of the pause. Operations: pause,
resume and abort of a project; pause and resume of all; pause and resume of the
Director; apply a resolution. The gateway enqueues each as a job; a Director
tool does some of them in its own process. Hard: a job reads a status, commits
one, then writes Redis or enqueues a session, and any other job or a session can
run at each await. Correct when a pause takes effect within one deliverable, a
resume or resolution never loses its session, an aborted project stays aborted.

**Work session** (`app/workers/tasks.py:1835-2233`). State: the Redis key
`director:work_session:{id}`, the ADK session, the checkpoint. Operations:
activate, raise the key, run the Director and PM agents (recreating the context
when it overflows), run the stage loop, close. Interacts with all the others:
started by an ARQ job, watched by `process_director_queue` through the key.
Hard: exceptions anywhere, ARQ's timeout and rerun (no handler runs), more than
one session on a project. Correct when the key is not left behind and only one
session works on a project.

**Stage loop** (`app/workers/tasks.py:606-990`, `app/workflows/validators.py`).
State: stage and taskgroup rows, `projects.current_stage`. Operations: find or
create the stage row, create a taskgroup, run the batch loop, evaluate the
taskgroup gate and the stage gate, store reports, complete. Hard: a new session
resumes rows another left half way; two sessions insert the same stage; the
gates read deliverables and escalations that change. Correct when a stage begins
after its predecessors are complete, and what is complete has its report.

**Batch loop** (`app/workers/tasks.py:254-603`). State: deliverable rows
(status, retry count, dependencies), a counter of consecutive failed batches.
Operations: select the batch that is ready, mark and verify each deliverable,
count, suspend at the threshold, skip what a permanent failure blocks. Hard: a
batch is worked through after it was computed, while retries, resolutions and
tools change the rows. Correct when work starts on satisfied dependencies only,
retries stay within the limit, just the blocked rows are skipped, finished work
is not reopened, the loop ends.

**PM tools on deliverables** (`app/tools/management.py:440-830`). State: the
same rows. Operations: `update_deliverable` (a transition table, a retry
count), `manage_dependencies` (with a cycle check), reorder, queries. Hard: the
language model may call several tools at once, and they then run concurrently.
Correct when the graph stays acyclic.

**Supervision** (`app/agents/supervision.py`). `track_batch_result` counts;
`suspend_project` writes a status; `evaluate_failure_impact` ranks a failure;
`checkpoint_taskgroup` saves a state; the PM callbacks stop a PM at its limits.

**Director tools** (`app/tools/management.py:838-1260`). Escalate to the CEO or
Director, validate a brief, create a project, delegate, override.

**Escalation queues** (`app/gateway/routes/ceo_queue.py`,
`director_queue.py`, `app/workers/tasks.py:993-1077, 1476-1535`). State: queue
items PENDING, FORWARDED, RESOLVED or DISMISSED; the session key as a guard.
Operations: resolve (and enqueue a resolution), forward, process the Director's
queue, raise pattern alerts. Hard: two requests on one item, a crash between
commit and enqueue, scans that overlap. Correct when each item is resolved once
and its resolution is applied, and when every item is put to the Director.

**Validators, gates and reports** (`app/workflows/validators.py`,
`completion.py`). State: the results of a round, their rows. Hard: what the
validators are given is not what the agents wrote. Correct when a passing layer
was observed and a gate opens when the work is done.

**Context recreation** (`app/agents/context_recreation.py`,
`app/workers/tasks.py:2080-2169`). State: a checkpoint, the state of the old and
of the fresh ADK session. Operations: checkpoint, merge, seed, continue. Hard:
the checkpoint may be older than the state it is merged with. Correct when the
fresh session has the latest value of whatever is critical.

**Workflow runs** (`app/workers/tasks.py:1253-1473`, `app/workflows/auto-code/pipeline.py`,
`custom/review_cycle.py`). State: a row, an ADK session, the files. Hard: ARQ
runs a job again after a crash, and the session then has the results of the
earlier run. Correct when a run ends, its outcome stands, and what it calls
checked was checked.

**Chat and Director turns, formation** (`app/workers/tasks.py:1538-1832`,
`app/agents/formation.py`, `app/tools/_context.py`). State: messages, ADK
sessions, a dictionary of tool contexts in the worker. Hard: turns interleave at
each await; some share a session. Correct when a message has one answer and a
turn finds its context.

**Dependency order** (`custom/dependency_resolver.py`, `management.py`,
`validators.py`). Five computations over one graph, which must agree.

**Skill library, workflow registry** (`app/skills/`, `app/workflows/`). State:
an index in each process, a copy in Redis, the files. Operations: scan, save,
take the copy, invalidate, match, load. Hard: the processes scan and save
at different times. Correct when the copy is not older than an invalidation and
the last scope wins.

**Agent assembly** (`app/agents/_registry.py`). Definition files of three scopes
that override each other, in whole or in part.

**Project tasks, file tools** (`app/tools/task.py`, `filesystem.py`). Read,
change, write; concurrent or repeated calls. Correct when an answer can be
trusted.

**Events** (`app/events/publisher.py`). A buffer of violations, flushed after
the agents. Correct when each violation is published once.

**Worker tools, model router, bundled skill scripts, gateway shell, persistence
and configuration.** I/O, lookups and row types with little control of their
own; `PROJECT.json` says for each what is left out and why.

## How the models correspond to the code

### ProjectLifecycle

| Variable | Code |
|---|---|
| `status` | `projects.status` |
| `flag` | Redis `project:pause_requested:{id}`: the reason of the pause, or none |
| `queue` | `run_work_session` jobs ARQ has not started |
| `stagesDone` | all stage rows of the project are COMPLETED |
| `escalated` | some CEO queue item names the project |
| `key` | Redis `director:work_session:{id}` |
| `job` | the coroutine of a lifecycle job or Director tool: its kind, the await it is at, the projects it has still to handle (`todo`) and has half handled (`due`) |
| `pc`, `proj`, `left` | the coroutine of a session: where it is, its project, the rest of its batch |
| `late`, `cut` | history: deliverables begun under the present flag; projects of which a job was killed |
| `halt` | history: why work last stopped since it was taken up, or since a resume or a resolution committed ACTIVE: nothing, at a pause flag, otherwise, and for a flag that stopped it, that the sweep or its expiry took it away |

A job has one action for each stretch of code between two awaits that touch
shared state. `PauseProject` is the read and the early returns; `CommitStatus`
the commit; `SetFlag` the Redis write. `pause_all_projects`,
`pause_director` and their opposites work through sets of rows with one commit
and one Redis write each, in an order the model leaves open.
`resume_director` is the longest: it selects PAUSED projects, reads each flag,
commits those paused by the Director, clears and enqueues them one by one, and
then sweeps the flags that ACTIVE projects have not observed (`SelectSweep`,
`SweepRead`, `SweepFlag`). `ApplyResolution` is enabled for any project with an
escalation, in any status. `KillJob` is a worker that dies, or ARQ's timeout.

`TakeSession` is ARQ starting a job, and the session reading the status.
`ActivateProject`, `OpenSession`, `CheckPause`, `CheckNext`,
`BeginDeliverable`, `BatchOutcome`, `SuspendProject`, `CompleteProject` and
`CloseSession` follow the session to its end; how many deliverables a batch
holds and what the gates say is open here. `FailSession` is an exception
anywhere and its handler (its own Redis delete is taken to succeed);
`KillSession` the end without a handler, after which ARQ may run the job again.
Redis keys expire after a day (`ExpireFlag`, `ExpireKey`).

### BatchLoop

| Variable | Code |
|---|---|
| `status`, `retry`, `depends` | `deliverables.status`, `.retry_count`, `.depends_on` |
| `call` | tool calls that have read and not yet committed |
| `resolve` | the failed rows each running `apply_resolution_to_project` has read |
| `pc`, `todo`, `cur`, `failed` | the loop's place, the rest of the batch (later: what to skip), the row it has read, whether the batch failed |
| `counter` | `pm:consecutive_batch_failures`, local to a loop |
| `fresh` | history: failures committed since the loop's last clean batch |
| `disturbed` | history: sessions whose present loop a resolution or another session overlaps |
| `raced` | history: rows that two writers (a call, a batch or a set to skip, a resolution) have in hand at once; forgotten when a writer takes the row alone |
| `crossed` | history: two calls of `manage_dependencies` have been in flight at once |

The loop does not run the deliverable pipeline: it marks the row IN_PROGRESS,
reads it back and looks for FAILED
(`tests/workers/test_work_session.py:1237` asserts that deliverables end
IN_PROGRESS). COMPLETED and FAILED are written by `update_deliverable`, which
the PM calls while the session runs its agents, before the loop. Those calls
are `UpdateDeliverable` and `CommitUpdate`; `AddDependency` and
`RemoveDependency` compute the new list against the graph they read, and
`CommitDepends` writes it. The read of the source row and that of the graph,
two queries, are one step.

What SQLAlchemy does with unchanged attributes is modelled: an UPDATE contains
just the columns that differ from what was read. So an update that counts no
retry leaves `retry_count` alone, and a resolution that read it as 0 does not
write it.

The three marks `disturbed`, `raced` and `crossed` say where a property ceases to
speak: the code has no lock there, and what it promises is lost. They are as narrow
as the code allows (a session, a row, two calls of one tool) and computed, so that
every overlap is in the model and the properties hold of all the rest.

`Stuck`, the set to skip, is a fixpoint in the code (lines 554-603) and the least
closed set here; `Reaches` is the transitive dependency that `_detect_cycle`
searches. Neither uses RECURSIVE, so that the proofs can use both.

A stage loop calls the batch loop once per stage; here the session goes back
through its agents instead, which may do nothing. `select_ready_batch`, a tool
that only shows a batch to the PM, has its own retry limit (3, against the
loop's configured 2) and writes nothing.

### StageLoop

| Variable | Code |
|---|---|
| `stageRow` | `stage_executions` by key: stage, status, completion report |
| `groupRow` | `taskgroup_executions` by key: stage row, status, checkpoint, report |
| `currentStage`, `currentGroup` | the columns of the `projects` row |
| `finished` | the loop has committed the project COMPLETED |
| `outstanding` | some deliverable of the project is not terminal |
| `pending` | some item of the Director's queue of the project is PENDING |
| `pc`, `stage`, `sid`, `gid` | a session's coroutine: the next step, the stage and the keys it holds |
| `passed` | the batch loop ended by itself; later, the stage gate's verdict |
| `overlapped` | history: two sessions have been in the loop at once |

One action for each commit, and one for each read whose result decides what
comes later. A row that does not exist has the status NONE. `FindStage` is the
query by name: no row, one row, or two, on which `scalar_one_or_none` raises.
`InsertStage` is apart from it, as the code awaits between the two.
`CreateTaskgroup` always inserts. `RunBatches` stands for `BatchLoop`; all the
stage loop sees of it is whether it was interrupted. `ReadDeliverables` and
`CheckTaskgroup` are the two queries of the taskgroup gate with its validators;
`VerifyStage` is the stage gate, whose verdict is kept only to be logged.
Report and status of a taskgroup, and of a stage, are four commits
(`StoreTaskgroupReport`, `CompleteTaskgroup`, `StoreStageReport`,
`CompleteStage`). `Interrupt` ends the session at any of these points; the next
starts with stage 1.

What validators find is open here and computed in `Verdicts`. `Required` gives the schedules of the required
validators of each stage, because a gate blocks on one that it has no result
of: the taskgroup gate asks for PER_DELIVERABLE and PER_BATCH validators and is
given the PER_TASKGROUP ones, the stage gate asks for all and is given the
PER_STAGE ones. The completion report reads the validator rows of this session's
workflow row and of the stage row, so evidence of earlier sessions does not
count, and its verdict is open as well.

`W == INSTANCE Workflow WITH current <- currentStage, completed <- Completed`
is the refinement mapping: a stage is complete when a row of it is COMPLETED.

### Escalations

| Variable | Code |
|---|---|
| `ditem`, `citem` | rows of `director_queue` and `ceo_queue` by key: status, project, and for the CEO's the type and the Director's item it was forwarded from (`metadata`) |
| `req` | a PATCH request: the next step, its item and action |
| `sent` | the jobs enqueued for an item |
| `contested`, `lost` | history: two requests were at once between read and commit of the item; one died between its commit and its job |

`NewDirectorItem`, `EscalateToCeo` and `SessionFails` are the inserts; only the
last names a project in the CEO's queue, besides a forward. An escalation of a
PM names its project if its session does. The type of a Director's item and the
priorities decide nothing here.

`ReadItem` is the query and the refusal of a decided item, the same in both
routes. `ResolveDirectorItem`, `ForwardToCeo` and `DecideCeoItem` are the
commits; they write what the action says, whatever the row says by then.
`SendResolution` enqueues the job, `run_work_session` or `apply_resolution`,
after the commit. `KillRequest` ends a request anywhere. What the job does is
`ApplyResolution` in `ProjectLifecycle`.

### DirectorScan

| Variable | Code |
|---|---|
| `item` | the PENDING rows of `director_queue`, as project and type: several rows of one kind are one |
| `alert` | how many PENDING notifications of a pattern the CEO has |
| `paused`, `session` | Redis `director:paused`, `director:work_session:{id}` |
| `queue` | `run_director_turn` jobs of a project that wait |
| `scan` | a coroutine of `process_director_queue`: where it is, the patterns or projects still to do, the current one |
| `unheard`, `raced` | history |

`StartScan`, `DetectCrossProjectPatterns`, `CountAlerts`, `InsertAlert`,
`SelectProjects`, `CheckSession`, `EnqueueTurn` are the stretches between awaits.
A failure of the search for patterns is caught and logged (`EndAlerts`), any other
ends the scan, as the worker's death and a timeout do (`KillScan`). Turns are enqueued without a job id, so a project may have several. A
work session appears by its key alone, which `ProjectLifecycle` models.

### DirectorTurns

`turn` is a coroutine of `run_director_turn`, in chat mode (its job is a
message) or in queue mode (a project); a step is what happens up to the next
await. `registry` is `_REGISTRY` of `app/tools/_context.py`: a chat registers
its context first under the row's id, later under `session_id`, and every turn
deletes its entry at the end, whoever put it there. `adk` is the table of ADK
sessions: none, one without `_session_id` (which counts as not there when a turn
opens it, and is refused when the turn creates it), or one with it.
`ReadFormation` to `WriteFormation` are `ensure_formation_state`: it deletes
and creates a session that is the Settings chat's as well. `StepFails` is an
exception at any await, stored as an answer where the code does so; `CancelTurn` the
timeout; after `WorkerDies` the jobs are in the queue again. A brief of
`POST /projects` is a job whose call fails (`RejectBrief`).

### WorkflowRun

`row` is the workflow's status, `run` its coroutine: the stage of the pipeline,
the step and iteration of the review. `session` is the set of completion keys in
the ADK session, each named by its stage, and `current` says which results
are of the files as they are now. An agent skips nothing: on a rerun the pipeline
starts again in the session the last run left, with its `review_result` and
`review_passed`. `ExceedBudget` is the monitor's exception before a model call;
`Recreate` copies the critical keys to a fresh session, which nothing reads, and
the run then commits COMPLETED. `StepFails`, `Cancel`, `WorkerDies` end a run
with its handler, without it, and with all others of its worker.

### ContextRecreation

`adk` is the state of session `work_session_{project}`, each key with the number
of the write its value is from. A `job` is a session of work from `Open` to
`Close`; `LoadGroup`, `LoadState`, `CheckpointTaskgroup`, `LoadOld`, `Merge`,
`CreateFresh`, `MoveContext` are the awaits of the exception handler in
`run_work_session`, `CreateTaskgroup` and `CheckpointStage` what the stage loop
does to the same rows. The stage loop's checkpoint has a `workflow_id` of its
own and no other shared key: `StageCheckpoint`.

### The services

| Module | Variables | Actions |
|---|---|---|
| `SkillCatalog` | `disk` (SKILL.md files in scan order), `copy` (Redis), `index` of gateway and worker, `request` (invalidations), `loaded` | a process starts (takes the copy, or scans and saves), stops; an invalidation deletes, scans, saves, each at an await; `LoadSkills` matches and follows cascades |
| `WorkflowCatalog` | `disk` (workflow directories), `copy`, `known` of each process, `projects`, `last` | start as above; matching, resources, creation of a project; which manifest a run takes |
| `AgentAssembly` | `files`, `scoped`, `resolved`, `built` | one file or one name per step; `Build` with model, tools and skills |
| `DependencyGraph` | `deps`, `twice` (names listed twice), the worklist, colours and counters of the computation | one round of each loop of the code per step |
| `Verdicts` | the `manifest`'s validators, what the stage loop has `given` a round, its `results` and `rows`, report `layers` | each round with the state the loop makes for it, both gates, the report |
| `ProjectTasks` | `project_tasks` rows, calls that have read, `todos` of a session | read and commit of `task_update`; `WriteTodos` with one or two calls of one response |
| `ProjectFiles` | the files as sequences of characters | one tool call each; repeated calls follow a lost answer |
| `EventStream` | `seen` agents, `waiting` violations, `stream` | one ADK event, the flush entry by entry, a failure anywhere |

## The checks

| Run | Instance | Shows |
|---|---|---|
| `lifecycle` | 1 project, 2 jobs, 1 session, one queued session, batches of up to 2 | `PauseStopsWork`, `KeyNotLeaked`, `ActiveIsAttended` |
| `lifecycle_live` | the same with 1 job, fairness | `FlagStopsSession`, `ResumeRestartsWork` |
| `lifecycle_abort` | 1 job, 1 session | refutes `AbortIsFinal` |
| `batch` | 3 deliverables, 1 session, 1 call; limits and threshold 1 | `NoDependencyCycle`, `StartedInOrder`, `SkippedIsBlocked`, `NothingForgotten` |
| `batch_overlap` | 1 deliverable, 2 sessions, 1 call, 1 resolution; retry limit 1, threshold 2, 2 retries by the PM; fairness | `SuspensionIsEarned`, `RetryWithinLimit`, `FinishedIsFinal`, `LoopEnds` |
| `stage` | 2 stages, 2 sessions, 3 stage rows, 3 taskgroups | `CompletedHasEvidence`, `StageRowUnique`, `PassingReportHolds`, `ImplementsWorkflow` |
| `escalations` | 2 projects, 2 items in each queue, 2 requests | `ResolutionSentOnce`, `ForwardedHasHeir` |
| `scan` | 2 projects, 1 type, 2 scans, 1 turn queued per project; fairness | `AlertOnce`, `EveryItemIsHeard` |
| `turns` | 2 chats, 1 message, 1 project, 1 brief, 2 turns, 1 death; fairness | `RegistryExact`, `AnsweredOnce`, `MessageAnswered` |
| `workflow` | 1 workflow, 2 review iterations, 3 deaths; fairness | `RunningIsAttended`, `CompletedIsChecked`, `OutcomeStands`, `WorkflowEnds` |
| `services` | nine services, sizes below | one property of each, two of `SkillCatalog`, `ProjectTasks` and `EventStream` |
| `gate_opens` | the part "verdicts" of `services` | refutes `GateOpens` |

What the properties say that may surprise:

- `PauseStopsWork`: a session begins at most one more deliverable after a flag
  is up; that one had been checked already.
- `KeyNotLeaked`: unless a job was killed, the session key is up only while a
  session of the project is open. After a kill it stays up until it expires.
- `ActiveIsAttended`: an ACTIVE project that nobody works on has a reason. Its
  last session stopped at a pause flag that is still up, at a blocked gate, the
  cost ceiling or an exception; or a Director's tool committed ACTIVE with no
  session there; or a job was killed. A resume and a resolution forget the reason
  before them where they commit ACTIVE, so if one of them lost its session the
  property would fail. A flag that stopped a session goes down without a
  new one in two ways, which the property names: the sweep of `resume_director`
  (below, among the divergences) and the expiry of the flag.
- `StartedInOrder`, `SkippedIsBlocked`, `NothingForgotten` carry the weight of
  the batch loop. They speak of a loop that no resolution and no other session has
  overlapped (`disturbed`): either can take a finished state back under its feet.
- `RetryWithinLimit`, `FinishedIsFinal` hold of a row, whatever overlaps
  elsewhere, unless two writers have that very row in hand (`raced`): a resolution
  that read it FAILED and a tool that finishes it, a batch and another session, two
  calls. With 2 sessions, a call and a resolution all of these occur in
  `batch_overlap`.
- `NoDependencyCycle` holds until two calls of `manage_dependencies` have been in
  flight at once (`crossed`); two of them do close a cycle.
- `NothingForgotten`: when the loop finds nothing ready, whatever still waits
  and is not about to be skipped waits for an unfinished deliverable, and not
  for a permanent failure or one about to be skipped.
- `SuspensionIsEarned`: a project is suspended only after Threshold failures
  were committed since the loop's last clean batch, even with two sessions.
- `ImplementsWorkflow`: however many sessions overlap or die, a stage is begun
  only when those before it are complete, stages are completed in order and once
  (a duplicate row that completes later changes nothing), the project last.
- `CompletedHasEvidence`: a COMPLETED stage always has its report and a
  completed, reported and checkpointed taskgroup, overlapping sessions included.
- What a mark excuses here and below (`overlapped`, `contested`, `lost`, `shared`,
  `repeated`, `raced`, `doubled`) goes wrong in the code, and no property catches it:
  the properties confine the damage to the named case, and show that nothing else
  does it.
- `StageRowUnique`, `PassingReportHolds` (and `CurrentStageForward`, which is only proved) need that no two
  sessions have overlapped: two that both find no row insert the stage twice (and
  no later session gets past it), one opens a taskgroup under a stage another
  completes, and one enters a stage that another has left behind. The stage row,
  not the taskgroup, carries the progress over a restart: the taskgroup that an
  interrupted session leaves stays ACTIVE without a report, so the report of
  such a stage never passes.
- `ResolutionSentOnce`, `ForwardedHasHeir` (and `DecisionStands`, only proved) speak of an item on
  which no two requests were at once between read and commit, whatever happens
  on others. Then a decision is final; a forwarded item has one heir in the CEO's
  queue, for the same project, and no other item has any; a resolution is sent
  once. The exceptions are named because they are real: without `contested`
  TLC finds two resolutions sent for one item, and a resolved item of the
  Director with an heir; without `lost` a resolution that is never sent and
  cannot be asked for again.
- `AlertOnce` excludes two scans that are both between count and insert
  (`raced`), which do alert twice. `EveryItemIsHeard`: an item that stays gets a
  turn, if its project is idle from some point on and the Director not paused,
  and scans stop dying.
- `RegistryExact`: a turn that shares its session with another (`shared`) may
  lose its context to the other's end; no turn loses it to a turn elsewhere.
- `AnsweredOnce`: one answer or the error, but for a message whose turn failed
  or ran again after its answer was stored (`repeated`), that an outside failure
  cut off (`lost`), or whose lookup raised NotFoundError, which passes the handler
  that stores the error (`unfound`). `MessageAnswered` excuses the last two.
- `RunningIsAttended`: a RUNNING row has a job in the queue or in a worker, unless
  the timeout cancelled it, FAILED could not be stored, or NotFoundError ended it.
- `CompletedIsChecked` has two exceptions, both real: after a recreation the row
  is COMPLETED without the rest of the pipeline; and a reviewer without an
  answer leaves an earlier approval standing.
- `OutcomeStands`: a COMPLETED or FAILED row goes back to RUNNING only when ARQ
  repeats the job after a death, or when the completion could not be announced.
- `FreshKeepsLatest`: the merge lets the checkpoint win over the state, and the
  checkpoint of the stage loop lacks most keys; yet, without an overlapping job,
  a fresh session has the latest of each critical key, as the handler saves the
  state first.
- `InvalidationHolds`: after an invalidation has saved, neither Redis nor the
  gateway is older than it, unless two saves raced. The worker keeps its index until it
  restarts, so nothing is said of it.
- `CatalogIsRight` names what the first matching trigger does: a keyword that
  stands before an explicit trigger of the same manifest hides it.
- `AnswersAreRight`: what is computed over one graph says the same; where
  a name is listed twice, in-degrees count it twice, and the resolver takes an
  acyclic graph for a cyclic one (`doubled`).
- `ContractIsEarned`: a report's contract layer passes only when a round saw
  every deliverable COMPLETED.
- `NotesKept`, which is only proved, excludes updates that raced; `StatusIsAskedFor` does not, since an
  UPDATE has the changed columns only.
- `CompletionKept`: a todo completed with success stays DONE, though another call of
  the same response writes an older list, as all share the item. An ADD that the
  later list lacks is lost; the property says nothing of it.
- `AnswersHold`: a refused call changes no file. One that fails in its write may
  have emptied or cut the file it writes, as the code truncates first, and changes
  no other. An edit that is repeated after its success changes nothing unless its
  old or new text is empty or the new has something of the old; independent edits
  of a multi-edit give one text in either order.
- `StartedOnce`: between two AGENT_STARTED of one agent there is its
  AGENT_COMPLETED, although one set remembers the agents of a run.

What the two refuted ones say (each is quoted in `PROJECT.json` against the code):

- `AbortIsFinal`: a status committed after a stale read, or a session that ends
  normally, takes a project out of ABORTED.
- `GateOpens`: a taskgroup whose deliverables and session are in order may stay
  blocked for ever, for two reasons. The gate is handed the results of the
  PER_TASKGROUP round only (`tasks.py:818-832`), so that a required PER_DELIVERABLE
  or PER_BATCH validator counts as not evaluated, whatever its round found. And a
  validator of the PER_TASKGROUP round that looks into the session (`lint_check`,
  `test_suite`, `code_review`) is given a state of the loop's own
  (`tasks.py:804-816`) and fails. A stage with such a validator never passes its
  taskgroup gate.

### Where the code and its documents differ

Met while modelling, with no run of their own; each is in the models.

- Two sessions may work on one project: a resolution, a resume or `delegate_to_pm`
  enqueues one while another runs, and `run_work_session` does not look
  (`lifecycle.py:462`, `management.py:1190`; `.dev/architecture/execution.md:15`: "One
  active work session per project").
- The Director's pause raises flags of the projects it finds ACTIVE and leaves the
  rows. A session that stops at its flag leaves its project ACTIVE, and
  `resume_director` finds no PAUSED row, takes the project for one that has not seen
  the flag, clears it and starts nothing (`lifecycle.py:265`; its comment at 255, and
  `.dev/build-phase/phase-8a/frd.md:253`: "Projects paused by the Director pause are
  resumed in priority order").
- A stage is completed although `verify_stage_completion` has just failed; the
  loop logs it (`tasks.py:919`; `validators.py:465`: "Hard gate -- no override
  parameter", `phase-8a/frd.md:114`).
- The taskgroup closes on deliverables and escalations read several awaits
  before (`tasks.py:803-886`; `phase-8a/frd.md:168`).
- Two concurrent `manage_dependencies` calls close a cycle
  (`management.py:764`; `phase-8a/frd.md:68`: "Circular dependencies are detected and
  rejected").
- The resolution of an escalation may reach no project: `escalate_to_ceo` names none
  (`management.py:861`), and a request that dies between its commit and its job
  leaves an item RESOLVED that cannot be resolved again (`ceo_queue.py:94, 113`;
  `phase-8a/frd.md:142`: "the resolution is applied back into the work queue").
- NotFoundError passes the handlers: a chat turn whose Director is not among the
  definitions ends without an answer (`tasks.py:1789`; `.dev/build-phase/phase-5b/frd.md:99`),
  and a run whose `workflow_name` is unknown stays RUNNING (`tasks.py:1442`;
  `.dev/build-phase/phase-3/spec.md:295`).
- `file_multi_edit`, "atomically in a single pass" (`filesystem.py:209`), leaves a part
  of the new text when its write fails (`filesystem.py:245`).
- An invalidation of the skills reaches the gateway's index and Redis, and no worker
  that is up: it takes the copy at its start (`skills.py:19`, `workers/settings.py:74`,
  `workers/adk.py:214`; `.dev/build-phase/phase-6/frd.md:117`: "the next pipeline
  execution rebuilds the index from disk").
- Of two `todo_write` calls in one response the later list wins, and an ADD of the
  earlier is lost (`task.py:113`).
- `POST /projects` enqueues `run_director_turn` with two arguments it does not take:
  no project is created (`projects.py:34`).
- A workflow whose context is recreated is COMPLETED without the rest of its
  stages, and a session of work does not run its agents again (`tasks.py:1357,
  2158`; `.dev/01-PRD.md:136`: "The agent resumes from the same logical point").
- While Redis has a copy of the workflow index, a new directory is not found at
  startup (`settings.py:92`, `main.py:81`; `phase-7a/frd.md:38`).
- A chat on the Settings session is refused as soon as the formation state
  exists: it carries no `_session_id` (`tasks.py:1738`, `formation.py:98`).
- APPROVAL items never name a project, so resolving one starts nothing
  (`ceo_queue.py:97`); resolving an item of the Director never does.
- Items are ordered by `priority.desc()`, which is alphabetical
  (`tasks.py:1659`; FR-8a.38). The order is not modelled.
- State violations are published, never rejected (FR-5b.43).
- The pattern alert says it compares "same type + projects" and compares the type
  (`tasks.py:1040`).
- `file_multi_edit` is sequential, `file_edit` is not idempotent when its new
  text contains the old, and `file_insert` behind a last line without an end
  joins it.

### Bounds, and why they suffice

`MaxQueued` bounds queued sessions of a project: one lets a job be queued
behind a running session, which is the interesting case. A job that cannot
enqueue waits, as nothing it holds is visible meanwhile. `MaxBatch` 2 is the least
for which the check inside a batch matters. Two jobs of one project suffice for
every pairwise interleaving; a second project never interacts with the first
except through the set-valued jobs, and 2 projects with 2 sessions are out of
TLC's reach (the theorems cover them). In `BatchLoop`, 3 deliverables make a
chain with a middle, the least for which transitive skipping and a cycle
through a third row differ from direct ones.
`MaxRetry` bounds what the PM may retry by hand, unbounded in the code:
the loop limit is no greater, so both sides of it occur. `batch` has limits of 1 and
one writer besides the loop, so that three rows fit; `batch_overlap` has every pair
of writers on one row, a retry limit below the PM's, and a threshold of 2, which a
clean batch can reset half way. Each theorem about `BatchLoop` has none of these
restrictions.

In `StageLoop` the number of rows is a bound: 3 taskgroups are one that was
interrupted and one for each of two stages, 3 stage rows are a duplicate and the
row of the other stage. A session that needs a row beyond the bound waits or is
interrupted. Two stages are the least with an order; the first has a validator
that the taskgroup gate wants, the second one that only the stage gate wants, so
both gates pass and fail.

In `Escalations` the rows of each queue are a bound: two let a request on one
item interleave with another's, and one Director's item be forwarded while the
CEO's queue already holds one. Two requests make every pairwise overlap.

In `DirectorScan` two scans overlap in every way, and a pattern needs two
projects. `MaxQueued` bounds waiting turns; a scan that meets the bound waits or dies.
In `DirectorTurns` two coroutines make every overlap of a message, a project's
queue and the formation, on the Settings chat and on another; one death is the
least for a rerun. In `WorkflowRun` two iterations separate the first review from
the last, and three deaths let a run meet what two earlier ones left.

In `services`: 3 skill files and 3 workflow directories, each over two scopes, with one
change and one invalidation; 3 skills that call each other in a circle, and a missing
one. Agent files: 3 scopes of 2 places for files, of which any two have a file, or one
of each scope. Graphs: all graphs of 3 deliverables, self
loops and duplicates included, except for the batch, where `MaxEdges` and
`MaxNamed` bound edges and the PM's order at 2. Validators: one of each schedule
that decides. Context recreation: 2 jobs, 2 taskgroups, 3 writes; these bounds are
parameters of the theorem. Tasks: 2 callers on one task. Files: texts of 2 or 3
characters with a line end in each place, edits with an empty old text or an empty
new one among them, 2 calls, any write of which may fail. Events: 3 events of two authors.

### Fairness

`lifecycle_live`, `batch_overlap`, `scan`, `turns` and `workflow` assume weak
fairness of each step of a coroutine that is running (asyncio schedules it,
PostgreSQL and Redis answer, ARQ bounds the agents by a timeout) and that ARQ
eventually takes a queued job when a slot is free. Cron starts a scan every minute
whether or not the last is over, so each scan of the instance is started again
and again. In `turns` ARQ's taking a message's job
is strongly fair, as other jobs may occupy the slots between. Requests, tool calls, failures,
kills and expiries are never forced, and a killed coroutine owes nothing.
`LoopEnds` excuses a loop while another session's agents or a resolution
keep giving it work. The specifications may stutter: a project at rest is
legitimate. The runs `escalations`, `workflow`, `services` and `gate_opens`
turn the deadlock check off: rows run out, workflows end, computations finish.

## The proofs

All theorems are for any sets of projects, jobs, sessions, deliverables, calls,
items, turns, messages and workflows, finite or not, and any limits (`Threshold` positive).

`ProjectLifecycle_proofs`: `TypeCorrect`, then three invariants on top of it.
`PauseStopsWork` is not inductive: a session that is late already might be about
to begin another deliverable. `PauseInv` adds that a session about to begin one
is not late (it has just seen the flag down), and that a late session has its
project's flag up, so that the next check stops it. `KeyNotLeaked` is inductive as it stands: each way out of a session lowers
the key or is a kill, and a second session's close can only lower the key too early,
never leave it up. `ActiveIsAttended` needs `JobInv`, which ties the place of a
job to what it still owes (a resume between its commit and its enqueue, a
resolution before its enqueue), and `StaffInv`, which does not count a session
that is about to close as attending the project. A resume may only lower the flag
of a project that stopped because it still owes it a session.

`BatchLoop_proofs`, each for any number of sessions, calls and resolutions:

| Theorem | Inductive invariant |
|---|---|
| `TypeCorrect` | `TypeInv`: the types, and a counter below the threshold except at the suspension |
| `SuspensionIsEarnedHolds` | `EarnedInv`: `counter`, plus one if the current batch has failed, never exceeds the failures since the last clean batch |
| `StartedInOrderHolds`, `SkippedIsBlockedHolds`, `NothingForgottenHolds` | `UndisturbedInv`: the loop of a session that was not disturbed is alone (`Quiet`: no other session has agents or a loop, no call and no resolution is under way), and what it has selected or is to skip is as it was read (`Batch`). For the last, that `Stuck` is the least closed set |
| `NoDependencyCycleHolds` | `GraphInv`: until two dependency calls cross there is one in flight at most, and the graph is acyclic now and with the list that call is to commit; lemmas `AcyclicAdd`, `AcyclicRemove` |
| `RetryWithinLimitHolds`, `FinishedIsFinalHolds` | `RowInv`: a row that was not raced for has one writer at most (`OneWriter`), and what that one has read of it still stands (`UpToDate`, `BatchInv`) |

`StageLoop_proofs`:

| Theorem | Inductive invariant |
|---|---|
| `TypeCorrect` | `TypeOK` |
| `CompletedHasEvidenceHolds`, `ImplementsWorkflowHolds` | `LoopInv`: the place of a session tells what its rows say (`Placed`, `Evident`) and that the stages behind it are complete (`Ordered`). `RowsKept` makes it hold when others step: no session takes back what a row says |
| `StageRowUniqueHolds` | `AloneInv`: without overlap one session at most is in the loop, each stage has one row, and a session works on an ACTIVE one |
| `PassingReportsHold` | `ReportInv`: without overlap the report of a stage that is completed, or about to be, agrees with its taskgroups |
| `CurrentStageForwardHolds` | `AloneInv`, and `PastInv`: the stages before the current one are complete |

The refinement is proved step by step (`WorkflowStep`): `SetCurrentStage`
implements `BeginStage`, `CompleteStage` implements `FinishStage` or, for a
duplicate row, a stutter, `CompleteProject` implements `FinishProject`, and every
other action stutters. `BeginStage` of a stage that is begun already is a step
of `Workflow` as well. These theorems hold for any `Required`, and only the
last three rows exclude overlapping sessions.

`Escalations_proofs`:

| Theorem | Inductive invariant |
|---|---|
| `TypeCorrect` | `TypeInv`: the types, and a busy request has an item of the right queue |
| `DecisionStandsHolds` | `ItemInv`: an uncontested item has one request at most (`Sole`), is PENDING while that is to commit and RESOLVED while it is to send (`Held`) |
| `ResolutionSentOnceHolds` | `SentInv`: a job was sent just when the item is resolved, its request is over and did not die before |
| `ForwardedHasHeirHolds` | `HeirInv`: the property, and a row not filled yet is nobody's heir |

`DirectorScan_proofs`, `WorkflowRun_proofs`, `DirectorTurns_proofs`, each with
`TypeCorrect` and

| Theorem | Inductive invariant |
|---|---|
| `AlertOnceHolds` | `AlertInv`: the property, and `OneInserter`: of a type that was not raced for, one scan at most is about to insert, and then there is no alert yet |
| `RunningIsAttendedHolds`, `OutcomeStandsHolds` | `OutcomeInv`: what a row says while its job waits, runs, announces, fails or is over, with the marks that say what has happened |
| `CompletedIsCheckedHolds` | `CheckInv`: which stages a run at a place has gone through, and which results are of the present code before and in each step of the review |
| `RegistryExactHolds` | `RegistryInv`: unshared turns have different sessions (`Apart`) and ids of their own session, so that no other's deletion meets them |
| `AnsweredOnceHolds` | `AnswerInv`: a message has one job at most, queued or running, and no answer while that is to give one |

`Services_proofs` is about `Services`, so each theorem states the formula that the
run `services` checks. All rest on `ServicesAssumption`, the assumptions of the
nine modules on their constants (which TLC evaluates in `MCServices`), and each
invariant includes the type invariant of its module.

| Theorem | Inductive invariant |
|---|---|
| `NotesKeptHolds` | `CopyIsFresh`: the row a call has read is still the row, unless its task was raced for |
| `StatusIsAskedForHolds` | the types and `CopyIsFresh`, from which each step follows |
| `ContractIsEarnedHolds` | `RowsAreEarned`: a passed row of the contract layer has a round behind it that saw all COMPLETED |
| `ViolationsPublishedHolds` | `EachIsSomewhere`: what is in the stream, waiting and being sent adds up to what was found; lemmas about the number of entries of a sequence |
| `FreshKeepsLatestHolds` | `LatestInv`: a job that none overlaps is alone (`Sole`), and its copies are the state and the checkpoint the state's values (`Grounded`) |
| `InvalidationHoldsAlways` | `IndexIsOfDisk`: an index of the present version of the disk is its scan; `RequestsAreGrounded`, `OneSaves`: while no two saves overlap, neither copy nor index nor what is on the way to the copy is older than the last invalidation |
| `ScanKeepsFirstHolds` | `IndexIsOfDisk`, and that the scan has the declarative result (below) |
| `ResolutionIsLayeredHolds` | `ScopedIsRead`: the three scopes hold what has been read so far, one entry for each name; `ResolvedIsCascade`: what is resolved is the cascade of the three. `CascadeIsSaid` shows that a cascade of overrides, a fold, is the last word of the files field by field |
| `CatalogIsRightHolds` | `IndexIsOfDisk`, and `MatchStands`: what the worker answered last is the match with what it held then; `MatchIsMet` and `CatalogScan` give their meaning |
| `AnswersAreRightHolds` | `GraphInv`, one part for each computation: `Search` (the gray nodes are the stack and a path, the black ones lead only to black ones), `Counting` and `Resolving` (in-degrees count what is not done, the result is sorted), `Ranked`, `Focusing`, `Judging` (what is reached has been or will be looked at). `Circle`: nodes each of which has a dependency, or a dependent, among them have a cycle |
| `LoadedIsClosedHolds` | `LoadInv`: indexes that are equally old are the same wherever they are held (`KnownAgree`), have one entry for a name (`IsUnique`), and of the one an agent was loaded from what was loaded is closed (`LoadedStands`). `RankingExists`: any finite set of skills can be put in the order of priority; `CascadeIs`: the cascade ends, each round visiting one of the finitely many names that are referred to |
| `CompletionKeptHolds` | the property, which `WriteTodosKeeps` shows of the only step that writes the list |
| `StartedOnceHolds` | `SeenHaveStarted`: an agent that was announced and is no longer in the set has completed since |
| `AnswersHoldHolds` | `EditStands`: of the edit that succeeded last the old text is nowhere in the file and the new one somewhere (unless it is empty or has something of the old). `Scanning` is the invariant of the scan that counts and replaces: what was copied since the last replacement begins no occurrence. `Occurrences`: a replacement that has no character of a text makes no occurrence of it; `Swapped`: two such replacements commute |

The scans of `SkillCatalog`, `WorkflowCatalog` and `ProjectFiles` are recursive
functions. What they compute is proved by induction nevertheless, over sets
instead of predicates: `Induction` gets the least-number principle from the order
on pairs of numbers being well-founded, `Recursion` that a recursive function on
`0..N` satisfies its equation, `ScanExists` and `SameScan` that a scan is one such
function, and `ScanPicks` that it keeps the first of the last scope. In the same
way `Reach` of `DependencyGraph` is the least closed set (`Closure`: it grows in
each round or is closed), and an in-degree, a sum over the nodes, loses with a
node what that node lists (`SumLess`).

Only model-checked:

- The liveness properties (`FlagStopsSession`, `ResumeRestartsWork`, `LoopEnds`,
  `EveryItemIsHeard`, `MessageAnswered`, `WorkflowEnds`), which rest on fairness,
  out of reach of the prover.

Only proved, and in no run: `CurrentStageForward`, `DecisionStands` and `NotesKept`.

## Not modelled, and why

- What language models answer, prompts, and the wording of instructions are open
  choices or left out. Whatever only reads is left out.
- A threshold of zero or less is excluded by `LimitAssumption`, though the
  configuration accepts any integer (zero suspends after a clean batch,
  `supervision.py:562`). The Redis delete in the exception handler is taken to
  succeed.
- Code that nothing in the application calls: `create_edit_taskgroup`
  (`tasks.py:1080`) and its helper, `handle_deliverable_failure`,
  `create_batch_verification_callback`, `validate_project_scope`,
  `check_tool_access`, `GlobalToolset.get_tools`, `generate_completion_report`,
  `initialize_stage_state`, the formation's `write_artifact` and
  `reset_formation`. `reconfigure_stage` and `stages.py` work on a state that nothing
  initializes, so the tool always answers an error. No approval names a
  project, so `run_work_session` is never passed one. The callbacks that would store a deliverable's status find no
  `current_deliverable_id` in a session.
- Worker tools that run commands or use the network (`bash_exec`, `git`, `http`,
  `web`, `code`), reading and searching files, the model router (a table with
  fallbacks), the scripts that come with the office document skills, HTTP
  routing and read-only queries.
- A deliverable left IN_PROGRESS by a killed session (`tasks.py:390`): the
  models contain it, no document says what should become of it, so no
  property is stated.

`PROJECT.json` has the hazards with the properties that cover each.

## What is left to do

1. `Deliverables`: what `BatchLoop` promises about one deliverable, as an abstract
   state machine that it refines, with the refinement proved.
2. `ProjectLifecycle` and `DirectorScan` share the session key, and `Escalations`
   and `ProjectLifecycle` the resolution: their composition would replace what each
   leaves open about the other.
