----------------------------- MODULE WorkflowRun -----------------------------
(***************************************************************************)
(* run_workflow: the job behind POST /workflows/run.  It takes a workflow  *)
(* row to RUNNING, runs the pipeline of a deliverable in the ADK session   *)
(* of the row's id, and commits COMPLETED or FAILED.                       *)
(*                                                                         *)
(* The pipeline is a sequence of agents whose results are keys of the      *)
(* session's state; its last one reviews the code, has it fixed, linted    *)
(* and tested again, until it approves or has tried often enough.  A model *)
(* call that would exceed the context budget ends the pipeline: the        *)
(* session's critical keys are copied to a fresh one.                      *)
(***************************************************************************)
EXTENDS Naturals, Sequences

CONSTANTS Workflows,
          MaxIterations,    \* max_review_cycles of the manifest
          MaxDeaths         \* bound: deaths of the worker

ASSUME RunAssumption == MaxIterations \in Nat \ {0} /\ MaxDeaths \in Nat

VARIABLES row,        \* workflows.status
          kind,       \* params.pipeline_type
          queued,     \* workflows whose job waits
          run,        \* each job's place, stage, review step and iteration
          session,    \* state of the ADK session of the id: none, or its keys
          passed,     \* its review_passed
          verdict,    \* its review_result
          fresh,      \* keys of the session a recreation has made
          current,    \* which results are of the code as it is on disk
          deaths,
          ran,        \* history: stages the last job went through
          marks       \* history: what has happened to the workflow, of Marks;
                      \* a recreation and a silent reviewer: to its last job

vars == <<row, kind, queued, run, session, passed, verdict, fresh, current, deaths,
          ran, marks>>

\* The request ended before the job was sent; the worker died, or cancelled the
\* job at its timeout; the pipeline was not found; FAILED could not be stored,
\* or the event of the completion not be published; a context was recreated; a
\* reviewer without an answer left an earlier approval standing.
Marks == {"unsent", "died", "cancelled", "unfound", "unstored", "unannounced",
          "recreated", "silent"}

\* PIPELINE_STAGE_NAMES.  STAGE_COMPLETION_KEYS names one key for each, for
\* which the stage's name stands here.
Stages == <<"skill_loader", "memory_loader", "planner", "coder", "formatter",
            "linter", "tester", "diagnostics", "review_cycle">>
StageNames == {Stages[i] : i \in DOMAIN Stages}

\* Of the completion keys these two pass identify_critical_keys:
\* loaded_skill_names by its prefix, code_output by its suffix.
CriticalStages == {"skill_loader", "coder"}

ReviewSteps == <<"reviewer", "fixer", "review_linter", "review_tester">>
ReviewNames == {ReviewSteps[i] : i \in DOMAIN ReviewSteps}

\* The agents that are given the callbacks, and so the monitor.
LlmAgents == {"planner", "coder", "reviewer", "fixer"}

None == {"none"}      \* the keys of a session that does not exist
Idle == [at |-> "idle", stage |-> 1, step |-> 1, iteration |-> 1]

Init == /\ row = [w \in Workflows |-> "NONE"]
        /\ kind = [w \in Workflows |-> "echo"]
        /\ queued = {}
        /\ run = [w \in Workflows |-> Idle]
        /\ session = [w \in Workflows |-> None]
        /\ passed = [w \in Workflows |-> FALSE]
        /\ verdict = [w \in Workflows |-> "NONE"]
        /\ fresh = [w \in Workflows |-> None]
        /\ current = [w \in Workflows |-> {}]
        /\ deaths = 0
        /\ ran = [w \in Workflows |-> {}]
        /\ marks = [w \in Workflows |-> {}]

results == <<session, passed, verdict, fresh, current, ran>>

-----------------------------------------------------------------------------
(***************************************************************************)
(* The gateway.                                                            *)
(***************************************************************************)
Submit(w) ==
  /\ row[w] = "NONE"
  /\ row' = [row EXCEPT ![w] = "PENDING"]
  /\ kind' = [kind EXCEPT ![w] = "deliverable"] \/ kind' = kind
  /\ UNCHANGED <<queued, run, results, deaths, marks>>

\* The job follows the commit, or Redis fails: the row stays PENDING.
Enqueue(w) ==
  /\ row[w] = "PENDING" /\ w \notin queued /\ "unsent" \notin marks[w]
  /\ \/ queued' = queued \cup {w} /\ UNCHANGED marks
     \/ marks' = [marks EXCEPT ![w] = @ \cup {"unsent"}] /\ UNCHANGED queued
  /\ UNCHANGED <<row, kind, run, results, deaths>>

-----------------------------------------------------------------------------
(***************************************************************************)
(* The job.                                                                *)
(***************************************************************************)
\* Mutant: the job is not taken off the queue.
StartKeepsJob(w) ==
  /\ w \in queued
  /\ row' = [row EXCEPT ![w] = "RUNNING"]
  /\ run' = [run EXCEPT ![w] = [Idle EXCEPT !.at = "open"]]
  /\ ran' = [ran EXCEPT ![w] = {}]
  /\ marks' = [marks EXCEPT ![w] = @ \ {"recreated", "silent"}]
  /\ UNCHANGED <<kind, queued, session, passed, verdict, fresh, current, deaths>>

\* RUNNING, whatever the row's status was.
Start(w) ==
  /\ w \in queued
  /\ queued' = queued \ {w}
  /\ row' = [row EXCEPT ![w] = "RUNNING"]
  /\ run' = [run EXCEPT ![w] = [Idle EXCEPT !.at = "open"]]
  /\ ran' = [ran EXCEPT ![w] = {}]
  /\ marks' = [marks EXCEPT ![w] = @ \ {"recreated", "silent"}]
  /\ UNCHANGED <<kind, session, passed, verdict, fresh, current, deaths>>

\* The pipeline is built, its tool context registered, and the session of the
\* id created, or resumed with the keys it has.
OpenSession(w) ==
  /\ run[w].at = "open"
  /\ session' = [session EXCEPT ![w] = IF @ = None THEN {} ELSE @]
  /\ run' = [run EXCEPT ![w].at = "stage"]
  /\ UNCHANGED <<row, kind, queued, passed, verdict, fresh, current, deaths, ran,
                 marks>>

Agent(w) == IF kind[w] = "echo" THEN "echo"
            ELSE IF Stages[run[w].stage] # "review_cycle" THEN Stages[run[w].stage]
            ELSE ReviewSteps[run[w].step]

At(w, agent) == run[w].at = "stage" /\ Agent(w) = agent

\* The pipeline always begins at its first stage; after the last the row is due.
Advances(w) ==
  /\ ran' = [ran EXCEPT ![w] = @ \cup {Stages[run[w].stage]}]
  /\ \/ /\ run[w].stage < Len(Stages)
        /\ run' = [run EXCEPT ![w].stage = @ + 1]
     \/ /\ run[w].stage = Len(Stages)
        /\ run' = [run EXCEPT ![w].at = "complete"]

rowVars == <<row, kind, queued, deaths>>

\* create_echo_agent.
Echo(w) ==
  /\ At(w, "echo")
  /\ run' = [run EXCEPT ![w].at = "complete"]
  /\ UNCHANGED <<rowVars, results, marks>>

\* An agent of the program's own always leaves its key.
Leaves(w, a) ==
  /\ At(w, a)
  /\ session' = [session EXCEPT ![w] = @ \cup {a}]
  /\ Advances(w)

\* SkillLoaderAgent, whose library fails the job when it fails.
LoadSkills(w) ==
  /\ Leaves(w, "skill_loader")
  /\ UNCHANGED <<rowVars, passed, verdict, fresh, current, marks>>

\* MemoryLoaderAgent, also when the memory cannot be searched.
LoadMemory(w) ==
  /\ Leaves(w, "memory_loader")
  /\ UNCHANGED <<rowVars, passed, verdict, fresh, current, marks>>

\* DiagnosticsAgent, also when the model's analysis fails.
Diagnose(w) ==
  /\ Leaves(w, "diagnostics")
  /\ UNCHANGED <<rowVars, passed, verdict, fresh, current, marks>>

\* The planner's and the coder's key is their output: a turn without text
\* leaves none.  The coder changes the code.
Write(w) ==
  /\ \E a \in {"planner", "coder"} :
       /\ At(w, a)
       /\ \/ session' = [session EXCEPT ![w] = @ \cup {a}]
          \/ UNCHANGED session
       /\ current' = [current EXCEPT ![w] = IF a = "coder" THEN {} ELSE @]
  /\ Advances(w)
  /\ UNCHANGED <<rowVars, passed, verdict, fresh, marks>>

\* FormatterAgent may change the code; LinterAgent and TestRunnerAgent look at
\* it.  Each leaves its key, also when its command could not be run.
Format(w) ==
  /\ Leaves(w, "formatter")
  /\ current' = [current EXCEPT ![w] = {}] \/ UNCHANGED current
  /\ UNCHANGED <<rowVars, passed, verdict, fresh, marks>>

Lint(w) ==
  /\ Leaves(w, "linter")
  /\ current' = [current EXCEPT ![w] = @ \cup {"linter"}]
  /\ UNCHANGED <<rowVars, passed, verdict, fresh, marks>>

RunTests(w) ==
  /\ Leaves(w, "tester")
  /\ current' = [current EXCEPT ![w] = @ \cup {"tester"}]
  /\ UNCHANGED <<rowVars, passed, verdict, fresh, marks>>

-----------------------------------------------------------------------------
(***************************************************************************)
(* ReviewCycleAgent.                                                       *)
(***************************************************************************)
\* Mutant: the answer is not read again before it is stored.
ReviewStale(w) ==
  /\ At(w, "reviewer")
  /\ \E v \in {"REJECTED", "APPROVED"} :
       /\ verdict' = [verdict EXCEPT ![w] = v]
       /\ passed' = [passed EXCEPT ![w] = verdict[w] = "APPROVED"]
       /\ current' = [current EXCEPT ![w] =
                        IF v = "APPROVED" THEN @ \cup {"reviewer"} ELSE @]
       /\ \/ verdict[w] = "APPROVED" /\ Advances(w)
          \/ verdict[w] # "APPROVED" /\ run' = [run EXCEPT ![w].step = 2] /\ UNCHANGED ran
  /\ session' = [session EXCEPT ![w] = @ \cup {"review_cycle"}]
  /\ UNCHANGED <<rowVars, fresh, marks>>

\* The reviewer's answer is review_result; when it gives none, the one of the
\* iteration before, or of an earlier run of the session, still stands.  What
\* is read there becomes review_passed, and an approval ends the cycle.  v is
\* what is read: an answer that names an approval anywhere in its text is one.
Review(w) ==
  /\ At(w, "reviewer")
  /\ \E answers \in BOOLEAN, v \in {"REJECTED", "APPROVED", verdict[w]} :
       /\ IF answers THEN v # "NONE" ELSE v = verdict[w]
       /\ verdict' = [verdict EXCEPT ![w] = v]
       /\ passed' = [passed EXCEPT ![w] = v = "APPROVED"]
       /\ \/ /\ v = "APPROVED" /\ Advances(w)
             /\ IF answers
                  THEN current' = [current EXCEPT ![w] = @ \cup {"reviewer"}] /\ UNCHANGED marks
                  ELSE marks' = [marks EXCEPT ![w] = @ \cup {"silent"}] /\ UNCHANGED current
          \/ /\ v # "APPROVED" /\ run' = [run EXCEPT ![w].step = 2]
             /\ UNCHANGED <<ran, current, marks>>
  /\ session' = [session EXCEPT ![w] = @ \cup {"review_cycle"}]
  /\ UNCHANGED <<rowVars, fresh>>

\* The fixer may change the code.
Fix(w) ==
  /\ At(w, "fixer")
  /\ current' = [current EXCEPT ![w] = {}] \/ UNCHANGED current
  /\ run' = [run EXCEPT ![w].step = 3]
  /\ UNCHANGED <<rowVars, session, passed, verdict, fresh, ran, marks>>

\* Linter and tester run again.  After the last iteration the code is not
\* approved; the stage is over all the same.
Recheck(w) ==
  /\ \E a \in {"linter", "tester"} :
       /\ At(w, IF a = "linter" THEN "review_linter" ELSE "review_tester")
       /\ current' = [current EXCEPT ![w] = @ \cup {a}]
  /\ \/ /\ At(w, "review_linter")
        /\ run' = [run EXCEPT ![w].step = 4]
        /\ UNCHANGED <<passed, ran>>
     \/ /\ At(w, "review_tester") /\ run[w].iteration < MaxIterations
        /\ run' = [run EXCEPT ![w].step = 1, ![w].iteration = @ + 1]
        /\ UNCHANGED <<passed, ran>>
     \/ /\ At(w, "review_tester") /\ run[w].iteration = MaxIterations
        /\ passed' = [passed EXCEPT ![w] = FALSE]
        /\ Advances(w)
  /\ UNCHANGED <<rowVars, session, verdict, fresh, marks>>

-----------------------------------------------------------------------------
(***************************************************************************)
(* Context recreation, and the end of the job.                             *)
(***************************************************************************)
\* ContextBudgetMonitor raises before the model is called.
ExceedBudget(w) ==
  /\ run[w].at = "stage" /\ Agent(w) \in LlmAgents
  /\ run' = [run EXCEPT ![w].at = "recreate"]
  /\ UNCHANGED <<rowVars, results, marks>>

\* recreate_context seeds a fresh session with the critical keys.  The stages
\* that remain are counted, and the job goes on to its end.
Recreate(w) ==
  /\ run[w].at = "recreate"
  /\ fresh' = [fresh EXCEPT ![w] = session[w] \cap CriticalStages]
  /\ run' = [run EXCEPT ![w].at = "complete"]
  /\ marks' = [marks EXCEPT ![w] = @ \cup {"recreated"}]
  /\ UNCHANGED <<rowVars, session, passed, verdict, current, ran>>

Complete(w) ==
  /\ run[w].at = "complete"
  /\ row' = [row EXCEPT ![w] = "COMPLETED"]
  /\ run' = [run EXCEPT ![w].at = "announce"]
  /\ UNCHANGED <<kind, queued, deaths, results, marks>>

\* WORKFLOW_COMPLETED.
Announce(w) ==
  /\ run[w].at = "announce"
  /\ run' = [run EXCEPT ![w] = Idle]
  /\ UNCHANGED <<rowVars, results, marks>>

\* Any step may raise; the last one is the event, after the commit.
StepFails(w) ==
  /\ run[w].at \notin {"idle", "fail"}
  /\ run' = [run EXCEPT ![w].at = "fail"]
  /\ marks' = [marks EXCEPT ![w] =
                 IF run[w].at = "announce" THEN @ \cup {"unannounced"} ELSE @]
  /\ UNCHANGED <<rowVars, results>>

\* The handler commits FAILED, unless that fails too.  ARQ does not run a job
\* that raised again.
Fail(w) ==
  /\ run[w].at = "fail"
  /\ run' = [run EXCEPT ![w] = Idle]
  /\ \/ row' = [row EXCEPT ![w] = "FAILED"] /\ UNCHANGED marks
     \/ marks' = [marks EXCEPT ![w] = @ \cup {"unstored"}] /\ UNCHANGED row
  /\ UNCHANGED <<kind, queued, deaths, results>>

\* A pipeline whose workflow is not in the registry: NotFoundError passes the
\* handler, and the row is left as it is.
NotFound(w) ==
  /\ run[w].at = "open" /\ kind[w] = "deliverable"
  /\ run' = [run EXCEPT ![w] = Idle]
  /\ marks' = [marks EXCEPT ![w] = @ \cup {"unfound"}]
  /\ UNCHANGED <<rowVars, results>>

\* The timeout is no Exception: the row is left as it is.
Cancel(w) ==
  /\ run[w].at # "idle"
  /\ run' = [run EXCEPT ![w] = Idle]
  /\ marks' = [marks EXCEPT ![w] = @ \cup {"cancelled"}]
  /\ UNCHANGED <<rowVars, results>>

\* Mutant: the job of a dead worker is dropped.
WorkerDiesForgetting ==
  /\ deaths < MaxDeaths
  /\ deaths' = deaths + 1
  /\ run' = [w \in Workflows |-> Idle]
  /\ UNCHANGED <<row, kind, queued, results, marks>>

\* ARQ runs again what a dead worker had begun.
WorkerDies ==
  /\ deaths < MaxDeaths
  /\ deaths' = deaths + 1
  /\ queued' = queued \cup {w \in Workflows : run[w].at # "idle"}
  /\ run' = [w \in Workflows |-> Idle]
  /\ marks' = [w \in Workflows |->
                 IF run[w].at # "idle" THEN marks[w] \cup {"died"} ELSE marks[w]]
  /\ UNCHANGED <<row, kind, results>>

JobStep(w) ==
  \/ OpenSession(w) \/ Echo(w) \/ LoadSkills(w) \/ LoadMemory(w) \/ Diagnose(w)
  \/ Write(w) \/ Format(w) \/ Lint(w) \/ RunTests(w) \/ Review(w) \/ Fix(w)
  \/ Recheck(w) \/ Recreate(w) \/ Complete(w) \/ Announce(w) \/ Fail(w)

Next == \/ \E w \in Workflows :
             \/ Submit(w) \/ Enqueue(w) \/ Start(w) \/ JobStep(w) \/ ExceedBudget(w)
             \/ StepFails(w) \/ NotFound(w) \/ Cancel(w)
        \/ WorkerDies

Spec == Init /\ [][Next]_vars

\* A request goes on after its commit, the worker takes up jobs and goes on.
Fairness == \A w \in Workflows :
              WF_vars(Enqueue(w)) /\ WF_vars(Start(w)) /\ WF_vars(JobStep(w))

LiveSpec == Spec /\ Fairness

-----------------------------------------------------------------------------
TypeOK ==
  /\ row \in [Workflows -> {"NONE", "PENDING", "RUNNING", "COMPLETED", "FAILED"}]
  /\ kind \in [Workflows -> {"echo", "deliverable"}]
  /\ queued \subseteq Workflows
  /\ run \in [Workflows -> [at: {"idle", "open", "stage", "recreate", "complete",
                                 "announce", "fail"},
                            stage: 1..Len(Stages), step: 1..4,
                            iteration: 1..MaxIterations]]
  /\ session \in [Workflows -> {None} \cup SUBSET StageNames]
  /\ passed \in [Workflows -> BOOLEAN]
  /\ verdict \in [Workflows -> {"NONE", "REJECTED", "APPROVED"}]
  /\ fresh \in [Workflows -> {None} \cup SUBSET CriticalStages]
  /\ current \in [Workflows -> SUBSET {"linter", "tester", "reviewer"}]
  /\ deaths \in 0..MaxDeaths
  /\ ran \in [Workflows -> SUBSET StageNames]
  /\ marks \in [Workflows -> SUBSET Marks]

(***************************************************************************)
(* A workflow that is RUNNING has its job in the queue or in a worker,     *)
(* also after the worker died, unless the timeout cancelled the job, the   *)
(* database would not take FAILED, or its pipeline was not found.          *)
(***************************************************************************)
RunningIsAttended ==
  \A w \in Workflows :
    row[w] = "RUNNING" => \/ w \in queued \/ run[w].at # "idle"
                          \/ marks[w] \cap {"cancelled", "unfound", "unstored"} # {}

(***************************************************************************)
(* The outcome of a workflow stands: COMPLETED and FAILED are taken back   *)
(* only when the worker died during the job, which then runs again, or     *)
(* when the completion, committed, could not be announced.                 *)
(***************************************************************************)
OutcomeStands ==
  [][\A w \in Workflows :
       /\ row[w] \in {"COMPLETED", "FAILED"} /\ row'[w] # row[w]
       => marks[w] \cap {"died", "unannounced"} # {}]_vars

(***************************************************************************)
(* A completed deliverable went through every stage; its lint and test     *)
(* results are of the code as it is; and if it passed the review the       *)
(* reviewer saw that very code, whatever an earlier run of the session     *)
(* left there: unless a context was recreated on the way, or the approval  *)
(* is an old one that a reviewer without an answer left standing.          *)
(***************************************************************************)
CompletedIsChecked ==
  \A w \in Workflows :
    /\ row[w] = "COMPLETED" /\ kind[w] = "deliverable"
    /\ run[w].at \in {"idle", "announce"} /\ "recreated" \notin marks[w]
    => /\ ran[w] = StageNames
       /\ {"linter", "tester"} \subseteq current[w]
       /\ passed[w] => "reviewer" \in current[w] \/ "silent" \in marks[w]

(***************************************************************************)
(* A submitted workflow comes to an end, through deaths of the worker and  *)
(* reviews that never approve, unless its job was lost or cut off or its   *)
(* pipeline not found.                                                     *)
(***************************************************************************)
WorkflowEnds ==
  \A w \in Workflows :
    row[w] = "PENDING" ~> \/ row[w] \in {"COMPLETED", "FAILED"}
                          \/ marks[w] \cap {"unsent", "cancelled", "unfound", "unstored"} # {}
=============================================================================
