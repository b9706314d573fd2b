------------------------------- MODULE Verdicts -------------------------------
(***************************************************************************)
(* How the validators of a stage come to their verdicts, and what the      *)
(* gates and the completion report make of them.  StageLoop leaves the     *)
(* verdicts open; here they are computed from what the code gives the      *)
(* validators to look at.                                                  *)
(*                                                                         *)
(* A round evaluates every validator of its schedule, whichever stage      *)
(* declares it, and keeps each result twice: in the list it returns to the *)
(* gate, and in a row, whose loss is only logged.                          *)
(***************************************************************************)
EXTENDS FiniteSets

CONSTANTS Candidates,    \* validators a manifest may declare for the stage
          Deliverables

VerdictAssumption == \A v \in Candidates :
  /\ v.kind \in {"DETERMINISTIC", "APPROVAL", "LLM"}
  /\ v.schedule \in {"PER_DELIVERABLE", "PER_BATCH", "PER_TASKGROUP", "PER_STAGE"}
  /\ v.required \in BOOLEAN

VARIABLES manifest,    \* the validators declared
          session,     \* keys that the agents have set to TRUE in their session
          status,      \* of each deliverable
          pending,     \* an escalation is pending
          at,          \* where the stage loop is
          given,       \* the keys it has read for the next round, with statuses
          results,     \* what the last round returned
          rows,        \* validator_results of the stage and the session's workflow
          layers,      \* the taskgroup's report, layer by layer
          regressed,   \* regression tests have run
          observed     \* history: a round of the session saw every deliverable
                       \* COMPLETED

world == <<session, status, pending>>
vars == <<manifest, world, at, given, results, rows, layers, regressed, observed>>

Statuses == {"PENDING", "COMPLETED", "FAILED"}
Terminal == {"COMPLETED", "FAILED"}       \* and SKIPPED, which counts as FAILED
NoStatuses == [d \in {} |-> "COMPLETED"]

\* What validators look for in a session.
SessionKeys == {"lint_results", "test_results", "regression_results",
                "integration_tests_passed", "review_passed"}

Layers == [functional |-> {"lint_check", "test_suite", "regression_tests",
                           "integration_tests"},
           architectural |-> {"code_review", "architecture_conformance"},
           contract |-> {"deliverable_status_check", "dependency_validation"}]

Init == /\ manifest \in SUBSET Candidates
        /\ session \in {{}, SessionKeys}
        /\ status = [d \in Deliverables |-> "PENDING"] /\ pending = FALSE
        /\ at = "batch"
        /\ given = [keys |-> {}, statuses |-> NoStatuses]
        /\ results = {} /\ rows = {}
        /\ layers = [l \in DOMAIN Layers |-> "none"]
        /\ regressed = FALSE /\ observed = FALSE

-----------------------------------------------------------------------------
(***************************************************************************)
(* Evaluation.                                                             *)
(***************************************************************************)
StatusCheck(g) == /\ "deliverable_statuses" \in g.keys
                  /\ \A d \in DOMAIN g.statuses : g.statuses[d] = "COMPLETED"

\* A validator passes when the key it reads is there and TRUE.
StandardCheck(name, g) ==
  CASE name = "lint_check"        -> "lint_results" \in g.keys
    [] name = "test_suite"        -> "test_results" \in g.keys
    [] name = "regression_tests"  -> "regression_results" \in g.keys
    [] name = "integration_tests" -> "integration_tests_passed" \in g.keys
    [] name = "code_review"       -> "review_passed" \in g.keys
    [] name = "dependency_validation" ->
         {"dependency_graph", "dependency_order"} \cap g.keys # {}
    [] name = "deliverable_status_check" -> StatusCheck(g)
    [] OTHER -> FALSE

\* One name stands for every approval:<name>, one for every llm_validator:<name>.
Passes(v, g) == \/ v.kind = "DETERMINISTIC" /\ StandardCheck(v.name, g)
                \/ v.kind = "APPROVAL" /\ "approval" \in g.keys
                \/ v.kind = "LLM" /\ "llm_validator" \in g.keys

\* _run_scheduled_validators
Evaluate(schedule, g) ==
  LET due == {v \in manifest : v.schedule = schedule}
      found == {[name |-> v.name, passed |-> Passes(v, g)] : v \in due}
  IN  /\ results' = found
      /\ \E lost \in SUBSET found : rows' = rows \cup (found \ lost)
      /\ observed' = (observed \/ ( /\ due # {}
                                    /\ "deliverable_statuses" \in g.keys
                                    /\ \A d \in DOMAIN g.statuses :
                                         g.statuses[d] = "COMPLETED"))

\* _run_regression_tests asks for a policy in the same keys.
RegressionDue(g) == "pm:regression_policy" \in g.keys

-----------------------------------------------------------------------------
(***************************************************************************)
(* The batch loop.                                                         *)
(***************************************************************************)
Keys(K) == [keys |-> K, statuses |-> NoStatuses]

AfterDeliverable ==
  /\ at \in {"batch", "begun"} /\ at' = "begun"
  /\ Evaluate("PER_DELIVERABLE", Keys({"current_deliverable_id"}))
  /\ UNCHANGED <<manifest, world, given, layers, regressed>>

AfterBatch ==
  /\ at = "begun" /\ at' = "batch"
  /\ LET g == Keys({"current_batch_deliverables"})
     IN  /\ Evaluate("PER_BATCH", g)
         /\ regressed' = (regressed \/ RegressionDue(g))
  /\ UNCHANGED <<manifest, world, given, layers>>

-----------------------------------------------------------------------------
(***************************************************************************)
(* The gates and the report.                                               *)
(***************************************************************************)
\* No deliverable is ready any more.
ReadTaskgroup ==
  /\ at = "batch" /\ at' = "taskgroup"
  /\ given' = [keys |-> {"deliverable_statuses", "pm:current_stage"}
                          \cup (IF pending THEN {"pm:pending_escalations"} ELSE {}),
               statuses |-> status]
  /\ UNCHANGED <<manifest, world, results, rows, layers, regressed, observed>>

AtTaskgroup ==
  /\ at = "taskgroup" /\ at' = "gate"
  /\ Evaluate("PER_TASKGROUP", given)
  /\ UNCHANGED <<manifest, world, given, layers, regressed>>

\* Required validators that have no passing result.
Lacking(schedules) == {v \in manifest :
  /\ v.required /\ v.schedule \in schedules
  /\ [name |-> v.name, passed |-> TRUE] \notin results}

Outstanding(g) == {d \in DOMAIN g.statuses : g.statuses[d] \notin Terminal}

\* verify_taskgroup_completion: the batch loop's results are not among these.
TaskgroupGate ==
  /\ at = "gate"
  /\ at' = IF /\ Outstanding(given) = {}
              /\ "pm:pending_escalations" \notin given.keys
              /\ Lacking({"PER_DELIVERABLE", "PER_BATCH", "PER_TASKGROUP"}) = {}
             THEN "report" ELSE "blocked"
  /\ UNCHANGED <<manifest, world, given, results, rows, layers, regressed, observed>>

\* The session is blocked, or dies.  The next one takes the stage up with a
\* workflow, and so with rows, and a taskgroup of its own.
Resume ==
  /\ at # "done" /\ at' = "batch"
  /\ given' = Keys({}) /\ results' = {} /\ rows' = {}
  /\ layers' = [l \in DOMAIN Layers |-> "none"]
  /\ observed' = FALSE
  /\ UNCHANGED <<manifest, world, regressed>>

RowsOf(l) == {r \in rows : r.name \in Layers[l]}

\* Mutant: a layer that nothing has been evaluated for passes.
LayerStatusOfNothing(l) ==
  IF \A r \in RowsOf(l) : r.passed THEN "pass" ELSE "fail"

LayerStatus(l) == IF RowsOf(l) = {} THEN "unverified"
                  ELSE IF \A r \in RowsOf(l) : r.passed THEN "pass" ELSE "fail"

\* build_taskgroup_report and its storage; close and stage round follow.
BuildReport ==
  /\ at = "report" /\ at' = "readstage"
  /\ layers' = [l \in DOMAIN Layers |-> LayerStatus(l)]
  /\ UNCHANGED <<manifest, world, given, results, rows, regressed, observed>>

ReadStage ==
  /\ at = "readstage" /\ at' = "stage"
  /\ given' = [keys |-> {"deliverable_statuses", "pm:current_stage"},
               statuses |-> status]
  /\ UNCHANGED <<manifest, world, results, rows, layers, regressed, observed>>

AtStage ==
  /\ at = "stage" /\ at' = "verify"
  /\ Evaluate("PER_STAGE", given)
  /\ UNCHANGED <<manifest, world, given, layers, regressed>>

\* verify_stage_completion is logged: the stage completes whatever it says.
VerifyStage ==
  /\ at = "verify" /\ at' = "done" /\ results' = {}
  /\ UNCHANGED <<manifest, world, given, rows, layers, regressed, observed>>

-----------------------------------------------------------------------------
\* Agents, tools and the Director, at any time.
ChangeWorld ==
  /\ at # "done"
  /\ \/ \E d \in Deliverables, s \in Statuses :
          /\ s # status[d] /\ status' = [status EXCEPT ![d] = s]
          /\ UNCHANGED <<session, pending>>
     \/ pending' = ~pending /\ UNCHANGED <<session, status>>
  /\ UNCHANGED <<manifest, at, given, results, rows, layers, regressed, observed>>

Next == \/ AfterDeliverable \/ AfterBatch \/ ReadTaskgroup \/ AtTaskgroup
        \/ TaskgroupGate \/ Resume \/ BuildReport \/ ReadStage \/ AtStage
        \/ VerifyStage \/ ChangeWorld

Spec == Init /\ [][Next]_vars

-----------------------------------------------------------------------------
GateKeys == {"deliverable_statuses", "pm:current_stage", "pm:pending_escalations"}
Result == [name: {v.name : v \in Candidates}, passed: BOOLEAN]

(***************************************************************************)
(* Results are of validators that may be declared, and the loops hand on   *)
(* no keys but these three.                                                *)
(***************************************************************************)
TypeOK ==
  /\ manifest \subseteq Candidates
  /\ session \subseteq SessionKeys
  /\ status \in [Deliverables -> Statuses]
  /\ pending \in BOOLEAN
  /\ at \in {"batch", "begun", "taskgroup", "gate", "blocked", "report",
             "readstage", "stage", "verify", "done"}
  /\ given.keys \subseteq GateKeys
  /\ given.statuses \in {NoStatuses} \cup [Deliverables -> Statuses]
  /\ results \subseteq Result /\ rows \subseteq Result
  /\ layers \in [DOMAIN Layers -> {"none", "unverified", "pass", "fail"}]
  /\ regressed \in BOOLEAN /\ observed \in BOOLEAN

\* What the contract layer draws on: a row that has passed was earned.
RowsAreEarned ==
  \A r \in rows : r.name \in Layers.contract /\ r.passed => observed

(***************************************************************************)
(* The contract layer of a report never passes on an assertion: some round *)
(* of validators of the same session has seen every deliverable COMPLETED, *)
(* and its verdict was kept in a row (_layer_status,                       *)
(* deliverable_status_check).                                              *)
(***************************************************************************)
ContractIsEarned == layers.contract = "pass" => observed

(***************************************************************************)
(* A taskgroup is held back only by work that is not finished: a           *)
(* deliverable that is not terminal, an escalation, or a required          *)
(* validator that has not been evaluated or that the agents' session gives *)
(* no ground to pass (ValidatorRunner.evaluate: "state: Pipeline session   *)
(* state snapshot"; verify_taskgroup_completion: "deliverables done,       *)
(* validators passing").  Two things refute it: the gate is handed the     *)
(* results of the taskgroup's own round only, so a validator of an earlier *)
(* round counts as not evaluated whatever it found, and a validator of     *)
(* that round that looks into the session finds the loop's made-up keys.   *)
(***************************************************************************)
GateOpens == at = "blocked" =>
  \/ Outstanding(given) # {}
  \/ "pm:pending_escalations" \in given.keys
  \/ \E v \in manifest :
       /\ v.required
       /\ \/ \A r \in rows : r.name # v.name
          \/ ~ Passes(v, [given EXCEPT !.keys = @ \cup session])
=============================================================================
