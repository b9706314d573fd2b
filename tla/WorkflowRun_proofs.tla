--------------------------- MODULE WorkflowRun_proofs ---------------------------
(***************************************************************************)
(* Theorems about WorkflowRun, for any set of workflows, any number of     *)
(* review iterations and any number of deaths of the worker: its types,    *)
(* that a RUNNING workflow is attended to, that an outcome stands, and     *)
(* that a completed deliverable was checked.                               *)
(***************************************************************************)
EXTENDS WorkflowRun, TLAPS

-----------------------------------------------------------------------------
(***************************************************************************)
(* Types.                                                                  *)
(***************************************************************************)
Places == {"idle", "open", "stage", "recreate", "complete", "announce", "fail"}

Runs == [at: Places, stage: 1..9, step: 1..4, iteration: 1..MaxIterations]

\* The pipeline and the review cycle, as facts for the provers.
LEMMA Pipeline ==
  /\ Len(Stages) = 9 /\ DOMAIN Stages = 1..9
  /\ Stages[1] = "skill_loader" /\ Stages[2] = "memory_loader"
  /\ Stages[3] = "planner" /\ Stages[4] = "coder" /\ Stages[5] = "formatter"
  /\ Stages[6] = "linter" /\ Stages[7] = "tester" /\ Stages[8] = "diagnostics"
  /\ Stages[9] = "review_cycle"
  /\ ReviewSteps[1] = "reviewer" /\ ReviewSteps[2] = "fixer"
  /\ ReviewSteps[3] = "review_linter" /\ ReviewSteps[4] = "review_tester"
BY DEF Stages, ReviewSteps

\* The names of the stages are those of the pipeline, and none of them is the
\* mark of a session that is not there.
LEMMA Names ==
  /\ \A i \in 1..9 : Stages[i] \in StageNames
  /\ \A a \in StageNames : \E i \in 1..9 : a = Stages[i]
  /\ "none" \notin StageNames
  /\ CriticalStages \subseteq StageNames
<1>1. \A a : a \in StageNames <=> \E i \in 1..9 : a = Stages[i]
  BY Pipeline DEF StageNames
<1>2. \A i \in 1..9 : i \in {1, 2, 3, 4, 5, 6, 7, 8, 9}
  OBVIOUS
<1>3. "none" \notin StageNames
  BY <1>1, <1>2, Pipeline
<1>4. CriticalStages \subseteq StageNames
  BY <1>1, Pipeline DEF CriticalStages
<1> QED
  BY <1>1, <1>3, <1>4

\* Who is at work, by the place of the pipeline.
LEMMA WhoIsAt ==
  ASSUME NEW w \in Workflows, NEW a, At(w, a), run[w] \in Runs
  PROVE  /\ run[w].at = "stage"
         /\ a = "echo" => kind[w] = "echo"
         /\ a # "echo" => kind[w] # "echo"
         /\ a = "skill_loader" => run[w].stage = 1
         /\ a = "memory_loader" => run[w].stage = 2
         /\ a = "planner" => run[w].stage = 3
         /\ a = "coder" => run[w].stage = 4
         /\ a = "formatter" => run[w].stage = 5
         /\ a = "linter" => run[w].stage = 6
         /\ a = "tester" => run[w].stage = 7
         /\ a = "diagnostics" => run[w].stage = 8
         /\ a = "reviewer" => run[w].stage = 9 /\ run[w].step = 1
         /\ a = "fixer" => run[w].stage = 9 /\ run[w].step = 2
         /\ a = "review_linter" => run[w].stage = 9 /\ run[w].step = 3
         /\ a = "review_tester" => run[w].stage = 9 /\ run[w].step = 4
<1>1. run[w].stage \in {1, 2, 3, 4, 5, 6, 7, 8, 9} /\ run[w].step \in {1, 2, 3, 4}
  BY DEF Runs
<1>2. CASE kind[w] = "echo"
  BY <1>2 DEF At, Agent
<1>3. CASE kind[w] # "echo" /\ run[w].stage # 9
  <2>1. a = Stages[run[w].stage] /\ run[w].at = "stage"
    BY <1>1, <1>3, Pipeline DEF At, Agent
  <2> QED
    BY <1>1, <1>3, <2>1, Pipeline
<1>4. CASE kind[w] # "echo" /\ run[w].stage = 9
  <2>1. a = ReviewSteps[run[w].step] /\ run[w].at = "stage"
    BY <1>4, Pipeline DEF At, Agent
  <2> QED
    BY <1>1, <1>4, <2>1, Pipeline
<1> QED
  BY <1>2, <1>3, <1>4

\* The keys of a session are there while its pipeline runs.
Opened == \A w \in Workflows :
            run[w].at \in {"stage", "recreate"} => session[w] \in SUBSET StageNames

TypeInv == TypeOK /\ Opened

\* The types, with the length of the pipeline.
Types ==
  /\ row \in [Workflows -> {"NONE", "PENDING", "RUNNING", "COMPLETED", "FAILED"}]
  /\ kind \in [Workflows -> {"echo", "deliverable"}]
  /\ queued \subseteq Workflows
  /\ run \in [Workflows -> Runs]
  /\ session \in [Workflows -> {None} \cup SUBSET StageNames]
  /\ passed \in [Workflows -> BOOLEAN]
  /\ verdict \in [Workflows -> {"NONE", "REJECTED", "APPROVED"}]
  /\ fresh \in [Workflows -> {None} \cup SUBSET CriticalStages]
  /\ current \in [Workflows -> SUBSET {"linter", "tester", "reviewer"}]
  /\ deaths \in 0..MaxDeaths
  /\ ran \in [Workflows -> SUBSET StageNames]
  /\ marks \in [Workflows -> SUBSET Marks]

LEMMA RunsOK == /\ TypeOK <=> Types
                /\ TypeOK' <=> Types'
BY Pipeline DEF TypeOK, Types, Runs, Places

\* The end of a stage.
LEMMA AdvanceType ==
  ASSUME TypeOK, NEW w \in Workflows, run[w].at = "stage", Advances(w)
  PROVE  /\ run' \in [Workflows -> Runs]
         /\ ran' \in [Workflows -> SUBSET StageNames]
         /\ \A v \in Workflows \ {w} : run'[v] = run[v]
         /\ run'[w].at \in {"stage", "complete"}
<1>1. run \in [Workflows -> Runs] /\ ran \in [Workflows -> SUBSET StageNames]
  BY RunsOK DEF Types
<1>2. Stages[run[w].stage] \in StageNames
  BY <1>1, Names DEF Runs
<1>3. ran' \in [Workflows -> SUBSET StageNames]
  BY <1>1, <1>2 DEF Advances
<1>4. CASE run[w].stage < 9 /\ run' = [run EXCEPT ![w].stage = @ + 1]
  BY <1>1, <1>3, <1>4 DEF Runs, Places
<1>5. CASE run' = [run EXCEPT ![w].at = "complete"]
  BY <1>1, <1>3, <1>5 DEF Runs, Places
<1> QED
  BY <1>4, <1>5, Pipeline DEF Advances

\* A key that a stage leaves.
LEMMA KeyType ==
  ASSUME TypeInv, NEW w \in Workflows, run[w].at = "stage", NEW a \in StageNames,
         \/ session' = [session EXCEPT ![w] = @ \cup {a}]
         \/ UNCHANGED session,
         \A v \in Workflows \ {w} : run'[v] = run[v]
  PROVE  /\ session' \in [Workflows -> {None} \cup SUBSET StageNames]
         /\ Opened'
<1>1. session \in [Workflows -> {None} \cup SUBSET StageNames] /\ session[w] \in SUBSET StageNames
  BY RunsOK DEF Types, TypeInv, Opened
<1>2. session[w] \cup {a} \in SUBSET StageNames
  BY <1>1
<1>3. CASE session' = [session EXCEPT ![w] = @ \cup {a}]
  <2>1. session' = [session EXCEPT ![w] = session[w] \cup {a}]
    BY <1>3
  <2>2. session' \in [Workflows -> {None} \cup SUBSET StageNames]
    BY <1>1, <1>2, <2>1
  <2>3. session'[w] \in SUBSET StageNames /\ \A v \in Workflows \ {w} : session'[v] = session[v]
    BY <1>1, <1>2, <2>1
  <2> QED
    BY <2>2, <2>3 DEF TypeInv, Opened
<1>4. CASE UNCHANGED session
  BY <1>1, <1>4 DEF TypeInv, Opened
<1> QED
  BY <1>3, <1>4

\* Initially nothing is stored and no job runs.
LEMMA TypeInit == Init => TypeInv
<1> SUFFICES ASSUME Init PROVE TypeInv
  OBVIOUS
<1>1. Idle \in Runs /\ Idle.at = "idle"
  BY RunAssumption DEF Idle, Runs, Places, RunAssumption
<1>2. deaths \in 0..MaxDeaths
  BY RunAssumption DEF Init, RunAssumption
<1>3. run \in [Workflows -> Runs] /\ \A w \in Workflows : run[w].at = "idle"
  BY <1>1 DEF Init
<1>4. marks \in [Workflows -> SUBSET Marks] /\ ran \in [Workflows -> SUBSET StageNames]
  BY DEF Init
<1> QED
  BY <1>1, <1>2, <1>3, <1>4, RunsOK DEF Init, Types, TypeInv, Opened

\* A job that only moves on keeps its session.
LEMMA MoveType ==
  ASSUME TypeInv, NEW w \in Workflows, NEW at \in Places,
         run' = [run EXCEPT ![w].at = at], UNCHANGED session,
         at \in {"stage", "recreate"} => run[w].at \in {"stage", "recreate"}
  PROVE  run' \in [Workflows -> Runs] /\ Opened'
<1>1. run \in [Workflows -> Runs]
  BY RunsOK DEF Types, TypeInv
<1>2. run' \in [Workflows -> Runs]
  BY <1>1 DEF Runs, Places
<1>3. Opened'
  BY <1>1 DEF TypeInv, Opened, Runs
<1> QED
  BY <1>2, <1>3

\* So does one that ends or has not begun.
LEMMA RestType ==
  ASSUME TypeInv, NEW w \in Workflows, NEW at \in {"idle", "open"},
         run' = [run EXCEPT ![w] = [Idle EXCEPT !.at = at]], UNCHANGED session
  PROVE  run' \in [Workflows -> Runs] /\ Opened'
<1>1. run \in [Workflows -> Runs]
  BY RunsOK DEF Types, TypeInv
<1>2. [Idle EXCEPT !.at = at] \in Runs /\ [Idle EXCEPT !.at = at].at = at
  BY RunAssumption DEF Idle, Runs, Places, RunAssumption
<1>3. run' \in [Workflows -> Runs] /\ run'[w].at = at
      /\ \A v \in Workflows \ {w} : run'[v] = run[v]
  BY <1>1, <1>2
<1> QED
  BY <1>3 DEF TypeInv, Opened

\* The gateway and the ends of a job.
LEMMA TypeAround ==
  ASSUME TypeInv, NEW w \in Workflows,
         \/ Submit(w) \/ Enqueue(w) \/ Start(w) \/ OpenSession(w) \/ Echo(w)
         \/ ExceedBudget(w) \/ Recreate(w) \/ Complete(w) \/ Announce(w)
         \/ StepFails(w) \/ Fail(w) \/ NotFound(w) \/ Cancel(w)
  PROVE  TypeInv'
<1>0. Types
  BY RunsOK DEF TypeInv
<1>i. [Idle EXCEPT !.at = "idle"] = Idle
  BY DEF Idle
<1>1. CASE Submit(w)
  BY <1>0, <1>1, RunsOK DEF Submit, TypeInv, Opened, Types, results
<1>2. CASE Enqueue(w)
  BY <1>0, <1>2, RunsOK DEF Enqueue, TypeInv, Opened, Types, results, Marks
<1>3. CASE Start(w)
  <2>1. run' \in [Workflows -> Runs] /\ Opened'
    BY <1>3, RestType DEF Start
  <2> QED
    BY <1>0, <1>3, <2>1, RunsOK DEF Start, TypeInv, Types
<1>4. CASE OpenSession(w)
  <2>a. run \in [Workflows -> Runs] /\ run[w] \in Runs
    BY <1>0 DEF Types
  <2>b. run' = [run EXCEPT ![w].at = "stage"]
    BY <1>4 DEF OpenSession
  <2>c. [run[w] EXCEPT !.at = "stage"] \in Runs
    BY <2>a DEF Runs, Places
  <2>1. run' \in [Workflows -> Runs] /\ \A v \in Workflows \ {w} : run'[v] = run[v]
    BY <2>a, <2>b, <2>c
  <2>2. session'[w] \in SUBSET StageNames
    BY <1>0, <1>4 DEF OpenSession, Types
  <2>3. \A v \in Workflows \ {w} : session'[v] = session[v]
    BY <1>0, <1>4 DEF OpenSession, Types
  <2>4. session' = [v \in Workflows |-> session'[v]]
    BY <1>0, <1>4 DEF OpenSession, Types
  <2>5. session' \in [Workflows -> {None} \cup SUBSET StageNames]
    BY <1>0, <2>2, <2>3, <2>4 DEF Types
  <2>6. Opened'
    BY <2>1, <2>2, <2>3 DEF Opened, TypeInv
  <2> QED
    BY <1>0, <1>4, <2>1, <2>5, <2>6, RunsOK DEF OpenSession, TypeInv, Types
<1>5. CASE Echo(w)
  <2>1. run' \in [Workflows -> Runs] /\ Opened'
    BY <1>5, MoveType DEF Echo, Places, results
  <2> QED
    BY <1>0, <1>5, <2>1, RunsOK DEF Echo, TypeInv, Types, results, rowVars
<1>6. CASE ExceedBudget(w)
  <2>1. run' \in [Workflows -> Runs] /\ Opened'
    BY <1>6, MoveType DEF ExceedBudget, Places, results
  <2> QED
    BY <1>0, <1>6, <2>1, RunsOK DEF ExceedBudget, TypeInv, Types, results, rowVars
<1>7. CASE Recreate(w)
  <2>1. run' \in [Workflows -> Runs] /\ Opened'
    BY <1>7, MoveType DEF Recreate, Places
  <2>2. session[w] \cap CriticalStages \in SUBSET CriticalStages
    OBVIOUS
  <2> QED
    BY <1>0, <1>7, <2>1, <2>2, RunsOK DEF Recreate, TypeInv, Types, rowVars, Marks
<1>8. CASE Complete(w)
  <2>1. run' \in [Workflows -> Runs] /\ Opened'
    BY <1>8, MoveType DEF Complete, Places, results
  <2> QED
    BY <1>0, <1>8, <2>1, RunsOK DEF Complete, TypeInv, Types, results
<1>9. CASE Announce(w)
  <2>1. run' \in [Workflows -> Runs] /\ Opened'
    BY <1>9, <1>i, RestType DEF Announce, results
  <2> QED
    BY <1>0, <1>9, <2>1, RunsOK DEF Announce, TypeInv, Types, results, rowVars
<1>10. CASE StepFails(w)
  <2>1. run' \in [Workflows -> Runs] /\ Opened'
    BY <1>10, MoveType DEF StepFails, Places, results
  <2>2. marks' \in [Workflows -> SUBSET Marks]
    BY <1>0, <1>10 DEF StepFails, Types, Marks
  <2> QED
    BY <1>0, <1>10, <2>1, <2>2, RunsOK DEF StepFails, TypeInv, Types, results, rowVars
<1>11. CASE Fail(w)
  <2>1. run' \in [Workflows -> Runs] /\ Opened'
    BY <1>11, <1>i, RestType DEF Fail, results
  <2> QED
    BY <1>0, <1>11, <2>1, RunsOK DEF Fail, TypeInv, Types, results, Marks
<1>12. CASE NotFound(w) \/ Cancel(w)
  <2>1. run' \in [Workflows -> Runs] /\ Opened'
    BY <1>12, <1>i, RestType DEF NotFound, Cancel, results
  <2> QED
    BY <1>0, <1>12, <2>1, RunsOK
    DEF NotFound, Cancel, TypeInv, Types, results, rowVars, Marks
<1> QED
  BY <1>1, <1>2, <1>3, <1>4, <1>5, <1>6, <1>7, <1>8, <1>9, <1>10, <1>11, <1>12

\* A stage of the pipeline that leaves its key and changes no more than which
\* results are of the code as it is.
LEMMA LeavesType ==
  ASSUME TypeInv, NEW w \in Workflows, NEW a \in StageNames, Leaves(w, a),
         UNCHANGED <<rowVars, passed, verdict, fresh, marks>>,
         \/ UNCHANGED current
         \/ \E c \in SUBSET {"linter", "tester", "reviewer"} :
              current' = [current EXCEPT ![w] = c]
  PROVE  TypeInv'
<1>0. Types /\ TypeOK
  BY RunsOK DEF TypeInv
<1>1. run[w].at = "stage" /\ Advances(w) /\ session' = [session EXCEPT ![w] = @ \cup {a}]
  BY DEF Leaves, At
<1>2. /\ run' \in [Workflows -> Runs]
      /\ ran' \in [Workflows -> SUBSET StageNames]
      /\ \A v \in Workflows \ {w} : run'[v] = run[v]
  BY <1>0, <1>1, AdvanceType
<1>3. session' \in [Workflows -> {None} \cup SUBSET StageNames] /\ Opened'
  BY <1>1, <1>2, KeyType
<1>4. current' \in [Workflows -> SUBSET {"linter", "tester", "reviewer"}]
  BY <1>0 DEF Types
<1> QED
  BY <1>0, <1>2, <1>3, <1>4, RunsOK DEF TypeInv, Types, rowVars

\* The stages before the review.
LEMMA TypePipeline ==
  ASSUME TypeInv, NEW w \in Workflows,
         \/ LoadSkills(w) \/ LoadMemory(w) \/ Diagnose(w) \/ Write(w)
         \/ Format(w) \/ Lint(w) \/ RunTests(w)
  PROVE  TypeInv'
<1>0. Types /\ TypeOK
  BY RunsOK DEF TypeInv
<1>n. /\ {"skill_loader", "memory_loader", "planner", "coder"} \subseteq StageNames
      /\ {"formatter", "linter", "tester", "diagnostics"} \subseteq StageNames
  <2>1. \A i \in {1, 2, 3, 4, 5, 6, 7, 8} : Stages[i] \in StageNames
    BY Names
  <2> QED
    BY <2>1, Pipeline
<1>1. CASE LoadSkills(w) \/ LoadMemory(w) \/ Diagnose(w)
  BY <1>1, <1>n, LeavesType DEF LoadSkills, LoadMemory, Diagnose
<1>2. CASE Write(w)
  <2>1. PICK a \in {"planner", "coder"} :
          /\ At(w, a)
          /\ \/ session' = [session EXCEPT ![w] = @ \cup {a}]
             \/ UNCHANGED session
          /\ current' = [current EXCEPT ![w] = IF a = "coder" THEN {} ELSE @]
    BY <1>2 DEF Write
  <2>2. run[w].at = "stage" /\ Advances(w) /\ UNCHANGED <<rowVars, passed, verdict, fresh, marks>>
    BY <1>2, <2>1 DEF Write, At
  <2>3. /\ run' \in [Workflows -> Runs]
        /\ ran' \in [Workflows -> SUBSET StageNames]
        /\ \A v \in Workflows \ {w} : run'[v] = run[v]
    BY <1>0, <2>2, AdvanceType
  <2>4. session' \in [Workflows -> {None} \cup SUBSET StageNames] /\ Opened'
    BY <1>n, <2>1, <2>2, <2>3, KeyType
  <2>5. current' \in [Workflows -> SUBSET {"linter", "tester", "reviewer"}]
    BY <1>0, <2>1 DEF Types
  <2> QED
    BY <1>0, <2>2, <2>3, <2>4, <2>5, RunsOK DEF TypeInv, Types, rowVars
<1>3. CASE Format(w)
  BY <1>3, <1>n, LeavesType DEF Format
<1>4. CASE Lint(w)
  <2>1. current[w] \cup {"linter"} \in SUBSET {"linter", "tester", "reviewer"}
    BY <1>0 DEF Types
  <2>2. \E c \in SUBSET {"linter", "tester", "reviewer"} : current' = [current EXCEPT ![w] = c]
    BY <1>4, <2>1 DEF Lint
  <2> QED
    BY <1>4, <1>n, <2>2, LeavesType DEF Lint
<1>5. CASE RunTests(w)
  <2>1. current[w] \cup {"tester"} \in SUBSET {"linter", "tester", "reviewer"}
    BY <1>0 DEF Types
  <2>2. \E c \in SUBSET {"linter", "tester", "reviewer"} : current' = [current EXCEPT ![w] = c]
    BY <1>5, <2>1 DEF RunTests
  <2> QED
    BY <1>5, <1>n, <2>2, LeavesType DEF RunTests
<1> QED
  BY <1>1, <1>2, <1>3, <1>4, <1>5

\* The answer of the reviewer: what is read there, and what follows.
LEMMA ReviewEffect ==
  ASSUME NEW w \in Workflows, Review(w)
  PROVE  \E v \in {"REJECTED", "APPROVED", verdict[w]} :
           /\ verdict' = [verdict EXCEPT ![w] = v]
           /\ passed' = [passed EXCEPT ![w] = v = "APPROVED"]
           /\ \/ /\ v = "APPROVED" /\ Advances(w)
                 /\ \/ /\ current' = [current EXCEPT ![w] = @ \cup {"reviewer"}]
                       /\ UNCHANGED marks
                    \/ /\ marks' = [marks EXCEPT ![w] = @ \cup {"silent"}]
                       /\ UNCHANGED current
              \/ /\ v # "APPROVED" /\ run' = [run EXCEPT ![w].step = 2]
                 /\ UNCHANGED <<ran, current, marks>>
BY DEF Review

\* A step of the review, in the same iteration or in the next one.
LEMMA ReviewMoves ==
  ASSUME TypeInv, NEW w \in Workflows, NEW i \in 1..4, NEW n \in 1..MaxIterations,
         \/ run' = [run EXCEPT ![w].step = i]
         \/ run' = [run EXCEPT ![w].step = i, ![w].iteration = n]
  PROVE  /\ run' \in [Workflows -> Runs]
         /\ \A x \in Workflows \ {w} : run'[x] = run[x]
<1>1. run \in [Workflows -> Runs] /\ run[w] \in Runs
  BY RunsOK DEF TypeInv, Types
<1>2. /\ [run[w] EXCEPT !.step = i] \in Runs
      /\ [run[w] EXCEPT !.step = i, !.iteration = n] \in Runs
  BY <1>1 DEF Runs
<1>3. CASE run' = [run EXCEPT ![w] = [run[w] EXCEPT !.step = i]]
  BY <1>1, <1>2, <1>3
<1>4. CASE run' = [run EXCEPT ![w] = [run[w] EXCEPT !.step = i, !.iteration = n]]
  BY <1>1, <1>2, <1>4
<1> QED
  BY <1>3, <1>4

\* The review cycle.
LEMMA TypeReview ==
  ASSUME TypeInv, NEW w \in Workflows, Review(w) \/ Fix(w) \/ Recheck(w)
  PROVE  TypeInv'
<1>0. Types /\ TypeOK
  BY RunsOK DEF TypeInv
<1>n. "review_cycle" \in StageNames
  BY Names, Pipeline
<1>m. 2 \in 1..4 /\ 3 \in 1..4 /\ 4 \in 1..4 /\ 1 \in 1..4 /\ 1 \in 1..MaxIterations
  BY RunAssumption DEF RunAssumption
<1>1. CASE Review(w)
  <2>1. PICK v \in {"REJECTED", "APPROVED", verdict[w]} :
           /\ verdict' = [verdict EXCEPT ![w] = v]
           /\ passed' = [passed EXCEPT ![w] = v = "APPROVED"]
           /\ \/ /\ v = "APPROVED" /\ Advances(w)
                 /\ \/ /\ current' = [current EXCEPT ![w] = @ \cup {"reviewer"}]
                       /\ UNCHANGED marks
                    \/ /\ marks' = [marks EXCEPT ![w] = @ \cup {"silent"}]
                       /\ UNCHANGED current
              \/ /\ v # "APPROVED" /\ run' = [run EXCEPT ![w].step = 2]
                 /\ UNCHANGED <<ran, current, marks>>
    BY <1>1, ReviewEffect
  <2>2. /\ run[w].at = "stage" /\ session' = [session EXCEPT ![w] = @ \cup {"review_cycle"}]
        /\ UNCHANGED <<rowVars, fresh>>
    BY <1>1 DEF Review, At
  <2>3. /\ run' \in [Workflows -> Runs]
        /\ ran' \in [Workflows -> SUBSET StageNames]
        /\ \A x \in Workflows \ {w} : run'[x] = run[x]
    <3>1. CASE Advances(w)
      BY <1>0, <2>2, <3>1, AdvanceType
    <3>2. CASE run' = [run EXCEPT ![w].step = 2] /\ UNCHANGED ran
      <4>1. ran' \in [Workflows -> SUBSET StageNames]
        BY <1>0, <3>2 DEF Types
      <4>2. run' \in [Workflows -> Runs] /\ \A x \in Workflows \ {w} : run'[x] = run[x]
        BY <1>m, <3>2, ReviewMoves
      <4> QED
        BY <4>1, <4>2
    <3> QED
      BY <2>1, <3>1, <3>2
  <2>4. session' \in [Workflows -> {None} \cup SUBSET StageNames] /\ Opened'
    BY <1>n, <2>2, <2>3, KeyType
  <2>5. /\ current' \in [Workflows -> SUBSET {"linter", "tester", "reviewer"}]
        /\ marks' \in [Workflows -> SUBSET Marks]
    BY <1>0, <2>1 DEF Types, Marks
  <2>6. verdict' \in [Workflows -> {"NONE", "REJECTED", "APPROVED"}]
    BY <1>0, <2>1 DEF Types
  <2>7. passed' \in [Workflows -> BOOLEAN]
    BY <1>0, <2>1 DEF Types
  <2> QED
    BY <1>0, <2>2, <2>3, <2>4, <2>5, <2>6, <2>7, RunsOK DEF TypeInv, Types, rowVars
<1>2. CASE Fix(w)
  <2>1. run' \in [Workflows -> Runs] /\ \A x \in Workflows \ {w} : run'[x] = run[x]
    BY <1>2, <1>m, ReviewMoves DEF Fix
  <2>2. Opened'
    BY <1>2, <2>1 DEF Fix, At, TypeInv, Opened
  <2>3. current' \in [Workflows -> SUBSET {"linter", "tester", "reviewer"}]
    BY <1>0, <1>2 DEF Fix, Types
  <2> QED
    BY <1>0, <1>2, <2>1, <2>2, <2>3, RunsOK DEF Fix, TypeInv, Types, rowVars
<1>3. CASE Recheck(w)
  <2>1. current' \in [Workflows -> SUBSET {"linter", "tester", "reviewer"}]
    BY <1>0, <1>3 DEF Recheck, Types
  <2>2. run[w].at = "stage" /\ UNCHANGED <<rowVars, session, verdict, fresh, marks>>
    BY <1>3 DEF Recheck, At
  <2>3. /\ run' \in [Workflows -> Runs]
        /\ ran' \in [Workflows -> SUBSET StageNames]
        /\ \A x \in Workflows \ {w} : run'[x] = run[x]
        /\ passed' \in [Workflows -> BOOLEAN]
    <3>1. CASE run' = [run EXCEPT ![w].step = 4] /\ UNCHANGED <<passed, ran>>
      <4>1. ran' \in [Workflows -> SUBSET StageNames] /\ passed' \in [Workflows -> BOOLEAN]
        BY <1>0, <3>1 DEF Types
      <4> QED
        BY <1>m, <3>1, <4>1, ReviewMoves
    <3>2. CASE /\ run[w].iteration < MaxIterations
               /\ run' = [run EXCEPT ![w].step = 1, ![w].iteration = @ + 1]
               /\ UNCHANGED <<passed, ran>>
      <4>1. ran' \in [Workflows -> SUBSET StageNames] /\ passed' \in [Workflows -> BOOLEAN]
        BY <1>0, <3>2 DEF Types
      <4>2. run[w].iteration + 1 \in 1..MaxIterations
        BY <1>0, <3>2, RunAssumption DEF Types, Runs, RunAssumption
      <4>3. run' = [run EXCEPT ![w].step = 1, ![w].iteration = run[w].iteration + 1]
        BY <1>0, <3>2 DEF Types, Runs
      <4> QED
        BY <1>m, <4>1, <4>2, <4>3, ReviewMoves
    <3>3. CASE passed' = [passed EXCEPT ![w] = FALSE] /\ Advances(w)
      <4>1. passed' \in [Workflows -> BOOLEAN]
        BY <1>0, <3>3 DEF Types
      <4> QED
        BY <1>0, <2>2, <3>3, <4>1, AdvanceType
    <3> QED
      BY <1>3, <3>1, <3>2, <3>3 DEF Recheck
  <2>4. session' \in [Workflows -> {None} \cup SUBSET StageNames] /\ Opened'
    BY <1>n, <2>2, <2>3, KeyType
  <2> QED
    BY <1>0, <2>1, <2>2, <2>3, <2>4, RunsOK DEF TypeInv, Types, rowVars
<1> QED
  BY <1>1, <1>2, <1>3

\* Every step keeps the types.
LEMMA TypeStep == TypeInv /\ [Next]_vars => TypeInv'
<1> SUFFICES ASSUME TypeInv, [Next]_vars PROVE TypeInv'
  OBVIOUS
<1>0. Types
  BY RunsOK DEF TypeInv
<1>1. CASE WorkerDies
  <2>1. Idle \in Runs /\ Idle.at = "idle"
    BY RunAssumption DEF Idle, Runs, Places, RunAssumption
  <2>2. run' \in [Workflows -> Runs] /\ Opened'
    BY <1>1, <2>1 DEF WorkerDies, Opened
  <2>3. marks' \in [Workflows -> SUBSET Marks]
    BY <1>0, <1>1 DEF WorkerDies, Types, Marks
  <2>4. deaths' \in 0..MaxDeaths /\ queued' \subseteq Workflows
    BY <1>0, <1>1, RunAssumption DEF WorkerDies, Types, RunAssumption
  <2> QED
    BY <1>0, <1>1, <2>2, <2>3, <2>4, RunsOK DEF WorkerDies, TypeInv, Types, results
<1>2. CASE UNCHANGED vars
  BY <1>0, <1>2, RunsOK DEF vars, TypeInv, Types, Opened
<1> QED
  BY <1>1, <1>2, TypeAround, TypePipeline, TypeReview DEF Next, JobStep

(***************************************************************************)
(* Every row, job and session of run_workflow has its type; so no agent of *)
(* the pipeline meets a session that does not exist.                       *)
(***************************************************************************)
THEOREM TypeCorrect == Spec => []TypeOK
<1>1. TypeInv => TypeOK
  BY DEF TypeInv
<1> QED
  BY <1>1, TypeInit, TypeStep, PTL DEF Spec

-----------------------------------------------------------------------------
(***************************************************************************)
(* Outcomes.                                                               *)
(***************************************************************************)
\* What another workflow's step leaves alone.
Stays(v) == /\ row'[v] = row[v] /\ kind'[v] = kind[v]
            /\ v \in queued' <=> v \in queued
            /\ run'[v] = run[v] /\ passed'[v] = passed[v]
            /\ current'[v] = current[v] /\ ran'[v] = ran[v] /\ marks'[v] = marks[v]

OthersStay(w) == \A v \in Workflows \ {w} : Stays(v)

PipelineStep(w) == \/ Echo(w) \/ LoadSkills(w) \/ LoadMemory(w) \/ Diagnose(w)
                   \/ Write(w) \/ Format(w) \/ Lint(w) \/ RunTests(w) \/ Review(w)
                   \/ Fix(w) \/ Recheck(w)

\* A stage, or a step of the review, as its row and the others see it.
LEMMA PipelineEffect ==
  ASSUME TypeInv, NEW w \in Workflows, PipelineStep(w)
  PROVE  /\ run[w].at = "stage" /\ run'[w].at \in {"stage", "complete"}
         /\ UNCHANGED rowVars
         /\ marks'[w] \in {marks[w], marks[w] \cup {"silent"}}
         /\ OthersStay(w)
<1>0. Types /\ TypeOK
  BY RunsOK DEF TypeInv
<1>1. run[w].at = "stage" /\ UNCHANGED rowVars
  BY DEF PipelineStep, Echo, LoadSkills, LoadMemory, Diagnose, Write, Format, Lint,
         RunTests, Review, Fix, Recheck, Leaves, At, rowVars
<1>2. ASSUME Advances(w)
      PROVE  /\ run'[w].at \in {"stage", "complete"}
             /\ \A v \in Workflows \ {w} : run'[v] = run[v] /\ ran'[v] = ran[v]
  <2>1. \A v \in Workflows \ {w} : ran'[v] = ran[v]
    BY <1>0, <1>2 DEF Advances, Types
  <2> QED
    BY <1>0, <1>1, <1>2, <2>1, AdvanceType
<1>3. CASE Echo(w)
  BY <1>0, <1>1, <1>3
  DEF Echo, At, Types, Runs, Places, results, rowVars, OthersStay, Stays
<1>4. CASE LoadSkills(w) \/ LoadMemory(w) \/ Diagnose(w)
  <2>1. Advances(w) /\ UNCHANGED <<passed, current, marks>>
    BY <1>4 DEF LoadSkills, LoadMemory, Diagnose, Leaves
  <2> QED
    BY <1>1, <1>2, <2>1 DEF rowVars, OthersStay, Stays
<1>5. CASE Write(w) \/ Format(w) \/ Lint(w) \/ RunTests(w)
  <2>1. Advances(w) /\ UNCHANGED <<passed, marks>>
    BY <1>5 DEF Write, Format, Lint, RunTests, Leaves
  <2>2. \A v \in Workflows \ {w} : current'[v] = current[v]
    BY <1>0, <1>5 DEF Write, Format, Lint, RunTests, Types
  <2> QED
    BY <1>1, <1>2, <2>1, <2>2 DEF rowVars, OthersStay, Stays
<1>6. CASE Review(w)
  <2>1. PICK v \in {"REJECTED", "APPROVED", verdict[w]} :
           /\ verdict' = [verdict EXCEPT ![w] = v]
           /\ passed' = [passed EXCEPT ![w] = v = "APPROVED"]
           /\ \/ /\ v = "APPROVED" /\ Advances(w)
                 /\ \/ /\ current' = [current EXCEPT ![w] = @ \cup {"reviewer"}]
                       /\ UNCHANGED marks
                    \/ /\ marks' = [marks EXCEPT ![w] = @ \cup {"silent"}]
                       /\ UNCHANGED current
              \/ /\ v # "APPROVED" /\ run' = [run EXCEPT ![w].step = 2]
                 /\ UNCHANGED <<ran, current, marks>>
    BY <1>6, ReviewEffect
  <2>2. \A x \in Workflows \ {w} : passed'[x] = passed[x]
    BY <1>0, <2>1 DEF Types
  <2>3. /\ marks'[w] \in {marks[w], marks[w] \cup {"silent"}}
        /\ \A x \in Workflows \ {w} : current'[x] = current[x] /\ marks'[x] = marks[x]
    BY <1>0, <2>1 DEF Types
  <2>4. /\ run'[w].at \in {"stage", "complete"}
        /\ \A x \in Workflows \ {w} : run'[x] = run[x] /\ ran'[x] = ran[x]
    <3>1. CASE run' = [run EXCEPT ![w].step = 2] /\ UNCHANGED ran
      BY <1>0, <1>1, <3>1 DEF Types, Runs
    <3> QED
      BY <1>2, <2>1, <3>1
  <2> QED
    BY <1>1, <2>2, <2>3, <2>4 DEF rowVars, OthersStay, Stays
<1>7. CASE Fix(w)
  <2>1. /\ run'[w].at = "stage" /\ UNCHANGED <<passed, ran, marks>>
        /\ \A v \in Workflows \ {w} : run'[v] = run[v] /\ current'[v] = current[v]
    BY <1>0, <1>1, <1>7 DEF Fix, Types, Runs
  <2> QED
    BY <1>1, <2>1 DEF rowVars, OthersStay, Stays
<1>8. CASE Recheck(w)
  <2>1. UNCHANGED marks /\ \A v \in Workflows \ {w} : current'[v] = current[v]
    BY <1>0, <1>8 DEF Recheck, Types
  <2>2. /\ run'[w].at \in {"stage", "complete"}
        /\ \A v \in Workflows \ {w} :
             run'[v] = run[v] /\ ran'[v] = ran[v] /\ passed'[v] = passed[v]
    <3>1. CASE run' = [run EXCEPT ![w].step = 4] /\ UNCHANGED <<passed, ran>>
      BY <1>0, <1>1, <3>1 DEF Types, Runs
    <3>2. CASE /\ run' = [run EXCEPT ![w].step = 1, ![w].iteration = @ + 1]
               /\ UNCHANGED <<passed, ran>>
      BY <1>0, <1>1, <3>2 DEF Types, Runs
    <3>3. CASE passed' = [passed EXCEPT ![w] = FALSE] /\ Advances(w)
      <4>1. \A v \in Workflows \ {w} : passed'[v] = passed[v]
        BY <1>0, <3>3 DEF Types
      <4> QED
        BY <1>2, <3>3, <4>1
    <3> QED
      BY <1>8, <3>1, <3>2, <3>3 DEF Recheck
  <2> QED
    BY <1>1, <2>1, <2>2 DEF rowVars, OthersStay, Stays
<1> QED
  BY <1>3, <1>4, <1>5, <1>6, <1>7, <1>8 DEF PipelineStep

\* The strengthening: a job's place fits its row, and a workflow that waits
\* either was never run or was in a worker that died.
OutcomeOf(w) ==
  /\ run[w].at \in {"open", "stage", "recreate", "complete"} => row[w] = "RUNNING"
  /\ run[w].at = "announce" => row[w] = "COMPLETED"
  /\ run[w].at = "fail" => \/ row[w] = "RUNNING"
                           \/ row[w] = "COMPLETED" /\ "unannounced" \in marks[w]
  /\ w \in queued => \/ row[w] = "PENDING"
                     \/ row[w] # "NONE" /\ "died" \in marks[w]
  /\ row[w] = "RUNNING" => \/ w \in queued \/ run[w].at # "idle"
                           \/ "cancelled" \in marks[w] \/ "unfound" \in marks[w]
                           \/ "unstored" \in marks[w]

OutcomeInv == \A w \in Workflows : OutcomeOf(w)

\* What a step does to the workflow it is about: its row, its job and marks.
LEMMA AroundEffect ==
  ASSUME TypeInv, OutcomeInv, NEW w \in Workflows,
         \/ Submit(w) \/ Enqueue(w) \/ Start(w) \/ OpenSession(w)
         \/ ExceedBudget(w) \/ Recreate(w) \/ Complete(w) \/ Announce(w)
         \/ StepFails(w) \/ Fail(w) \/ NotFound(w) \/ Cancel(w)
  PROVE  OutcomeOf(w)' /\ OthersStay(w)
<1>0. Types
  BY RunsOK DEF TypeInv
<1>i. Idle.at = "idle" /\ [Idle EXCEPT !.at = "open"].at = "open"
  BY DEF Idle
<1>o. OutcomeOf(w)
  BY DEF OutcomeInv
<1>1. CASE Submit(w)
  BY <1>0, <1>o, <1>1 DEF Submit, Types, Runs, Places, OutcomeOf, OthersStay, Stays, results
<1>2. CASE Enqueue(w)
  BY <1>0, <1>o, <1>2 DEF Enqueue, Types, Runs, Places, OutcomeOf, OthersStay, Stays, results
<1>3. CASE Start(w)
  BY <1>0, <1>i, <1>o, <1>3 DEF Start, Types, OutcomeOf, OthersStay, Stays
<1>4. CASE OpenSession(w)
  <2>1. /\ run[w].at = "open" /\ run'[w].at = "stage"
        /\ \A v \in Workflows \ {w} : run'[v] = run[v]
        /\ UNCHANGED <<row, kind, queued, passed, current, ran, marks>>
    BY <1>0, <1>4 DEF OpenSession, Types, Runs
  <2> QED
    BY <1>o, <2>1 DEF OutcomeOf, OthersStay, Stays
<1>5. CASE ExceedBudget(w)
  <2>1. /\ run[w].at = "stage" /\ run'[w].at = "recreate"
        /\ \A v \in Workflows \ {w} : run'[v] = run[v]
        /\ UNCHANGED <<row, kind, queued, passed, current, ran, marks>>
    BY <1>0, <1>5 DEF ExceedBudget, Types, Runs, rowVars, results
  <2> QED
    BY <1>o, <2>1 DEF OutcomeOf, OthersStay, Stays
<1>6. CASE Recreate(w)
  <2>1. /\ run[w].at = "recreate" /\ run'[w].at = "complete"
        /\ \A v \in Workflows \ {w} : run'[v] = run[v] /\ marks'[v] = marks[v]
        /\ UNCHANGED <<row, kind, queued, passed, current, ran>>
        /\ marks'[w] = marks[w] \cup {"recreated"}
    BY <1>0, <1>6 DEF Recreate, Types, Runs, rowVars
  <2> QED
    BY <1>o, <2>1 DEF OutcomeOf, OthersStay, Stays
<1>7. CASE Complete(w)
  BY <1>0, <1>o, <1>7 DEF Complete, Types, Runs, Places, OutcomeOf, OthersStay, Stays, results
<1>8. CASE Announce(w)
  BY <1>0, <1>i, <1>o, <1>8 DEF Announce, Types, rowVars, OutcomeOf, OthersStay, Stays, results
<1>9. CASE StepFails(w)
  <2>1. /\ run[w].at \notin {"idle", "fail"} /\ run'[w].at = "fail"
        /\ \A v \in Workflows \ {w} : run'[v] = run[v]
        /\ UNCHANGED <<row, kind, queued, passed, current, ran>>
    BY <1>0, <1>9 DEF StepFails, Types, Runs, rowVars, results
  <2>2. /\ run[w].at = "announce" => marks'[w] = marks[w] \cup {"unannounced"}
        /\ run[w].at # "announce" => marks'[w] = marks[w]
        /\ \A v \in Workflows \ {w} : marks'[v] = marks[v]
    BY <1>0, <1>9 DEF StepFails, Types
  <2>3. run[w].at \in Places
    BY <1>0 DEF Types, Runs
  <2> QED
    BY <1>o, <2>1, <2>2, <2>3 DEF OutcomeOf, OthersStay, Stays, Places
<1>10. CASE Fail(w)
  BY <1>0, <1>i, <1>o, <1>10 DEF Fail, Types, OutcomeOf, OthersStay, Stays, results
<1>11. CASE NotFound(w) \/ Cancel(w)
  BY <1>0, <1>i, <1>o, <1>11
  DEF NotFound, Cancel, Types, Runs, Places, rowVars, OutcomeOf, OthersStay, Stays, results
<1> QED
  BY <1>1, <1>2, <1>3, <1>4, <1>5, <1>6, <1>7, <1>8, <1>9, <1>10, <1>11

\* Every step keeps it.
LEMMA OutcomeStep == TypeInv /\ OutcomeInv /\ [Next]_vars => OutcomeInv'
<1> SUFFICES ASSUME TypeInv, OutcomeInv, [Next]_vars, NEW v \in Workflows
             PROVE  OutcomeOf(v)'
  BY DEF OutcomeInv
<1>o. OutcomeOf(v)
  BY DEF OutcomeInv
<1>s. Stays(v) => OutcomeOf(v)'
  BY <1>o DEF Stays, OutcomeOf
<1>1. ASSUME NEW w \in Workflows,
             \/ Submit(w) \/ Enqueue(w) \/ Start(w) \/ OpenSession(w)
             \/ ExceedBudget(w) \/ Recreate(w) \/ Complete(w) \/ Announce(w)
             \/ StepFails(w) \/ Fail(w) \/ NotFound(w) \/ Cancel(w)
      PROVE  OutcomeOf(v)'
  BY <1>1, <1>s, AroundEffect DEF OthersStay
<1>2. ASSUME NEW w \in Workflows, PipelineStep(w) PROVE OutcomeOf(v)'
  <2>1. v # w => Stays(v)
    BY <1>2, PipelineEffect DEF OthersStay
  <2>2. CASE v = w
    BY <1>2, <1>o, <2>2, PipelineEffect DEF OutcomeOf, rowVars
  <2> QED
    BY <1>s, <2>1, <2>2
<1>3. CASE WorkerDies
  <2>1. run[v].at \in Places
    BY RunsOK DEF TypeInv, Types, Runs
  <2>2. /\ UNCHANGED row /\ run'[v].at = "idle"
        /\ v \in queued' <=> v \in queued \/ run[v].at # "idle"
        /\ marks'[v] = IF run[v].at # "idle" THEN marks[v] \cup {"died"} ELSE marks[v]
    BY <1>3 DEF WorkerDies, Idle
  <2> QED
    BY <1>o, <2>1, <2>2 DEF OutcomeOf, Places
<1>4. CASE UNCHANGED vars
  BY <1>o, <1>4 DEF vars, OutcomeOf
<1> QED
  BY <1>1, <1>2, <1>3, <1>4 DEF Next, JobStep, PipelineStep

\* It holds of every behaviour, together with the types.
LEMMA OutcomeInvariant == Spec => [](TypeInv /\ OutcomeInv)
<1>1. Init => OutcomeInv
  <2> SUFFICES ASSUME Init, NEW w \in Workflows PROVE OutcomeOf(w)
    BY DEF OutcomeInv
  <2>1. run[w].at = "idle" /\ row[w] = "NONE" /\ w \notin queued
    BY DEF Init, Idle
  <2> QED
    BY <2>1 DEF OutcomeOf
<1> QED
  BY <1>1, TypeInit, TypeStep, OutcomeStep, PTL DEF Spec

(***************************************************************************)
(* A RUNNING workflow has a job or is known to have lost it, for any       *)
(* number of workflows and of deaths of the worker.                        *)
(***************************************************************************)
THEOREM RunningIsAttendedHolds == Spec => []RunningIsAttended
<1>1. ASSUME OutcomeInv PROVE RunningIsAttended
  <2> SUFFICES ASSUME NEW w \in Workflows, row[w] = "RUNNING"
               PROVE  \/ w \in queued \/ run[w].at # "idle"
                      \/ marks[w] \cap {"cancelled", "unfound", "unstored"} # {}
    BY DEF RunningIsAttended
  <2>1. \/ w \in queued \/ run[w].at # "idle"
        \/ "cancelled" \in marks[w] \/ "unfound" \in marks[w] \/ "unstored" \in marks[w]
    BY <1>1 DEF OutcomeInv, OutcomeOf
  <2> QED
    BY <2>1
<1> QED
  BY <1>1, OutcomeInvariant, PTL

\* Only a job that runs again, or that could not announce its completion,
\* takes an outcome back.
LEMMA OutcomeKept ==
  ASSUME TypeInv, OutcomeInv, [Next]_vars, NEW v \in Workflows,
         row[v] \in {"COMPLETED", "FAILED"}, row'[v] # row[v]
  PROVE  "died" \in marks[v] \/ "unannounced" \in marks[v]
<1>0. Types
  BY RunsOK DEF TypeInv
<1>o. OutcomeOf(v)
  BY DEF OutcomeInv
<1>1. PICK w \in Workflows :
        \/ Submit(w) \/ Enqueue(w) \/ Start(w) \/ OpenSession(w)
        \/ ExceedBudget(w) \/ Recreate(w) \/ Complete(w) \/ Announce(w)
        \/ StepFails(w) \/ Fail(w) \/ NotFound(w) \/ Cancel(w) \/ PipelineStep(w)
  BY DEF Next, JobStep, PipelineStep, WorkerDies, vars
<1>2. ~PipelineStep(w)
  BY PipelineEffect DEF rowVars
<1>3. v = w
  BY <1>1, <1>2, AroundEffect DEF OthersStay, Stays
<1>4. CASE Submit(w) \/ Complete(w) \/ Fail(w)
  BY <1>0, <1>3, <1>4, <1>o DEF Submit, Complete, Fail, Types, OutcomeOf
<1>5. CASE Start(w)
  BY <1>3, <1>5, <1>o DEF Start, OutcomeOf
<1> QED
  BY <1>1, <1>2, <1>4, <1>5
  DEF Enqueue, OpenSession, ExceedBudget, Recreate, Announce, StepFails, NotFound,
      Cancel, rowVars

(***************************************************************************)
(* An outcome stands, for any number of workflows and deaths.              *)
(***************************************************************************)
THEOREM OutcomeStandsHolds == Spec => OutcomeStands
<1>1. ASSUME TypeInv, OutcomeInv, [Next]_vars
      PROVE  [\A w \in Workflows :
                /\ row[w] \in {"COMPLETED", "FAILED"} /\ row'[w] # row[w]
                => marks[w] \cap {"died", "unannounced"} # {}]_vars
  BY <1>1, OutcomeKept
<1> QED
  BY <1>1, OutcomeInvariant, PTL DEF Spec, OutcomeStands

-----------------------------------------------------------------------------
(***************************************************************************)
(* Checks.                                                                 *)
(***************************************************************************)
Through(w, n) == \A i \in 1..9 : i < n => Stages[i] \in ran[w]

Checked(w) == /\ Through(w, 10)
              /\ "linter" \in current[w] /\ "tester" \in current[w]
              /\ passed[w] => "reviewer" \in current[w] \/ "silent" \in marks[w]

\* The strengthening: how far a pipeline has come says which stages it went
\* through and which results are of the code as it is.
CheckOf(w) ==
  /\ run[w].at = "open" => run[w].stage = 1 /\ run[w].step = 1
  /\ kind[w] = "deliverable" /\ "recreated" \notin marks[w]
     => /\ run[w].at = "stage" =>
             /\ run[w].stage # 9 => run[w].step = 1
             /\ Through(w, run[w].stage)
             /\ run[w].stage \in {7, 8} => "linter" \in current[w]
             /\ run[w].stage = 8 => "tester" \in current[w]
             /\ run[w].stage = 9 /\ run[w].step \in {1, 2, 4} => "linter" \in current[w]
             /\ run[w].stage = 9 /\ run[w].step \in {1, 2} => "tester" \in current[w]
        /\ run[w].at = "complete" => Checked(w)
        /\ row[w] = "COMPLETED" /\ run[w].at \in {"idle", "announce", "fail"} => Checked(w)

CheckInv == \A w \in Workflows : CheckOf(w)

\* The end of a stage, in full.
LEMMA AdvanceEffect ==
  ASSUME TypeInv, NEW w \in Workflows, run[w].at = "stage", Advances(w)
  PROVE  /\ ran'[w] = ran[w] \cup {Stages[run[w].stage]}
         /\ \/ /\ run[w].stage < 9 /\ run'[w].at = "stage"
               /\ run'[w].stage = run[w].stage + 1 /\ run'[w].step = run[w].step
            \/ run[w].stage = 9 /\ run'[w].at = "complete"
<1>0. Types
  BY RunsOK DEF TypeInv
<1>1. ran'[w] = ran[w] \cup {Stages[run[w].stage]}
  BY <1>0 DEF Advances, Types
<1>2. CASE run[w].stage < 9 /\ run' = [run EXCEPT ![w].stage = @ + 1]
  BY <1>0, <1>1, <1>2 DEF Types, Runs
<1>3. CASE run[w].stage = 9 /\ run' = [run EXCEPT ![w].at = "complete"]
  BY <1>0, <1>1, <1>3 DEF Types, Runs
<1> QED
  BY <1>2, <1>3, Pipeline DEF Advances

\* So the stages it went through are one more.
LEMMA ThroughStep ==
  ASSUME TypeInv, NEW w \in Workflows, run[w].at = "stage", Advances(w),
         Through(w, run[w].stage)
  PROVE  \A i \in 1..9 : i < run[w].stage + 1 => Stages[i] \in ran'[w]
<1>1. run[w].stage \in 1..9
  BY RunsOK DEF TypeInv, Types, Runs
<1> QED
  BY <1>1, AdvanceEffect DEF Through

\* The stages before the review.
LEMMA StageChecks ==
  ASSUME TypeInv, OutcomeInv, CheckInv, NEW w \in Workflows,
         \/ LoadSkills(w) \/ LoadMemory(w) \/ Diagnose(w) \/ Write(w)
         \/ Format(w) \/ Lint(w) \/ RunTests(w)
  PROVE  CheckOf(w)'
<1>0. Types /\ OutcomeOf(w) /\ CheckOf(w)
  BY RunsOK DEF TypeInv, OutcomeInv, CheckInv
<1>r. run[w] \in Runs
  BY <1>0 DEF Types
<1>1. /\ run[w].at = "stage" /\ Advances(w)
      /\ UNCHANGED <<row, kind, marks>>
  BY DEF LoadSkills, LoadMemory, Diagnose, Write, Format, Lint, RunTests, Leaves,
         At, rowVars
<1>2. /\ LoadSkills(w) => run[w].stage = 1 /\ UNCHANGED current
      /\ LoadMemory(w) => run[w].stage = 2 /\ UNCHANGED current
      /\ Write(w) => run[w].stage \in {3, 4}
      /\ Format(w) => run[w].stage = 5
      /\ Lint(w) => run[w].stage = 6 /\ "linter" \in current'[w]
      /\ RunTests(w) => /\ run[w].stage = 7
                        /\ current'[w] = current[w] \cup {"tester"}
      /\ Diagnose(w) => run[w].stage = 8 /\ UNCHANGED current
  BY <1>0, <1>r, WhoIsAt
  DEF LoadSkills, LoadMemory, Diagnose, Write, Format, Lint, RunTests, Leaves, Types
<1>3. SUFFICES ASSUME kind[w] = "deliverable", "recreated" \notin marks[w]
               PROVE  CheckOf(w)'
  BY <1>1, AdvanceEffect DEF CheckOf
<1>4. /\ run[w].stage # 9 => run[w].step = 1
      /\ Through(w, run[w].stage)
      /\ run[w].stage \in {7, 8} => "linter" \in current[w]
      /\ run[w].stage = 8 => "tester" \in current[w]
  BY <1>0, <1>1, <1>3 DEF CheckOf
<1>5. /\ run[w].stage < 9 /\ row'[w] = "RUNNING" /\ run'[w].at = "stage"
      /\ run'[w].stage = run[w].stage + 1 /\ run'[w].step = 1
  BY <1>0, <1>1, <1>2, <1>4, AdvanceEffect DEF OutcomeOf
<1>6. Through(w, run[w].stage)'
  <2>1. \A i \in 1..9 : i < run[w].stage + 1 => Stages[i] \in ran'[w]
    BY <1>1, <1>4, ThroughStep
  <2> QED
    BY <1>5, <2>1 DEF Through
<1>7. /\ run'[w].stage \in {7, 8, 9} => "linter" \in current'[w]
      /\ run'[w].stage \in {8, 9} => "tester" \in current'[w]
  BY <1>2, <1>4, <1>5
<1> QED
  BY <1>5, <1>6, <1>7 DEF CheckOf

\* The review cycle.
LEMMA ReviewChecks ==
  ASSUME TypeInv, OutcomeInv, CheckInv, NEW w \in Workflows,
         Review(w) \/ Fix(w) \/ Recheck(w)
  PROVE  CheckOf(w)'
<1>0. Types /\ OutcomeOf(w) /\ CheckOf(w)
  BY RunsOK DEF TypeInv, OutcomeInv, CheckInv
<1>r. run[w] \in Runs /\ run[w].step \in {1, 2, 3, 4}
  BY <1>0 DEF Types, Runs
<1>1. /\ run[w].at = "stage" /\ UNCHANGED <<row, kind>> /\ run'[w].at \in {"stage", "complete"}
      /\ marks'[w] \in {marks[w], marks[w] \cup {"silent"}}
  BY PipelineEffect DEF PipelineStep, rowVars
<1>2. run[w].stage = 9 /\ row'[w] = "RUNNING"
  BY <1>0, <1>r, <1>1, WhoIsAt DEF Review, Fix, Recheck, OutcomeOf
<1>3. SUFFICES ASSUME kind[w] = "deliverable", "recreated" \notin marks[w]
               PROVE  CheckOf(w)'
  BY <1>1 DEF CheckOf
<1>4. /\ Through(w, 9)
      /\ run[w].step \in {1, 2, 4} => "linter" \in current[w]
      /\ run[w].step \in {1, 2} => "tester" \in current[w]
  BY <1>0, <1>1, <1>2, <1>3 DEF CheckOf
<1>5. ASSUME Advances(w) PROVE run'[w].at = "complete" /\ Through(w, 10)'
  <2>1. \A i \in 1..9 : i < 10 => Stages[i] \in ran'[w]
    BY <1>1, <1>2, <1>4, <1>5, ThroughStep
  <2> QED
    BY <1>1, <1>2, <1>5, <2>1, AdvanceEffect DEF Through
<1>6. CASE Review(w)
  <2>0. run[w].step = 1
    BY <1>6, <1>r, WhoIsAt DEF Review
  <2>1. PICK v \in {"REJECTED", "APPROVED", verdict[w]} :
           /\ verdict' = [verdict EXCEPT ![w] = v]
           /\ passed' = [passed EXCEPT ![w] = v = "APPROVED"]
           /\ \/ /\ v = "APPROVED" /\ Advances(w)
                 /\ \/ /\ current' = [current EXCEPT ![w] = @ \cup {"reviewer"}]
                       /\ UNCHANGED marks
                    \/ /\ marks' = [marks EXCEPT ![w] = @ \cup {"silent"}]
                       /\ UNCHANGED current
              \/ /\ v # "APPROVED" /\ run' = [run EXCEPT ![w].step = 2]
                 /\ UNCHANGED <<ran, current, marks>>
    BY <1>6, ReviewEffect
  <2>2. CASE Advances(w) /\ \/ current' = [current EXCEPT ![w] = @ \cup {"reviewer"}]
                             \/ /\ marks' = [marks EXCEPT ![w] = @ \cup {"silent"}]
                                /\ UNCHANGED current
    <3>1. /\ "linter" \in current'[w] /\ "tester" \in current'[w]
          /\ "reviewer" \in current'[w] \/ "silent" \in marks'[w]
      BY <1>0, <1>4, <2>0, <2>2 DEF Types
    <3> QED
      BY <1>2, <1>5, <2>2, <3>1 DEF CheckOf, Checked
  <2>3. CASE run' = [run EXCEPT ![w].step = 2] /\ UNCHANGED <<ran, current>>
    <3>1. run'[w].at = "stage" /\ run'[w].stage = 9 /\ run'[w].step = 2
      BY <1>0, <1>1, <1>2, <2>3 DEF Types, Runs
    <3>2. Through(w, 9)'
      BY <1>4, <2>3 DEF Through
    <3> QED
      BY <1>2, <1>4, <2>0, <2>3, <3>1, <3>2 DEF CheckOf
  <2> QED
    BY <2>1, <2>2, <2>3
<1>7. CASE Fix(w)
  <2>1. run'[w].at = "stage" /\ run'[w].stage = 9 /\ run'[w].step = 3 /\ UNCHANGED ran
    BY <1>0, <1>1, <1>2, <1>7 DEF Fix, Types, Runs
  <2>2. Through(w, 9)'
    BY <1>4, <2>1 DEF Through
  <2> QED
    BY <1>2, <2>1, <2>2 DEF CheckOf
<1>8. CASE Recheck(w)
  <2>1. CASE At(w, "review_linter")
    <3>1. run[w].step = 3
      BY <1>r, <2>1, WhoIsAt
    <3>2. ~At(w, "review_tester")
      BY <1>r, <3>1, WhoIsAt
    <3>3. run' = [run EXCEPT ![w].step = 4] /\ UNCHANGED <<passed, ran>>
      BY <1>8, <3>2 DEF Recheck
    <3>4. "linter" \in current'[w]
      BY <1>0, <1>8, <3>2 DEF Recheck, Types
    <3>5. run'[w].at = "stage" /\ run'[w].stage = 9 /\ run'[w].step = 4
      BY <1>0, <1>1, <1>2, <3>3 DEF Types, Runs
    <3>6. Through(w, 9)'
      BY <1>4, <3>3 DEF Through
    <3> QED
      BY <1>2, <3>4, <3>5, <3>6 DEF CheckOf
  <2>2. CASE At(w, "review_tester")
    <3>1. run[w].step = 4 /\ ~At(w, "review_linter")
      BY <1>r, <2>2, WhoIsAt
    <3>2. "linter" \in current'[w] /\ "tester" \in current'[w]
      BY <1>0, <1>4, <1>8, <3>1 DEF Recheck, Types
    <3>3. CASE /\ run' = [run EXCEPT ![w].step = 1, ![w].iteration = @ + 1]
               /\ UNCHANGED <<passed, ran>>
      <4>1. run'[w].at = "stage" /\ run'[w].stage = 9 /\ run'[w].step = 1
        BY <1>0, <1>1, <1>2, <3>3 DEF Types, Runs
      <4>2. Through(w, 9)'
        BY <1>4, <3>3 DEF Through
      <4> QED
        BY <1>2, <3>2, <4>1, <4>2 DEF CheckOf
    <3>4. CASE passed' = [passed EXCEPT ![w] = FALSE] /\ Advances(w)
      <4>1. passed'[w] = FALSE
        BY <1>0, <3>4 DEF Types
      <4> QED
        BY <1>2, <1>5, <3>2, <3>4, <4>1 DEF CheckOf, Checked
    <3> QED
      BY <1>8, <3>1, <3>3, <3>4 DEF Recheck
  <2> QED
    BY <1>8, <2>1, <2>2 DEF Recheck, At
<1> QED
  BY <1>6, <1>7, <1>8

\* Every other step, of the workflow it is about.
LEMMA AroundChecks ==
  ASSUME TypeInv, OutcomeInv, CheckInv, NEW w \in Workflows,
         \/ Submit(w) \/ Enqueue(w) \/ Start(w) \/ OpenSession(w) \/ Echo(w)
         \/ ExceedBudget(w) \/ Recreate(w) \/ Complete(w) \/ Announce(w)
         \/ StepFails(w) \/ Fail(w) \/ NotFound(w) \/ Cancel(w)
  PROVE  CheckOf(w)'
<1>0. Types /\ OutcomeOf(w) /\ CheckOf(w)
  BY RunsOK DEF TypeInv, OutcomeInv, CheckInv
<1>i. /\ Idle.at = "idle" /\ [Idle EXCEPT !.at = "open"].at = "open"
      /\ [Idle EXCEPT !.at = "open"].stage = 1 /\ [Idle EXCEPT !.at = "open"].step = 1
  BY DEF Idle
<1>r. run[w] \in Runs /\ run[w].at \in Places
  BY <1>0 DEF Types, Runs
<1>1. CASE Submit(w)
  <2>1. row'[w] = "PENDING" /\ run[w].at = "idle" /\ UNCHANGED run
    BY <1>0, <1>r, <1>1 DEF Submit, Types, OutcomeOf, Places
  <2> QED
    BY <2>1 DEF CheckOf
<1>2. CASE Enqueue(w)
  <2>1. row[w] = "PENDING" /\ run[w].at = "idle" /\ UNCHANGED <<row, run>>
    BY <1>0, <1>r, <1>2 DEF Enqueue, OutcomeOf, Places
  <2> QED
    BY <2>1 DEF CheckOf
<1>3. CASE Start(w)
  <2>1. row'[w] = "RUNNING" /\ run'[w].at = "open" /\ run'[w].stage = 1 /\ run'[w].step = 1
    BY <1>0, <1>i, <1>3 DEF Start, Types
  <2> QED
    BY <2>1 DEF CheckOf
<1>4. CASE OpenSession(w)
  <2>1. /\ row'[w] = "RUNNING" /\ run'[w].at = "stage"
        /\ run'[w].stage = 1 /\ run'[w].step = 1
    BY <1>0, <1>4 DEF OpenSession, Types, Runs, OutcomeOf, CheckOf
  <2>2. Through(w, run[w].stage)'
    BY <2>1 DEF Through
  <2> QED
    BY <2>1, <2>2 DEF CheckOf
<1>5. CASE Echo(w)
  <2>1. kind[w] = "echo" /\ UNCHANGED kind
    BY <1>5, <1>r, WhoIsAt DEF Echo, rowVars
  <2>2. run'[w].at = "complete"
    BY <1>0, <1>5 DEF Echo, Types, Runs
  <2> QED
    BY <2>1, <2>2 DEF CheckOf
<1>6. CASE ExceedBudget(w)
  <2>1. run'[w].at = "recreate"
    BY <1>0, <1>6 DEF ExceedBudget, Types, Runs
  <2> QED
    BY <2>1 DEF CheckOf
<1>7. CASE Recreate(w)
  <2>1. run'[w].at = "complete" /\ "recreated" \in marks'[w]
    BY <1>0, <1>7 DEF Recreate, Types, Runs
  <2> QED
    BY <2>1 DEF CheckOf
<1> DEFINE Same == UNCHANGED <<kind, ran, current, passed>>
<1>s. ASSUME Same, marks[w] \subseteq marks'[w], Checked(w) PROVE Checked(w)'
  BY <1>s DEF Checked, Through
<1>8. CASE Complete(w)
  <2>1. run[w].at = "complete" /\ run'[w].at = "announce" /\ Same /\ UNCHANGED marks
    BY <1>0, <1>8 DEF Complete, Types, Runs, results
  <2>2. kind[w] = "deliverable" /\ "recreated" \notin marks[w] => Checked(w)'
    BY <1>0, <1>s, <2>1 DEF CheckOf
  <2> QED
    BY <2>1, <2>2 DEF CheckOf
<1>9. CASE Announce(w) \/ StepFails(w) \/ NotFound(w) \/ Cancel(w)
  <2>1. /\ run[w].at # "idle" /\ run'[w].at \in {"idle", "fail"} /\ Same /\ UNCHANGED row
        /\ \E more \in {{}, {"unannounced"}, {"unfound"}, {"cancelled"}} :
              marks'[w] = marks[w] \cup more
    <3>1. CASE Announce(w)
      <4>1. marks'[w] = marks[w] \cup {}
        BY <3>1 DEF Announce
      <4> QED
        BY <1>0, <1>i, <3>1, <4>1 DEF Announce, Types, results, rowVars
    <3>2. CASE StepFails(w)
      <4>1. marks'[w] \in {marks[w] \cup {}, marks[w] \cup {"unannounced"}}
        BY <1>0, <3>2 DEF StepFails, Types
      <4>2. run'[w].at = "fail"
        BY <1>0, <3>2 DEF StepFails, Types, Runs
      <4> QED
        BY <3>2, <4>1, <4>2 DEF StepFails, results, rowVars
    <3>3. CASE NotFound(w) \/ Cancel(w)
      BY <1>0, <1>i, <3>3 DEF NotFound, Cancel, Types, results, rowVars
    <3> QED
      BY <1>9, <3>1, <3>2, <3>3
  <2>2. row[w] = "COMPLETED" => run[w].at \in {"announce", "fail"}
    BY <1>0, <1>r, <2>1 DEF OutcomeOf, Places
  <2>3. /\ kind[w] = "deliverable" /\ "recreated" \notin marks[w] /\ row[w] = "COMPLETED"
        => Checked(w)'
    BY <1>0, <1>s, <2>1, <2>2 DEF CheckOf
  <2>4. "recreated" \notin marks'[w] => "recreated" \notin marks[w]
    BY <2>1
  <2> QED
    BY <2>1, <2>3, <2>4 DEF CheckOf
<1>10. CASE Fail(w)
  <2>1. /\ run[w].at = "fail" /\ run'[w].at = "idle" /\ Same
        /\ row'[w] = "COMPLETED" => row[w] = "COMPLETED"
        /\ marks'[w] \in {marks[w], marks[w] \cup {"unstored"}}
    BY <1>0, <1>i, <1>10 DEF Fail, Types, results
  <2>2. /\ kind[w] = "deliverable" /\ "recreated" \notin marks[w] /\ row[w] = "COMPLETED"
        => Checked(w)'
    BY <1>0, <1>s, <2>1 DEF CheckOf
  <2> QED
    BY <2>1, <2>2 DEF CheckOf
<1> QED
  BY <1>1, <1>2, <1>3, <1>4, <1>5, <1>6, <1>7, <1>8, <1>9, <1>10

\* Every step keeps it.
LEMMA CheckStep == TypeInv /\ OutcomeInv /\ CheckInv /\ [Next]_vars => CheckInv'
<1> SUFFICES ASSUME TypeInv, OutcomeInv, CheckInv, [Next]_vars, NEW v \in Workflows
             PROVE  CheckOf(v)'
  BY DEF CheckInv
<1>o. CheckOf(v) /\ OutcomeOf(v)
  BY DEF CheckInv, OutcomeInv
<1>s. ASSUME Stays(v) PROVE CheckOf(v)'
  BY <1>o, <1>s DEF Stays, CheckOf, Checked, Through
<1>1. ASSUME NEW w \in Workflows, PipelineStep(w) PROVE CheckOf(v)'
  <2>1. CASE v # w
    BY <1>1, <1>s, <2>1, PipelineEffect DEF OthersStay
  <2>2. CASE v = w
    BY <1>1, <2>2, StageChecks, ReviewChecks, AroundChecks DEF PipelineStep
  <2> QED
    BY <2>1, <2>2
<1>2. ASSUME NEW w \in Workflows,
             \/ Submit(w) \/ Enqueue(w) \/ Start(w) \/ OpenSession(w)
             \/ ExceedBudget(w) \/ Recreate(w) \/ Complete(w) \/ Announce(w)
             \/ StepFails(w) \/ Fail(w) \/ NotFound(w) \/ Cancel(w)
      PROVE  CheckOf(v)'
  BY <1>2, <1>s, AroundEffect, AroundChecks DEF OthersStay
<1>3. CASE WorkerDies
  <2>1. run[v].at \in Places
    BY RunsOK DEF TypeInv, Types, Runs
  <2>2. /\ UNCHANGED <<row, kind, ran, current, passed>> /\ run'[v].at = "idle"
        /\ marks[v] \subseteq marks'[v]
    BY <1>3 DEF WorkerDies, Idle, results
  <2>3. Checked(v) => Checked(v)'
    BY <2>2 DEF Checked, Through
  <2>4. row[v] = "COMPLETED" => run[v].at \in {"idle", "announce", "fail"}
    BY <1>o, <2>1 DEF OutcomeOf, Places
  <2> QED
    BY <1>o, <2>2, <2>3, <2>4 DEF CheckOf
<1>4. CASE UNCHANGED vars
  BY <1>s, <1>4 DEF vars, Stays
<1> QED
  BY <1>1, <1>2, <1>3, <1>4 DEF Next, JobStep, PipelineStep

(***************************************************************************)
(* A completed deliverable was checked as it is, for any number of review  *)
(* iterations, of earlier runs of the session and of deaths in between.    *)
(***************************************************************************)
THEOREM CompletedIsCheckedHolds == Spec => []CompletedIsChecked
<1>1. Init => CheckInv
  <2> SUFFICES ASSUME Init, NEW w \in Workflows PROVE CheckOf(w)
    BY DEF CheckInv
  <2>1. run[w].at = "idle" /\ row[w] = "NONE"
    BY DEF Init, Idle
  <2> QED
    BY <2>1 DEF CheckOf
<1>2. ASSUME TypeInv, CheckInv PROVE CompletedIsChecked
  <2> SUFFICES ASSUME NEW w \in Workflows, row[w] = "COMPLETED", kind[w] = "deliverable",
                      run[w].at \in {"idle", "announce"}, "recreated" \notin marks[w]
               PROVE  /\ ran[w] = StageNames
                      /\ {"linter", "tester"} \subseteq current[w]
                      /\ passed[w] => "reviewer" \in current[w] \/ "silent" \in marks[w]
    BY DEF CompletedIsChecked
  <2>1. Checked(w)
    BY <1>2 DEF CheckInv, CheckOf
  <2>2. ran[w] \subseteq StageNames
    BY <1>2, RunsOK DEF TypeInv, Types
  <2>3. StageNames \subseteq ran[w]
    BY <2>1, Names DEF Checked, Through
  <2> QED
    BY <2>1, <2>2, <2>3 DEF Checked
<1> QED
  BY <1>1, <1>2, OutcomeInvariant, CheckStep, PTL DEF Spec
=============================================================================
