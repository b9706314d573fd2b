------------------------------- MODULE Services -------------------------------
(***************************************************************************)
(* The services that sessions and requests use, each a module of its own.  *)
(* They share no state, so one specification has them side by side: its    *)
(* first state picks one, part, and v1 .. v11 are that module's variables, *)
(* in the order of its declarations; the variables it does not need stay   *)
(* unused.                                                                 *)
(***************************************************************************)
EXTENDS Naturals, Sequences, TLC

CONSTANTS Parts,        \* the services in question
          Nothing       \* no file, no manifest, nothing said

CONSTANTS SkillPlaces, SkillScope, SkillNames, SkillFiles, SkillDisks,
          Contexts, Requests, MaxEdits

CONSTANTS WorkflowPlaces, BuiltIn, WorkflowNames, Default, ManifestFiles,
          ManifestDisks, Briefs, MaxChanges

CONSTANTS Slots, AgentNames, AgentFiles, AgentDisks, Roles, Models, Registered, RoleSkills

CONSTANTS DeliverableCount, MaxEdges, MaxNamed

CONSTANTS Candidates, Deliverables

CONSTANTS Jobs, MaxGroups, MaxWrites, Ceiling

CONSTANTS Callers, Tasks, Todos, MaxNotes

CONSTANTS Paths, Characters, FileTexts, Pieces, FileEdits, Lines, EndOfLine, MaxCalls

CONSTANTS Authors, TierOf, MaxEvents

VARIABLES part, v1, v2, v3, v4, v5, v6, v7, v8, v9, v10, v11

vars == <<part, v1, v2, v3, v4, v5, v6, v7, v8, v9, v10, v11>>

-----------------------------------------------------------------------------
Skill == INSTANCE SkillCatalog WITH
  Count <- SkillPlaces, ScopeAt <- SkillScope, Names <- SkillNames,
  Skills <- SkillFiles, Disks <- SkillDisks, Absent <- Nothing,
  disk <- v1, edits <- v2, copy <- v3, process <- v4, index <- v5, request <-
  v6, pending <- v7, loaded <- v8, asked <- v9, settled <- v10, raced <- v11

Catalog == INSTANCE WorkflowCatalog WITH
  Places <- WorkflowPlaces, Names <- WorkflowNames, Manifests <- ManifestFiles,
  Disks <- ManifestDisks,
  disk <- v1, changes <- v2, copy <- v3, process <- v4, known <- v5, projects
  <- v6, last <- v7

Assembly == INSTANCE AgentAssembly WITH
  Names <- AgentNames, Entries <- AgentFiles, Disks <- AgentDisks, Skills <- RoleSkills,
  None <- Nothing,
  files <- v1, scanned <- v2, at <- v3, next <- v4, scoped <- v5, todo <- v6,
  resolved <- v7, built <- v8

Graph == INSTANCE DependencyGraph WITH
  Count <- DeliverableCount,
  deps <- v1, twice <- v2, job <- v3, chosen <- v4, todo <- v5, count <- v6,
  color <- v7, seen <- v8, order <- v9, answer <- v10, row <- v11

Verdict == INSTANCE Verdicts WITH
  manifest <- v1, session <- v2, status <- v3, pending <- v4, at <- v5, given
  <- v6, results <- v7, rows <- v8, layers <- v9, regressed <- v10, observed
  <- v11

Context == INSTANCE ContextRecreation WITH
  adk <- v1, exists <- v2, writes <- v3, spent <- v4, job <- v5, fresh <- v6,
  current <- v7, groups <- v8, checkpoint <- v9, contexts <- v10, overlapped
  <- v11

Task == INSTANCE ProjectTasks WITH
  row <- v1, call <- v2, used <- v3, told <- v4, raced <- v5, todos <- v6,
  completed <- v7

File == INSTANCE ProjectFiles WITH
  Texts <- FileTexts, Edits <- FileEdits, Absent <- Nothing,
  file <- v1, left <- v2, last <- v3, earlier <- v4

Event == INSTANCE EventStream WITH
  job <- v1, state <- v2, left <- v3, seen <- v4, waiting <- v5, sending <-
  v6, stream <- v7, found <- v8

ASSUME ServicesAssumption ==
  /\ Skill!CatalogAssumption
  /\ Catalog!CatalogAssumption
  /\ Assembly!AssemblyAssumption
  /\ Graph!GraphAssumption
  /\ Verdict!VerdictAssumption
  /\ Context!RecreationAssumption
  /\ Task!TaskAssumption
  /\ File!FileAssumption
  /\ Event!StreamAssumption

Unused == "unused"

Init ==
  /\ part \in Parts
  /\ \/ part = "skills" /\ Skill!Init
     \/ part = "workflows" /\ Catalog!Init
          /\ v8 = Unused /\ v9 = Unused /\ v10 = Unused /\ v11 = Unused
     \/ part = "agents" /\ Assembly!Init /\ v9 = Unused /\ v10 = Unused /\ v11 = Unused
     \/ part = "order" /\ Graph!Init
     \/ part = "verdicts" /\ Verdict!Init
     \/ part = "recreation" /\ Context!Init
     \/ part = "tasks" /\ Task!Init
          /\ v8 = Unused /\ v9 = Unused /\ v10 = Unused /\ v11 = Unused
     \/ part = "files" /\ File!Init
          /\ v5 = Unused /\ v6 = Unused /\ v7 = Unused /\ v8 = Unused
          /\ v9 = Unused /\ v10 = Unused /\ v11 = Unused
     \/ part = "events" /\ Event!Init /\ v9 = Unused /\ v10 = Unused /\ v11 = Unused

Next ==
  \/ part = "skills" /\ Skill!Next /\ UNCHANGED part
  \/ part = "workflows" /\ Catalog!Next /\ UNCHANGED <<part, v8, v9, v10, v11>>
  \/ part = "agents" /\ Assembly!Next /\ UNCHANGED <<part, v9, v10, v11>>
  \/ part = "order" /\ Graph!Next /\ UNCHANGED part
  \/ part = "verdicts" /\ Verdict!Next /\ UNCHANGED part
  \/ part = "recreation" /\ Context!Next /\ UNCHANGED part
  \/ part = "tasks" /\ Task!Next /\ UNCHANGED <<part, v8, v9, v10, v11>>
  \/ part = "files" /\ File!Next /\ UNCHANGED <<part, v5, v6, v7, v8, v9, v10, v11>>
  \/ part = "events" /\ Event!Next /\ UNCHANGED <<part, v9, v10, v11>>

Spec == Init /\ [][Next]_vars

-----------------------------------------------------------------------------
(***************************************************************************)
(* After an invalidation of the skill cache neither the copy in Redis nor  *)
(* a process that takes it is older than it, unless another save was in    *)
(* flight.                                                                 *)
(***************************************************************************)
InvalidationHolds == part = "skills" => Skill!InvalidationHolds

(***************************************************************************)
(* A scan keeps the first file of the last scope that has a name, and an   *)
(* agent is given what matches and all that it reaches by cascades, once.  *)
(***************************************************************************)
LoadedIsClosed == part = "skills" => Skill!LoadedIsClosed

\* The first half of it.
ScanKeepsFirst == part = "skills" => Skill!ScanKeepsFirst

(***************************************************************************)
(* A workflow of the user's hides a built-in one of its name, and a brief  *)
(* is matched with those that name it explicitly, or else by keyword.      *)
(***************************************************************************)
CatalogIsRight == part = "workflows" => Catalog!CatalogIsRight

(***************************************************************************)
(* An agent is what the scopes say of it, layer by layer, and has the      *)
(* tools of the role that results.                                         *)
(***************************************************************************)
ResolutionIsLayered == part = "agents" => Assembly!ResolutionIsLayered

(***************************************************************************)
(* Cycle detection, order, batch, focus and impact are right about every   *)
(* graph of dependencies.                                                  *)
(***************************************************************************)
AnswersAreRight == part = "order" => Graph!AnswersAreRight

(***************************************************************************)
(* A contract layer passes only when a round of validators has seen every  *)
(* deliverable COMPLETED.                                                  *)
(***************************************************************************)
ContractIsEarned == part = "verdicts" => Verdict!ContractIsEarned

(***************************************************************************)
(* The taskgroup gate holds back only what is not finished (see Verdicts). *)
(***************************************************************************)
GateOpens == part = "verdicts" => Verdict!GateOpens

(***************************************************************************)
(* A recreated context has the latest value of every critical key.         *)
(***************************************************************************)
FreshKeepsLatest == part = "recreation" => Context!FreshKeepsLatest

(***************************************************************************)
(* A note whose update was answered with success is kept, unless two       *)
(* updates raced.                                                          *)
(***************************************************************************)
NotesKept == part = "tasks" => Task!NotesKept

(***************************************************************************)
(* A task's status changes only by a call that asks for it and has read    *)
(* another.                                                                *)
(***************************************************************************)
StatusIsAskedFor == [][part = "tasks" => Task!StatusStep]_vars

(***************************************************************************)
(* A todo that was completed stays so, whatever call ran at the same time. *)
(***************************************************************************)
CompletionKept == part = "tasks" => Task!CompletionKept

(***************************************************************************)
(* A refused edit leaves every file alone, a failed one all but its own; a *)
(* repeated one changes nothing, and independent edits may come in any     *)
(* order.                                                                  *)
(***************************************************************************)
AnswersHold == part = "files" => File!AnswersHold

(***************************************************************************)
(* Each violation found is in the stream once when the agents have ended.  *)
(***************************************************************************)
ViolationsPublished == part = "events" => Event!ViolationsPublished

(***************************************************************************)
(* An agent is announced as started once for each of its runs.             *)
(***************************************************************************)
StartedOnce == part = "events" => Event!StartedOnce
=============================================================================
