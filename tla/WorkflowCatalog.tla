--------------------------- MODULE WorkflowCatalog ---------------------------
(***************************************************************************)
(* WorkflowRegistry: the manifests that the gateway and the worker each    *)
(* know, the copy of them in Redis, and what is done with them: a brief is *)
(* matched and validated, resources are checked, a project is created, a   *)
(* workflow or a session of a project builds its pipeline.                 *)
(*                                                                         *)
(* A process that starts takes the copy, and scans only when there is      *)
(* none.  The copy does not expire and nothing in the program deletes it.  *)
(***************************************************************************)
EXTENDS Naturals, Sequences, FiniteSets

CONSTANTS Places,       \* number of workflow directories, in scan order
          BuiltIn,      \* the first of them are built in, the others the user's
          Names,        \* names of workflows
          Default,      \* DEFAULT_WORKFLOW_NAME
          Manifests,    \* what a directory can hold
          Disks,        \* what they hold at first
          Briefs,       \* briefs that are matched
          MaxChanges,   \* bound: changes of a directory
          Nothing       \* no manifest, no brief, no workflow

Dirs == 1..Places
Scope(d) == IF d <= BuiltIn THEN "built-in" ELSE "user"

\* Triggers are in order, each with its kind and the briefs that meet it.
\* `lacks` are the briefs without a required field, `needs` tells whether there
\* are resources.
CatalogAssumption ==
  /\ Places \in Nat /\ BuiltIn \in 0..Places /\ MaxChanges \in Nat
  /\ Default \in Names /\ Nothing \notin Names \cup Briefs
  /\ \A m \in Manifests : /\ m.name \in Names /\ m.valid \in BOOLEAN
                            /\ m.triggers \in Seq([kind : {"explicit", "keyword"}, of : SUBSET Briefs])
                            /\ m.lacks \subseteq Briefs /\ m.needs \in BOOLEAN
                            /\ m.pipeline \in {"good", "missing", "broken"}
  /\ Disks \subseteq [Dirs -> Manifests \cup {Nothing}]

VARIABLES disk,       \* the directories
          changes,    \* number of changes so far
          copy,       \* the copy in Redis, and the changes before its scan
          process,    \* each process: down, saving or up
          known,      \* what each process knows, and the changes before that scan
          projects,   \* workflow_type of the projects
          last        \* what was last answered or run: of which workflows, for
                      \* which brief or type, and by what the worker knew

vars == <<disk, changes, copy, process, known, projects, last>>

Processes == {"gateway", "worker"}
NoIndex == [at |-> 0, of |-> [n \in Names |-> 0], as |-> [n \in Names |-> Nothing]]
NoAnswer == [by |-> "none", says |-> "none", of |-> {}, for |-> Nothing, at |-> 0]

Init == /\ disk \in Disks
        /\ changes = 0
        /\ copy = NoIndex
        /\ process = [p \in Processes |-> "down"]
        /\ known = [p \in Processes |-> NoIndex]
        /\ projects = {}
        /\ last = NoAnswer

-----------------------------------------------------------------------------
(***************************************************************************)
(* Scanning and matching.                                                  *)
(***************************************************************************)
\* yaml.safe_load and WorkflowManifest.model_validate; else a warning.
Parses(d, k) == d[k] # Nothing /\ d[k].valid

\* Built-in directories, then the user's: of a name the first in a scope stays,
\* the user's takes it over.
Scan(d) ==
  LET Upto[k \in 0..Places] ==
        IF k = 0 THEN [n \in Names |-> 0]
        ELSE LET ix == Upto[k - 1]
                 first == Parses(d, k) => ix[d[k].name] = 0 \/ Scope(ix[d[k].name]) # Scope(k)
             IN  IF Parses(d, k) /\ first THEN [ix EXCEPT ![d[k].name] = k] ELSE ix
  IN  Upto[Places]

Snapshot == LET at == Scan(disk)
            IN  [at |-> changes + 1, of |-> at,
                 as |-> [n \in Names |-> IF at[n] = 0 THEN Nothing ELSE disk[at[n]]]]

Known(ix) == {n \in Names : ix.of[n] # 0}

\* The kind of a manifest's first trigger that the brief meets.
Hit(m, b) ==
  LET met == {i \in DOMAIN m.triggers : b \in m.triggers[i].of}
  IN  IF met = {} THEN "none"
      ELSE m.triggers[CHOOSE i \in met : \A j \in met : i <= j].kind

\* Mutant: explicit and keyword matches are returned together.
MatchAll(ix, b) == {n \in Known(ix) : Hit(ix.as[n], b) # "none"}

\* Keyword matches count only when there is no explicit one.
Match(ix, b) ==
  LET explicit == {n \in Known(ix) : Hit(ix.as[n], b) = "explicit"}
  IN  IF explicit # {} THEN explicit ELSE {n \in Known(ix) : Hit(ix.as[n], b) = "keyword"}

-----------------------------------------------------------------------------
(***************************************************************************)
(* The processes.                                                          *)
(***************************************************************************)
\* An author writes or deletes a directory of the user's.
Edit(k) ==
  /\ changes < MaxChanges
  /\ Scope(k) = "user"
  /\ \E m \in Manifests \cup {Nothing} : m # disk[k] /\ disk' = [disk EXCEPT ![k] = m]
  /\ changes' = changes + 1
  /\ UNCHANGED <<copy, process, known, projects, last>>

\* startup and lifespan: the copy, or a scan when there is none or Redis fails.
Start(p) ==
  /\ process[p] = "down"
  /\ \/ /\ copy # NoIndex
        /\ known' = [known EXCEPT ![p] = copy]
        /\ process' = [process EXCEPT ![p] = "up"]
     \/ /\ known' = [known EXCEPT ![p] = Snapshot]
        /\ process' = [process EXCEPT ![p] = "saving"]
  /\ UNCHANGED <<disk, changes, copy, projects, last>>

\* save_to_cache swallows what goes wrong.
SaveCopy(p) ==
  /\ process[p] = "saving"
  /\ process' = [process EXCEPT ![p] = "up"]
  /\ copy' = known[p] \/ copy' = copy
  /\ UNCHANGED <<disk, changes, known, projects, last>>

Stop(p) ==
  /\ process[p] # "down"
  /\ process' = [process EXCEPT ![p] = "down"]
  /\ UNCHANGED <<disk, changes, copy, known, projects, last>>

-----------------------------------------------------------------------------
(***************************************************************************)
(* The tools of the Director, in the worker.                               *)
(***************************************************************************)
Ready == process["worker"] = "up"
Answer(by, says, of, for) ==
  last' = [by |-> by, says |-> says, of |-> of, for |-> for, at |-> known["worker"].at]

\* validate_brief, with the type the Director names or the one that matches.
ValidateBrief(b, t) ==
  /\ Ready
  /\ LET ix == known["worker"]
         found == IF t = Nothing THEN Match(ix, b) ELSE {t} \cap Known(ix)
         w == CHOOSE n \in found : TRUE
         says == IF found = {} THEN "not found"
                 ELSE IF Cardinality(found) > 1 THEN "ambiguous"
                 ELSE IF b \in ix.as[w].lacks THEN "failed" ELSE "ok"
     IN  Answer(IF t = Nothing THEN "match" ELSE "validate", says, found, b)
  /\ UNCHANGED <<disk, changes, copy, process, known, projects>>

\* check_resources: what is declared may be missing.
CheckResources(t) ==
  /\ Ready
  /\ \E says \in {"ok", "failed", "not found"} :
       /\ says = "not found" <=> t \notin Known(known["worker"])
       /\ says = "failed" => known["worker"].as[t].needs
       /\ Answer("resources", says, {t}, Nothing)
  /\ UNCHANGED <<disk, changes, copy, process, known, projects>>

\* create_project looks nothing up.
CreateProject(t) ==
  /\ Ready
  /\ projects' = projects \cup {t}
  /\ UNCHANGED <<disk, changes, copy, process, known, last>>

\* create_pipeline with the manifest known and the pipeline.py of its directory
\* as it is now.
Built(t) == LET ix == known["worker"]
                k == ix.of[t]
            IN  IF k = 0 THEN "not found"
                ELSE IF disk[k] = Nothing THEN "missing" ELSE disk[k].pipeline

\* run_work_session: whatever the project's type, it takes the default workflow.
RunSession(t) ==
  /\ Ready /\ t \in projects
  /\ Answer("session", Built(Default), {Default}, t)
  /\ UNCHANGED <<disk, changes, copy, process, known, projects>>

\* run_workflow: the workflow its parameters name.
RunWorkflow(t) ==
  /\ Ready
  /\ Answer("run", Built(t), {t}, t)
  /\ UNCHANGED <<disk, changes, copy, process, known, projects>>

Next == \/ \E k \in Dirs : Edit(k)
        \/ \E p \in Processes : Start(p) \/ SaveCopy(p) \/ Stop(p)
        \/ \E b \in Briefs, t \in Names \cup {Nothing} : ValidateBrief(b, t)
        \/ \E t \in Names : CheckResources(t) \/ CreateProject(t) \/ RunSession(t) \/ RunWorkflow(t)

Spec == Init /\ [][Next]_vars

-----------------------------------------------------------------------------
Indexes == [at: Nat, of: [Names -> 0..Places], as: [Names -> Manifests \cup {Nothing}]]
Answers == [by: {"none", "match", "validate", "resources", "session", "run"},
            says: {"none", "not found", "ambiguous", "failed", "ok", "missing",
                   "good", "broken"},
            of: SUBSET Names, for: Names \cup Briefs \cup {Nothing}, at: Nat]

(***************************************************************************)
(* An index has a manifest of every name it knows.                         *)
(***************************************************************************)
TypeOK ==
  /\ disk \in [Dirs -> Manifests \cup {Nothing}] /\ changes \in Nat
  /\ copy \in Indexes /\ known \in [Processes -> Indexes]
  /\ process \in [Processes -> {"down", "saving", "up"}]
  /\ projects \subseteq Names /\ last \in Answers
  /\ \A ix \in {copy} \cup {known[p] : p \in Processes}, n \in Names :
       ix.of[n] # 0 => ix.as[n] \in Manifests

\* An index that is as new as the directories is what they hold, and what was
\* scanned after as many changes is the same.
Held == {copy} \cup {known[p] : p \in Processes}
IsOfDisk(ix) == ix.at <= changes + 1 /\ (ix.at = changes + 1 => ix = Snapshot)
IndexIsOfDisk == /\ \A ix \in Held : IsOfDisk(ix)
                 /\ \A ix, other \in Held : ix.at = other.at => ix = other

\* What was matched is so still by every index of the same age.
MatchStands ==
  last.by = "match" =>
    /\ last.at <= changes + 1
    /\ last.at = changes + 1 => last.of = Match(Snapshot, last.for)
    /\ \A ix \in Held : ix.at = last.at => last.of = Match(ix, last.for)

(***************************************************************************)
(* A process that has just scanned knows, of every name that some readable *)
(* manifest has, the user's first one, or else the first built-in one.  A  *)
(* brief without a type is matched with the workflows that it names        *)
(* explicitly, or when it names none with those that have a keyword of it; *)
(* a manifest whose keyword trigger stands before its explicit one is only *)
(* matched by keyword.                                                     *)
(***************************************************************************)
Meets(m, b, kind) == \E i \in DOMAIN m.triggers : m.triggers[i].kind = kind /\ b \in m.triggers[i].of

CatalogIsRight ==
  /\ \A p \in Processes : process[p] = "saving" /\ known[p].at = changes + 1 =>
       \A n \in Names :
         LET all == {k \in Dirs : Parses(disk, k) /\ disk[k].name = n}
             mine == {k \in all : Scope(k) = "user"}
             rivals == IF mine # {} THEN mine ELSE all
         IN  IF all = {} THEN n \notin Known(known[p])
             ELSE known[p].of[n] \in rivals /\ \A k \in rivals : known[p].of[n] <= k
  /\ last.by = "match" /\ last.at = known["worker"].at =>
       LET ix == known["worker"]
           Met(kind) == {n \in Known(ix) : Meets(ix.as[n], last.for, kind)}
           hidden == {n \in Met("explicit") : Hit(ix.as[n], last.for) = "keyword"}
           explicit == Met("explicit") \ hidden
       IN  last.of = IF explicit # {} THEN explicit ELSE Met("keyword")
=============================================================================
