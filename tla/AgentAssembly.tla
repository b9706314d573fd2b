---------------------------- MODULE AgentAssembly ----------------------------
(***************************************************************************)
(* AgentRegistry: every job that runs agents reads their definitions from  *)
(* the directories of up to three scopes, resolves what each scope says of *)
(* an agent over the scopes below it, and builds agents with a model, an   *)
(* instruction and the tools of their role.                                *)
(***************************************************************************)
EXTENDS Naturals, Sequences, FiniteSets

CONSTANTS Slots,        \* number of files a directory may hold, in order
          Names,        \* names of agents
          Entries,      \* what a file can say
          Disks,        \* what the directories may hold
          Roles,        \* keys of ROLE_PERMISSIONS
          Models,       \* roles of models that the router has a default for
          Registered,   \* classes in CLASS_REGISTRY
          Skills,       \* loaded skills, each the set of roles it applies to
          None          \* nothing

Scopes == 1..3          \* global, workflow, project: later ones override

\* What a file may say of a field, or nothing.
Words(field) == {None} \cup {e[field] : e \in Entries}
Definitions == [parses: BOOLEAN, name: Names, type: {"llm", "custom"}, tool: Words("tool"),
                model: Words("model"), class: Words("class"), body: Words("body")]

\* Frontmatter that parse_definition_file rejects has parses FALSE.
AssemblyAssumption ==
  /\ Slots \in Nat \ {0}
  /\ Entries \subseteq Definitions
  /\ Disks \subseteq [Scopes \X (1..Slots) -> Entries \cup {None}]
  /\ "default" \in Roles /\ "fast" \in Models
  /\ None \notin Definitions /\ None \notin {"llm", "custom"}

VARIABLES files,      \* the directories' files, in order
          scanned,    \* how many of the directories the job scans
          at,         \* what the job does
          next,       \* place of the next file: scope and slot
          scoped,     \* entries by scope and name
          todo,       \* names that are not resolved
          resolved,   \* definitions by name
          built       \* the agent last built, or the error

vars == <<files, scanned, at, next, scoped, todo, resolved, built>>

Init == /\ files \in Disks
        /\ scanned \in 1..3
        /\ at = "parse" /\ next = <<1, 1>>
        /\ scoped = [s \in Scopes |-> [n \in Names |-> None]]
        /\ todo = {} /\ resolved = [n \in Names |-> None]
        /\ built = None

-----------------------------------------------------------------------------
(***************************************************************************)
(* AgentRegistry.scan                                                      *)
(***************************************************************************)
After(p) == IF p[2] < Slots THEN <<p[1], p[2] + 1>> ELSE <<p[1] + 1, 1>>

\* The next file: one that is not valid, or a second of its name in the scope,
\* ends the scan and with it the job.
ParseNext ==
  /\ at = "parse" /\ next[1] <= scanned
  /\ LET s == next[1]
         e == files[next]
     IN  \/ /\ e = None
            /\ next' = After(next) /\ UNCHANGED <<at, scoped>>
         \/ /\ e # None
            /\ ~e.parses \/ scoped[s][e.name] # None
            /\ at' = "failed" /\ UNCHANGED <<next, scoped>>
         \/ /\ e # None
            /\ e.parses /\ scoped[s][e.name] = None
            /\ scoped' = [scoped EXCEPT ![s][e.name] = e]
            /\ next' = After(next) /\ UNCHANGED at
  /\ UNCHANGED <<files, scanned, todo, resolved, built>>

\* A project may not bring classes.
RejectCustom ==
  /\ at = "parse" /\ next[1] > scanned
  /\ IF \E n \in Names : scoped[3][n] # None /\ scoped[3][n].type = "custom"
       THEN /\ at' = "failed" /\ UNCHANGED todo
       ELSE /\ at' = "resolve"
            /\ todo' = {n \in Names : \E s \in Scopes : scoped[s][n] # None}
  /\ UNCHANGED <<files, scanned, next, scoped, resolved, built>>

Or(new, old) == IF new # None THEN new ELSE old

\* Mutant: an override with a body keeps the rest of what it overrides.
OverrideKeeping(old, e) ==
  [e EXCEPT !.tool = Or(e.tool, old.tool), !.model = Or(e.model, old.model),
            !.class = Or(e.class, old.class), !.body = Or(e.body, old.body)]

\* An override without a body keeps what it does not say; with one it replaces.
Override(old, e) ==
  IF e.body # None THEN e
  ELSE [e EXCEPT !.tool = Or(e.tool, old.tool), !.model = Or(e.model, old.model),
                 !.class = Or(e.class, old.class), !.body = old.body]

\* What a scope says over what the scopes below it do.
Layer(old, e) == IF e = None THEN old ELSE IF old = None THEN e ELSE Override(old, e)

Cascade(n) == Layer(Layer(scoped[1][n], scoped[2][n]), scoped[3][n])

ResolveNext ==
  /\ at = "resolve" /\ todo # {}
  /\ LET n == CHOOSE n \in todo : TRUE
     IN  /\ resolved' = [resolved EXCEPT ![n] = Cascade(n)]
         /\ todo' = todo \ {n}
  /\ UNCHANGED <<files, scanned, at, next, scoped, built>>

-----------------------------------------------------------------------------
(***************************************************************************)
(* AgentRegistry.build, with the router, the assembler and the toolset.    *)
(***************************************************************************)
\* GlobalToolset.get_tools_for_role: a role it does not know gets every tool.
ToolsFor(role) == IF role = None THEN "no tools" ELSE IF role \in Roles THEN role ELSE "default"

\* InstructionAssembler: the skills that apply to all, or to the context's role.
SkillsFor(role) == {k \in Skills : k = {} \/ role \in k}

\* Custom agents need a class, and that it is registered, LLM agents a known
\* model role.
Build(n, role) ==
  /\ at = "resolve" /\ todo = {}
  /\ LET e == resolved[n]
         m == Or(e.model, "fast")
     IN  built' = IF e = None THEN [is |-> "not found", of |-> n]
                  ELSE IF e.type = "custom"
                    THEN IF e.class = None THEN [is |-> "no class", of |-> n]
                         ELSE IF e.class \notin Registered
                           THEN [is |-> "not registered", of |-> n]
                         ELSE [is |-> "custom", of |-> n, class |-> e.class, body |-> e.body]
                  ELSE IF m \notin Models THEN [is |-> "no model", of |-> n]
                  ELSE [is |-> "llm", of |-> n, model |-> m, tools |-> ToolsFor(e.tool),
                        body |-> e.body, skills |-> SkillsFor(role)]
  /\ at' = "built"
  /\ UNCHANGED <<files, scanned, next, scoped, todo, resolved>>

Next == \/ ParseNext \/ RejectCustom \/ ResolveNext
        \/ \E n \in Names, role \in Roles : Build(n, role)

Spec == Init /\ [][Next]_vars

-----------------------------------------------------------------------------
Outcomes == {"not found", "no class", "not registered", "custom", "no model", "llm"}

(***************************************************************************)
(* The scan is at a place of a directory, or past the last one it scans.   *)
(***************************************************************************)
TypeOK ==
  /\ files \in [Scopes \X (1..Slots) -> Entries \cup {None}] /\ scanned \in Scopes
  /\ at \in {"parse", "failed", "resolve", "built"}
  /\ next \in (1..4) \X (1..Slots) /\ next[1] <= scanned + 1
  /\ scoped \in [Scopes -> [Names -> Entries \cup {None}]]
  /\ todo \subseteq Names
  /\ resolved \in [Names -> Definitions \cup {None}]
  /\ at = "built" => built.is \in Outcomes /\ built.of \in Names

\* The files that the job scans, and those of them that it has read.
Seen == {p \in (1..scanned) \X (1..Slots) : files[p] # None}
Before(p, q) == p[1] < q[1] \/ (p[1] = q[1] /\ p[2] < q[2])
Read == {p \in Seen : Before(p, next)}

Bad == \/ \E p \in Seen : ~files[p].parses \/ (p[1] = 3 /\ files[p].type = "custom")
       \/ \E p, q \in Seen : p # q /\ p[1] = q[1] /\ files[p].name = files[q].name

\* What says something of an agent; of it, the scopes from the one whose body
\* counts; and the last word about a field.
Said(n) == {p \in Seen : files[p].name = n}
Base(n) == {p \in Said(n) : \A q \in Said(n) : files[q].body # None => q[1] <= p[1]}
LastSaid(P, f) == LET with == {p \in P : files[p][f] # None}
                  IN  IF with = {} THEN None
                      ELSE files[CHOOSE p \in with : \A q \in with : q[1] <= p[1]][f]

\* The scopes hold what was read, one entry for each name.
ScopedIsRead ==
  /\ \A p \in Read : files[p].parses /\ scoped[p[1]][files[p].name] = files[p]
  /\ \A p, q \in Read : p[1] = q[1] /\ files[p].name = files[q].name => p = q
  /\ \A s \in Scopes, n \in Names : scoped[s][n] # None =>
       \E p \in Read : p[1] = s /\ files[p].name = n

\* Names that are resolved are so from all scopes; a job that fails has met what
\* is bad, and one that resolves has met nothing.
ResolvedIsCascade ==
  /\ at = "parse" => \A n \in Names : resolved[n] = None
  /\ at = "failed" => Bad
  /\ at \in {"resolve", "built"} =>
       /\ next[1] > scanned /\ ~Bad
       /\ \A n \in Names \ todo : resolved[n] = Cascade(n)
  /\ at = "built" /\ built.is = "llm" =>
       /\ built.of \notin todo /\ resolved[built.of] # None
       /\ built.tools = ToolsFor(resolved[built.of].tool)

(***************************************************************************)
(* A job fails just when a file it scans is not valid, repeats a name of   *)
(* its scope or is a project's class.  Otherwise an agent has the body of  *)
(* the last scope that has one, or of the first; every other field is the  *)
(* last word at or above that scope; and it gets the tools of that role,   *)
(* not those of a definition that was replaced.                            *)
(***************************************************************************)
ResolutionIsLayered ==
  /\ at = "failed" => Bad
  /\ at \in {"resolve", "built"} => ~Bad
  /\ at \in {"resolve", "built"} => \A n \in Names \ todo :
       IF Said(n) = {} THEN resolved[n] = None
       ELSE /\ resolved[n].body = LastSaid(Said(n), "body")
            /\ resolved[n].type = LastSaid(Said(n), "type")
            /\ \A f \in {"tool", "model", "class"} : resolved[n][f] = LastSaid(Base(n), f)
  /\ at = "built" /\ built.is = "llm" =>
       built.tools = ToolsFor(LastSaid(Base(built.of), "tool"))
=============================================================================
