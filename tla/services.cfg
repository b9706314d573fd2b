SPECIFICATION Spec
CONSTANTS
  Parts = {"skills", "workflows", "agents", "order", "verdicts", "recreation", "tasks", "files", "events"}
  Nothing = Nothing
  SkillPlaces = 3
  SkillScope <- MCSkillScope
  SkillNames = {"a", "b", "c", "x"}
  SkillFiles <- MCSkillFiles
  SkillDisks <- MCSkillDisks
  Contexts = {"c1"}
  Requests = {"r1"}
  MaxEdits = 1
  WorkflowPlaces = 3
  BuiltIn = 1
  WorkflowNames = {"auto-code", "w2"}
  Default = "auto-code"
  ManifestFiles <- MCManifestFiles
  ManifestDisks <- MCManifestDisks
  Briefs = {"b1", "b2"}
  MaxChanges = 1
  Slots = 2
  AgentNames = {"a", "b"}
  AgentFiles <- MCAgentFiles
  AgentDisks <- MCAgentDisks
  Roles = {"pm", "default"}
  Models = {"fast", "plan"}
  Registered = {"C"}
  RoleSkills <- MCRoleSkills
  DeliverableCount = 3
  MaxEdges = 2
  MaxNamed = 2
  Candidates <- MCCandidates
  Deliverables = {"d1"}
  Jobs = {"j1", "j2"}
  MaxGroups = 2
  MaxWrites = 3
  Ceiling = 1
  Callers = {"c1", "c2"}
  Tasks = {"t1"}
  Todos = {"i1", "i2"}
  MaxNotes = 2
  Paths = {"p", "q"}
  Characters = {"x", "y", "z", "u", "/"}
  FileTexts <- MCFileTexts
  Pieces <- MCPieces
  FileEdits <- MCFileEdits
  Lines = {0, 2, 9}
  EndOfLine = "/"
  MaxCalls = 2
  Authors = {"coder", "PM_x"}
  TierOf <- MCTierOf
  MaxEvents = 3
INVARIANTS InvalidationHolds LoadedIsClosed CatalogIsRight ResolutionIsLayered
           AnswersAreRight ContractIsEarned FreshKeepsLatest CompletionKept AnswersHold
           ViolationsPublished StartedOnce
PROPERTIES StatusIsAskedFor
CHECK_DEADLOCK FALSE
