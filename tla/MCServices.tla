------------------------------ MODULE MCServices ------------------------------
(***************************************************************************)
(* A small instance of Services for TLC: what files and manifests say.     *)
(***************************************************************************)
EXTENDS Services, FiniteSets

SkillFile(n, t, d, p, c) == [name |-> n, parses |-> TRUE, triggers |-> t,
                             described |-> d, priority |-> p, cascades |-> c]

\* Skills that call each other in a circle, and one that is not there.
CallsB == SkillFile("a", {"always"}, {}, 0, <<"b", "x">>)
CallsC == SkillFile("b", {}, {}, 0, <<"c", "b">>)
CallsA == SkillFile("c", {}, {}, 0, <<"a">>)
OtherA == SkillFile("a", {}, {"c1"}, 1, <<>>)

MCSkillFiles == {CallsB, CallsC, CallsA, OtherA,
               SkillFile("b", {"c1"}, {}, 1, <<"a", "c">>),
               [SkillFile("b", {}, {}, 0, <<>>) EXCEPT !.parses = FALSE]}

MCSkillDisks == {<<Nothing, Nothing, Nothing>>, <<CallsB, CallsC, CallsA>>,
               <<CallsB, OtherA, OtherA>>}

Manifest(n, t, l, ok, p) == [name |-> n, valid |-> ok, triggers |-> t, lacks |-> l,
                             needs |-> n = "w2", pipeline |-> p]
Explicit(b) == [kind |-> "explicit", of |-> b]
Keyword(b) == [kind |-> "keyword", of |-> b]

AutoCode == Manifest("auto-code", <<Keyword({"b1"})>>, {}, TRUE, "good")
Masked == Manifest("w2", <<Keyword({"b1", "b2"}), Explicit({"b1"})>>, {}, TRUE, "missing")

MCManifestFiles == {AutoCode, Masked,
                  Manifest("w2", <<Explicit({"b1"})>>, {"b1"}, TRUE, "broken"),
                  Manifest("auto-code", <<Explicit({"b2"})>>, {"b2"}, FALSE, "good"),
                  Manifest("auto-code", <<>>, {"b2"}, TRUE, "missing")}

MCManifestDisks == {<<AutoCode, Nothing, Nothing>>, <<AutoCode, Masked, Masked>>}

AgentFile(n, ty, b, t, m, c) == [parses |-> TRUE, name |-> n, type |-> ty, body |-> b,
                                 tool |-> t, model |-> m, class |-> c]

MCAgentFiles == {AgentFile("a", "llm", "b1", "pm", Nothing, Nothing),
               AgentFile("a", "llm", Nothing, Nothing, "plan", Nothing),
               AgentFile("a", "custom", Nothing, Nothing, Nothing, "C"),
               AgentFile("a", "llm", "b2", Nothing, "odd", Nothing),
               AgentFile("a", "custom", "b3", "odd", Nothing, Nothing),
               AgentFile("b", "llm", Nothing, "odd", Nothing, Nothing),
               AgentFile("b", "custom", Nothing, Nothing, Nothing, "D"),
               [AgentFile("b", "llm", Nothing, Nothing, Nothing, Nothing)
                  EXCEPT !.parses = FALSE]}

\* At most two files, or one for each scope.
Places == (1..3) \X (1..Slots)
Few(P) == \/ Cardinality(P) <= 2
          \/ Cardinality(P) = 3 /\ {p[1] : p \in P} = 1..3
Holding(P) == {[p \in Places |-> IF p \in P THEN g[p] ELSE Nothing] :
                 g \in [P -> MCAgentFiles]}
MCAgentDisks == UNION {Holding(P) : P \in {P \in SUBSET Places : Few(P)}}

Validator(n, s) == [name |-> n, kind |-> "DETERMINISTIC", schedule |-> s, required |-> TRUE]

MCCandidates == {Validator("lint_check", "PER_DELIVERABLE"),
               Validator("deliverable_status_check", "PER_TASKGROUP"),
               Validator("deliverable_status_check", "PER_STAGE")}

Change(o, n) == [old |-> o, new |-> n]

MCFileTexts == [1..2 -> {"x", "y"}] \cup
               {<<"x", "y", "x">>, <<"x", "/", "y">>, <<"/", "x", "/">>}
MCFileEdits == {Change(<<"x">>, <<"z">>), Change(<<"x">>, <<"z", "x">>),
              Change(<<"x", "y">>, <<"z">>), Change(<<"y">>, <<>>),
              Change(<<"y">>, <<"u">>), Change(<<>>, <<"z">>)}

MCTierOf == [coder |-> "WORKER", PM_x |-> "PM"]

MCSkillScope == <<1, 1, 2>>
MCRoleSkills == {{}, {"pm"}}
MCPieces == {<<"y", "/">>, <<"x">>}
=============================================================================
