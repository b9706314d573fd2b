--------------------------- MODULE DependencyGraph ---------------------------
(***************************************************************************)
(* What the program computes from the dependencies of deliverables:        *)
(* whether they have a cycle (query_dependency_graph, by depth-first       *)
(* search; dependency_validation, by counting), in which order to work     *)
(* (DependencyResolverAgent), what the PM may start (select_ready_batch)   *)
(* after it has reordered the rows, the neighbourhood of a deliverable     *)
(* (focus), and what a failure blocks (evaluate_failure_impact).           *)
(*                                                                         *)
(* Each loop of the code is an action that takes one round of it.          *)
(***************************************************************************)
EXTENDS Naturals, Sequences, FiniteSets

CONSTANTS Count,        \* number of deliverables; names are ordered as numbers
          MaxEdges,     \* bound on the dependencies when a batch is selected
          MaxNamed      \* bound on the names in an order of the PM's

GraphAssumption == Count \in Nat /\ MaxEdges \in Nat /\ MaxNamed \in Nat

Nodes == 1..Count
Foreign == 0            \* a name that no deliverable has
Any == Nodes \cup {Foreign}

VARIABLES deps,         \* depends_on of each deliverable
          twice,        \* names listed twice in depends_on
          job,          \* which computation runs
          chosen,       \* the deliverable it is about
          todo,         \* its worklist: a stack, queue, frontier or asked order
          count,        \* in-degrees
          color,        \* depth-first search: white, gray or black
          seen,         \* result so far, as a set
          order,        \* result so far, as a sequence
          answer,       \* none, or what the computation says
          row           \* status and execution_order of each deliverable

vars == <<deps, twice, job, chosen, todo, count, color, seen, order, answer, row>>

Questions == {"query", "validate", "resolve", "focus", "impact"}

\* To be started or retried, COMPLETED or SKIPPED, and any other.
Statuses == {"open", "done", "other"}
None == "none"

Init == /\ deps = [n \in Nodes |-> {}]
        /\ twice = [n \in Nodes |-> {}]
        /\ job = None /\ chosen = Foreign
        /\ todo = <<>> /\ count = [n \in Nodes |-> 0]
        /\ color = [n \in Nodes |-> "white"]
        /\ seen = {} /\ order = <<>> /\ answer = None
        /\ row = [n \in Nodes |-> [status |-> "open", rank |-> 0]]

Occurs(n, m) == IF m \notin deps[n] THEN 0 ELSE IF m \in twice[n] THEN 2 ELSE 1

\* How often a node is listed by those that are not in P.
Left(P, m) == LET C[n \in 0..Count] ==
                    IF n = 0 THEN 0 ELSE C[n - 1] + IF n \in P THEN 0 ELSE Occurs(n, m)
              IN  C[Count]

\* The least of a set of names.
Least(S) == CHOOSE n \in S : \A m \in S : n <= m

-----------------------------------------------------------------------------
(***************************************************************************)
(* What is asked, and of which graph.                                      *)
(***************************************************************************)
\* Deliverables have dependencies; the rows never list one twice, the list of
\* names in a session's state may.
Ask ==
  /\ job = None
  /\ \E d \in [Nodes -> SUBSET Any], j \in Questions, n \in Nodes :
       /\ deps' = d /\ job' = j
       /\ chosen' = IF j \in {"focus", "impact"} THEN n ELSE Foreign
       /\ j \in {"query", "validate", "resolve"} => n = 1
  /\ \E t \in [Nodes -> SUBSET Nodes] :
       /\ Cardinality({n \in Nodes : t[n] # {}}) <= 1
       /\ \A n \in Nodes : t[n] \subseteq deps'[n] /\ Cardinality(t[n]) <= 1
       /\ job' \notin {"validate", "resolve"} => \A n \in Nodes : t[n] = {}
       /\ twice' = t
  /\ UNCHANGED <<todo, count, color, seen, order, answer, row>>

-----------------------------------------------------------------------------
(***************************************************************************)
(* _detect_graph_cycles.  A frame of the stack is a node; `color` also     *)
(* says that its frame is there, `seen` holds the edges it has looked at.  *)
(***************************************************************************)
\* The next start that is white, or no cycle.
NextStart ==
  /\ job = "query" /\ answer = None /\ todo = <<>>
  /\ \/ \E n \in Nodes :
          /\ color[n] = "white"
          /\ color' = [color EXCEPT ![n] = "gray"]
          /\ todo' = <<n>>
          /\ UNCHANGED answer
     \/ /\ \A n \in Nodes : color[n] # "white"
        /\ answer' = "acyclic"
        /\ UNCHANGED <<color, todo>>
  /\ UNCHANGED <<deps, twice, job, chosen, count, seen, order, row>>

\* Mutant: a node met before closes a cycle, be it gray or black.
LookAtSeen ==
  /\ job = "query" /\ answer = None /\ todo # <<>>
  /\ LET n == Head(todo)
         left == {m \in deps[n] : <<n, m>> \notin seen}
     IN  \/ /\ left = {}
            /\ color' = [color EXCEPT ![n] = "black"]
            /\ todo' = Tail(todo)
            /\ UNCHANGED <<seen, answer>>
         \/ \E m \in left :
              /\ seen' = seen \cup {<<n, m>>}
              /\ IF m \in Nodes /\ color[m] = "white"
                   THEN /\ color' = [color EXCEPT ![m] = "gray"]
                        /\ todo' = <<m>> \o todo
                   ELSE UNCHANGED <<color, todo>>
              /\ IF m \in Nodes /\ color[m] # "white"
                   THEN answer' = "cyclic" ELSE UNCHANGED answer
  /\ UNCHANGED <<deps, twice, job, chosen, count, order, row>>

\* The top frame's next dependency: gray closes a cycle, white is entered, what
\* is no node of the graph is passed over; after the last one the node is black.
LookAt ==
  /\ job = "query" /\ answer = None /\ todo # <<>>
  /\ LET n == Head(todo)
         left == {m \in deps[n] : <<n, m>> \notin seen}
     IN  \/ /\ left = {}
            /\ color' = [color EXCEPT ![n] = "black"]
            /\ todo' = Tail(todo)
            /\ UNCHANGED <<seen, answer>>
         \/ \E m \in left :
              /\ seen' = seen \cup {<<n, m>>}
              /\ IF m \in Nodes /\ color[m] = "white"
                   THEN /\ color' = [color EXCEPT ![m] = "gray"]
                        /\ todo' = <<m>> \o todo
                   ELSE UNCHANGED <<color, todo>>
              /\ IF m \in Nodes /\ color[m] = "gray"
                   THEN answer' = "cyclic" ELSE UNCHANGED answer
  /\ UNCHANGED <<deps, twice, job, chosen, count, order, row>>

-----------------------------------------------------------------------------
(***************************************************************************)
(* dependency_validation: Kahn's algorithm from the deliverables nothing   *)
(* depends on, and a look for names that are no deliverable's.             *)
(***************************************************************************)
StartValidate ==
  /\ job = "validate" /\ answer = None /\ order = <<>> /\ seen = {}
  /\ count' = [m \in Nodes |-> Left({}, m)]
  /\ seen' = {n \in Nodes : count'[n] = 0} \cup {Foreign}
  /\ UNCHANGED <<deps, twice, job, chosen, todo, color, order, answer, row>>

ValidateNext ==
  /\ job = "validate" /\ answer = None /\ seen \cap Nodes # {}
  /\ \E n \in seen \cap Nodes :
       /\ order' = Append(order, n)
       /\ count' = [m \in Nodes |-> count[m] - Occurs(n, m)]
       /\ seen' = (seen \ {n}) \cup {m \in deps[n] \cap Nodes : count'[m] = 0}
  /\ UNCHANGED <<deps, twice, job, chosen, todo, color, answer, row>>

Validated ==
  /\ job = "validate" /\ answer = None /\ seen = {Foreign}
  /\ answer' = IF Len(order) # Count THEN "cyclic"
               ELSE IF \E n \in Nodes : Foreign \in deps[n] THEN "invalid"
               ELSE "acyclic"
  /\ UNCHANGED <<deps, twice, job, chosen, todo, count, color, seen, order, row>>

-----------------------------------------------------------------------------
(***************************************************************************)
(* DependencyResolverAgent._topological_sort and what follows it.          *)
(***************************************************************************)
StartResolve ==
  /\ job = "resolve" /\ answer = None /\ order = <<>> /\ seen = {}
  /\ count' = [n \in Nodes |-> Cardinality(deps[n] \cap Nodes) + Cardinality(twice[n])]
  /\ seen' = {n \in Nodes : count'[n] = 0} \cup {Foreign}
  /\ UNCHANGED <<deps, twice, job, chosen, todo, color, order, answer, row>>

\* The queue is kept sorted.  One is taken off for a dependency, also where it is
\* listed twice.
ResolveNext ==
  /\ job = "resolve" /\ answer = None /\ seen \cap Nodes # {}
  /\ LET n == Least(seen \cap Nodes)
         done == {order[i] : i \in DOMAIN order} \cup {n}
         freed == {m \in Nodes \ (done \cup seen) : n \in deps[m]}
     IN  /\ order' = Append(order, n)
         /\ count' = [m \in Nodes |-> IF m \in freed THEN count[m] - 1 ELSE count[m]]
         /\ seen' = (seen \ {n}) \cup {m \in freed : count'[m] = 0}
  /\ UNCHANGED <<deps, twice, job, chosen, todo, color, answer, row>>

\* _llm_classify: any list of names, or, without a model or when the call fails,
\* the names as they came.
Resolved ==
  /\ job = "resolve" /\ answer = None /\ seen = {Foreign}
  /\ \/ /\ Len(order) = Count /\ answer' = "sorted" /\ UNCHANGED order
     \/ /\ Len(order) # Count
        /\ answer' = "unsorted" /\ order' = [n \in Nodes |-> n]
     \/ /\ Len(order) # Count
        /\ \E S \in SUBSET Any : order' = IF S = {} THEN <<>> ELSE <<Least(S)>>
        /\ answer' = "asked"
  /\ UNCHANGED <<deps, twice, job, chosen, todo, count, color, seen, row>>

-----------------------------------------------------------------------------
(***************************************************************************)
(* reorder_deliverables and select_ready_batch.                            *)
(***************************************************************************)
\* The deliverables of a project whose PM calls these tools.
AskBatch ==
  /\ job = None /\ job' = "batch"
  /\ \E d \in [Nodes -> SUBSET Any], s \in [Nodes -> Statuses] :
       /\ Cardinality({e \in Nodes \X Any : e[2] \in d[e[1]]}) <= MaxEdges
       /\ deps' = d
       /\ row' = [n \in Nodes |-> [status |-> s[n], rank |-> 0]]
  /\ UNCHANGED <<twice, chosen, todo, count, color, seen, order, answer>>

\* The last place at which a list names a deliverable.
LastAt(s, n) == CHOOSE i \in DOMAIN s :
                  s[i] = n /\ \A k \in DOMAIN s : s[k] = n => k <= i

\* Any list of names; one that is not the project's refuses them all.  The
\* others keep the execution_order they have, none counts as 0.
ReorderDeliverables ==
  /\ job = "batch" /\ answer = None
  /\ \E k \in 0..MaxNamed : \E s \in [1..k -> Any] :
       /\ \A i \in DOMAIN s : s[i] \in Nodes
       /\ todo' = s
       /\ row' = [n \in Nodes |-> IF \E i \in DOMAIN s : s[i] = n
                                   THEN [row[n] EXCEPT !.rank = LastAt(s, n) - 1]
                                   ELSE row[n]]
  /\ UNCHANGED <<deps, twice, job, chosen, count, color, seen, order, answer>>

\* What can be started and has only finished dependencies, by execution_order
\* and then by name.
SelectReadyBatch ==
  /\ job = "batch" /\ answer = None /\ answer' = "batch"
  /\ LET satisfied == {n \in Nodes : row[n].status = "done"}
         frontier == {n \in Nodes : row[n].status = "open" /\ deps[n] \subseteq satisfied}
         before(n, m) == \/ row[n].rank < row[m].rank
                         \/ row[n].rank = row[m].rank /\ n < m
     IN  \E s \in [1..Cardinality(frontier) -> frontier] :
           /\ \A i, k \in DOMAIN s : i < k => before(s[i], s[k])
           /\ order' = s
  /\ UNCHANGED <<deps, twice, job, chosen, todo, count, color, seen, row>>

-----------------------------------------------------------------------------
(***************************************************************************)
(* The focus of query_dependency_graph, and evaluate_failure_impact.       *)
(***************************************************************************)
\* Edges are followed both ways until nothing is added.
Focus ==
  /\ job = "focus" /\ answer = None
  /\ LET here == seen \cup {chosen}
         more == {m \in Any : \E n \in Nodes \cap here : m \in deps[n]}
                 \cup {n \in Nodes : deps[n] \cap here # {}}
     IN  /\ seen' = here \cup more
         /\ answer' = IF more \subseteq here THEN "focused" ELSE None
  /\ UNCHANGED <<deps, twice, job, chosen, todo, count, color, order, row>>

\* The frontier starts with the failed one; what depends on its last is blocked.
Impact ==
  /\ job = "impact" /\ answer = None
  /\ \/ /\ order = <<>> /\ todo = <<>>
        /\ todo' = <<chosen>> /\ UNCHANGED <<seen, order, answer>>
     \/ /\ todo # <<>>
        /\ LET n == Head(todo)
               more == {m \in Nodes \ (seen \cup {chosen}) : n \in deps[m]}
           IN  /\ seen' = seen \cup more
               /\ \E s \in [1..Cardinality(more) -> more] :
                    /\ {s[i] : i \in DOMAIN s} = more
                    /\ todo' = s \o Tail(todo)
               /\ order' = Append(order, n)
        /\ UNCHANGED answer
     \/ /\ order # <<>> /\ todo = <<>>
        /\ answer' = "judged" /\ UNCHANGED <<seen, order, todo>>
  /\ UNCHANGED <<deps, twice, job, chosen, count, color, row>>

Next == \/ Ask \/ NextStart \/ LookAt
        \/ AskBatch \/ ReorderDeliverables \/ SelectReadyBatch
        \/ StartValidate \/ ValidateNext \/ Validated
        \/ StartResolve \/ ResolveNext \/ Resolved
        \/ Focus \/ Impact

Spec == Init /\ [][Next]_vars

-----------------------------------------------------------------------------
\* What can be reached over an edge relation in one step or more.
Reach(R, n) == LET Upto[k \in 0..Count] ==
                     IF k = 0 THEN {m \in Any : <<n, m>> \in R}
                     ELSE LET S == Upto[k - 1]
                          IN  S \cup {m \in Any : \E p \in S : <<p, m>> \in R}
               IN  Upto[Count]

Edges == {e \in Nodes \X Any : e[2] \in deps[e[1]]}

Cyclic == \E n \in Nodes : n \in Reach(Edges, n)

(***************************************************************************)
(* The types of all but the counters and the results, which depend on the  *)
(* computation.                                                            *)
(***************************************************************************)
TypeOK ==
  /\ deps \in [Nodes -> SUBSET Any] /\ twice \in [Nodes -> SUBSET Nodes]
  /\ \A n \in Nodes : twice[n] \subseteq deps[n]
  /\ job \in Questions \cup {"batch", None}
  /\ chosen \in Any /\ (job \in {"focus", "impact"} => chosen \in Nodes)
  /\ todo \in Seq(Nodes)
  /\ color \in [Nodes -> {"white", "gray", "black"}]
  /\ row \in [Nodes -> [status: Statuses, rank: Nat]]
  /\ job = None => /\ todo = <<>> /\ seen = {} /\ order = <<>> /\ answer = None
                   /\ \A n \in Nodes : color[n] = "white" /\ twice[n] = {}

\* The search: the gray nodes are the stack, and each is reached from those
\* below it; the black ones lead to black ones only and not to themselves.  No
\* edge of a white node has been looked at, and those of a frame that have lead
\* to a black node or to the next frame.
StackIsGray == \A n \in Nodes : color[n] = "gray" <=> \E i \in DOMAIN todo : todo[i] = n
StackIsPath == \A i, j \in DOMAIN todo : i < j => /\ todo[i] # todo[j]
                                                /\ todo[i] \in Reach(Edges, todo[j])
BlackIsLeft == \A n \in Nodes : color[n] = "black" =>
                 /\ n \notin Reach(Edges, n)
                 /\ \A m \in Nodes : m \in deps[n] => color[m] = "black"
WhiteIsNew == \A n \in Nodes, m \in Any : color[n] = "white" => <<n, m>> \notin seen
LookedAt == \A i \in DOMAIN todo, m \in Nodes : <<todo[i], m>> \in seen =>
              color[m] = "black" \/ (i > 1 /\ m = todo[i - 1])
Search == /\ StackIsGray /\ StackIsPath /\ BlackIsLeft /\ WhiteIsNew
          /\ answer = None => LookedAt
          /\ answer \in {None, "cyclic", "acyclic"}
          /\ answer # None => (answer = "cyclic" <=> Cyclic)

\* What is in the result so far.
Done == {order[i] : i \in DOMAIN order}
\* The result has each node once, and before it all that must be (must[n]).
Sorted(must) ==
  /\ order \in Seq(Nodes)
  /\ \A i, j \in DOMAIN order : i # j => order[i] # order[j]
  /\ \A i \in DOMAIN order : \A n \in must[order[i]] : \E j \in 1..(i - 1) : order[j] = n

\* The deliverables that depend on one, and those that one depends on.
Users == [m \in Nodes |-> {n \in Nodes : m \in deps[n]}]
Needs == [m \in Nodes |-> deps[m] \cap Nodes]

\* Kahn's algorithm, from the deliverables nothing depends on: what waits in the
\* queue is what no deliverable that is not done depends on.
Counting ==
  /\ seen = {} => order = <<>> /\ answer = None
  /\ seen # {} => /\ Foreign \in seen /\ seen \subseteq Any
                  /\ Sorted(Users)
                  /\ count = [m \in Nodes |-> Left(Done, m)]
                  /\ \A m \in Nodes : m \in seen <=> m \notin Done /\ Users[m] \subseteq Done
  /\ answer # None => (answer = "cyclic" <=> Cyclic)

\* The resolver, from those that depend on nothing; where names are listed twice
\* less comes into the queue than could.
Resolving ==
  /\ seen = {} => order = <<>> /\ answer = None
  /\ seen # {} => Foreign \in seen /\ seen \subseteq Any
  /\ seen # {} /\ answer \in {None, "sorted"} =>
       /\ Sorted(Needs) /\ seen \cap Done = {}
       /\ \A m \in Nodes \ Done :
            IF m \in seen THEN Needs[m] \subseteq Done
            ELSE /\ count[m] = Cardinality(Needs[m] \ Done) + Cardinality(twice[m])
                 /\ count[m] # 0
  /\ answer = "sorted" => Len(order) = Count
  /\ answer \notin {None, "sorted"} => Cyclic \/ \E n \in Nodes : twice[n] # {}

\* The rows have the places of the last order.
Ranked ==
  /\ \A i \in DOMAIN todo : row[todo[i]].rank = LastAt(todo, todo[i]) - 1

\* What is around a deliverable.
Around == Reach(Edges \cup {<<e[2], e[1]>> : e \in Edges}, chosen) \cup {chosen}
Focusing == seen \subseteq Around /\ (answer # None => seen = Around)

\* What a failure blocks: what is reached has been or will be looked at.
Blocked == {n \in Nodes \ {chosen} : chosen \in Reach(Edges, n)}
Judging ==
  /\ seen \subseteq Blocked /\ order \in Seq(Nodes)
  /\ order = <<>> => seen = {} /\ (todo = <<>> \/ todo = <<chosen>>)
  /\ order # <<>> =>
       /\ \A n \in seen \cup {chosen} : n \in Done \/ \E i \in DOMAIN todo : todo[i] = n
       /\ \A i \in DOMAIN todo : todo[i] \in seen \cup {chosen}
       /\ \A m \in Done : \A n \in Nodes : m \in deps[n] => n \in seen \cup {chosen}
  /\ answer # None => seen = Blocked

(***************************************************************************)
(* Both cycle detectors are right about every graph, whatever order they   *)
(* visit it in, and agree except that one also rejects unknown names; the  *)
(* resolver's order has every deliverable once and after what it depends   *)
(* on, and it falls back to another only for a cycle or a name listed      *)
(* twice; a batch has exactly what is open and waits for nothing, and      *)
(* keeps to the last order that the PM asked for wherever that names two   *)
(* of it; focus is the connected part around a deliverable; and what a     *)
(* failure blocks is exactly what depends on it, directly or not.          *)
(***************************************************************************)
AnswersAreRight ==
  LET doubled == \E n \in Nodes : twice[n] # {}
      both == Edges \cup {<<e[2], e[1]>> : e \in Edges}
      at(n) == CHOOSE i \in DOMAIN order : order[i] = n
  IN  /\ answer # None /\ job \in {"query", "validate"} => (answer = "cyclic" <=> Cyclic)
      /\ job = "resolve" /\ answer = "sorted" =>
           /\ Len(order) = Count /\ {order[i] : i \in DOMAIN order} = Nodes
           /\ \A e \in Edges : e[2] \in Nodes => at(e[2]) < at(e[1])
      /\ job = "resolve" /\ answer \in {"unsorted", "asked"} => Cyclic \/ doubled
      /\ job = "batch" /\ answer # None =>
           /\ {order[i] : i \in DOMAIN order} =
                {n \in Nodes : /\ row[n].status = "open"
                               /\ \A m \in deps[n] : m # Foreign /\ row[m].status = "done"}
           /\ \A i, k \in DOMAIN order :
                LET named == {todo[p] : p \in DOMAIN todo}
                IN  i < k /\ {order[i], order[k]} \subseteq named =>
                      LastAt(todo, order[i]) < LastAt(todo, order[k])
      /\ job = "focus" /\ answer # None => seen = Reach(both, chosen) \cup {chosen}
      /\ job = "impact" /\ answer # None =>
           seen = {n \in Nodes \ {chosen} : chosen \in Reach(Edges, n)}
=============================================================================
