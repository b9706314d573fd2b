------------------------------ MODULE EventStream ------------------------------
(***************************************************************************)
(* What one job publishes about its agents.  EventPublisher turns each ADK *)
(* event into at most one entry of the workflow's stream, checks the state *)
(* keys that an agent writes against its tier, and keeps violations until  *)
(* the agents have ended.                                                  *)
(*                                                                         *)
(* A workflow and a work session translate their events and publish the    *)
(* violations also when the context is full; a Director's turn does        *)
(* neither.  An entry that cannot be written fails the job.  The toolset   *)
(* would add its denials to the violations, but AgentRegistry takes the    *)
(* tools of a role from it and never asks it for an agent's.               *)
(***************************************************************************)
EXTENDS Naturals, Sequences, FiniteSets

CONSTANTS Authors,     \* agents of the job
          TierOf,      \* author -> tier (determine_agent_tier)
          MaxEvents    \* events of the agents

Rank == [WORKER |-> 0, PM |-> 1, DIRECTOR |-> 2]
StreamAssumption == TierOf \in [Authors -> DOMAIN Rank] /\ MaxEvents \in Nat

VARIABLES job,        \* "workflow", "session" or "turn"
          state,      \* of the job
          left,       \* events still to come
          seen,       \* _seen_agents
          waiting,    \* _pending_violations, in order
          sending,    \* the copy that is being published
          stream,     \* the entries, in order
          found       \* history: number of violations found

vars == <<job, state, left, seen, waiting, sending, stream, found>>

Entry(type, a) == [type |-> type, author |-> a]

Init == /\ job \in {"workflow", "session", "turn"}
        /\ state = "running" /\ left = MaxEvents
        /\ seen = {} /\ waiting = <<>> /\ sending = <<>> /\ stream = <<>>
        /\ found = 0

-----------------------------------------------------------------------------
\* TIER_PREFIX_WRITE_ACCESS, for the prefixes that a tier may lack.
Required == [director |-> "DIRECTOR", pm |-> "PM", worker |-> "WORKER"]

Unauthorized(a, keys) ==
  {k \in keys \cap DOMAIN Required : Rank[TierOf[a]] < Rank[Required[k]]}

\* An event: what it says first, the keys of its delta, whether it is final.
Shapes == [part: {"error", "call", "result", "text"},
           keys: {{}, {"other"}, {"pm", "other"}, {"director"}},
           final: BOOLEAN]

\* The type of its entry; the order of the tests matters.
TypeOf(a, e) == CASE e.part = "error"  -> "ERROR"
                  [] e.part = "call"   -> "TOOL_CALLED"
                  [] e.part = "result" -> "TOOL_RESULT"
                  [] OTHER -> IF e.keys # {} THEN "STATE_UPDATED"
                              ELSE IF e.final THEN "AGENT_COMPLETED"
                              ELSE IF a \notin seen THEN "AGENT_STARTED"
                              ELSE "none"

Publish(type, a) == stream' = IF type = "none" THEN stream
                              ELSE Append(stream, Entry(type, a))

\* Mutant: only the agent that has started last is remembered.
SeenLast(type, a) == IF type = "AGENT_STARTED" THEN {a}
                     ELSE IF type = "AGENT_COMPLETED" THEN seen \ {a} ELSE seen

Seen(type, a) == IF type = "AGENT_STARTED" THEN seen \cup {a}
                 ELSE IF type = "AGENT_COMPLETED" THEN seen \ {a} ELSE seen

\* An agent yields an event; only deltas that come to the third test are
\* checked.  The Director's turn looks at its text alone.
Translate ==
  /\ state = "running" /\ left > 0 /\ left' = left - 1
  /\ \E a \in Authors, e \in Shapes :
       IF job = "turn" THEN UNCHANGED <<seen, waiting, stream, found>>
       ELSE LET type == TypeOf(a, e)
                foul == type = "STATE_UPDATED" /\ Unauthorized(a, e.keys) # {}
            IN  /\ Publish(type, a)
                /\ seen' = Seen(type, a)
                /\ waiting' = IF foul THEN Append(waiting, Entry("STATE_AUTH", a))
                              ELSE waiting
                /\ found' = IF foul THEN found + 1 ELSE found
  /\ UNCHANGED <<job, state, sending>>

\* The agents end, or their context is full.
EndAgents ==
  /\ state = "running"
  /\ IF job = "turn"
       THEN state' = "done" /\ UNCHANGED <<waiting, sending>>
       ELSE /\ state' = "flushing"
            /\ sending' = waiting /\ waiting' = <<>>
  /\ UNCHANGED <<job, left, seen, stream, found>>

\* Mutant: the violations of one agent are reported once.
FlushFirst ==
  /\ state = "flushing"
  /\ IF sending = <<>>
       THEN state' = "done" /\ UNCHANGED <<sending, stream>>
       ELSE /\ stream' = Append(stream, Head(sending))
            /\ sending' = SelectSeq(Tail(sending), LAMBDA e : e # Head(sending))
            /\ UNCHANGED state
  /\ UNCHANGED <<job, left, seen, waiting, found>>

Flush ==
  /\ state = "flushing"
  /\ IF sending = <<>>
       THEN state' = "done" /\ UNCHANGED <<sending, stream>>
       ELSE /\ stream' = Append(stream, Head(sending))
            /\ sending' = Tail(sending) /\ UNCHANGED state
  /\ UNCHANGED <<job, left, seen, waiting, found>>

\* An agent raises, Redis cannot be reached, or the worker dies.
Break ==
  /\ state \in {"running", "flushing"} /\ state' = "failed"
  /\ UNCHANGED <<job, left, seen, waiting, sending, stream, found>>

Next == Translate \/ EndAgents \/ Flush \/ Break

Spec == Init /\ [][Next]_vars

-----------------------------------------------------------------------------
Violation == [type: {"STATE_AUTH"}, author: Authors]
Published == Violation \cup
  [type: {"ERROR", "TOOL_CALLED", "TOOL_RESULT", "STATE_UPDATED", "AGENT_STARTED",
          "AGENT_COMPLETED"},
   author: Authors]

(***************************************************************************)
(* The buffer and its copy have violations only, the stream all entries.   *)
(***************************************************************************)
TypeOK ==
  /\ job \in {"workflow", "session", "turn"}
  /\ state \in {"running", "flushing", "done", "failed"}
  /\ left \in 0..MaxEvents
  /\ seen \subseteq Authors
  /\ waiting \in Seq(Violation) /\ sending \in Seq(Violation)
  /\ stream \in Seq(Published)
  /\ found \in Nat

\* Where the stream has a violation.
Reported(s) == {i \in DOMAIN s : s[i].type = "STATE_AUTH"}

\* A violation found is in the buffer, then in the copy, then in the stream.
EachIsSomewhere ==
  /\ state \in {"flushing", "done"} \/ job = "turn" => waiting = <<>>
  /\ state \in {"running", "done"} => sending = <<>>
  /\ state \in {"running", "flushing", "done"} =>
       Cardinality(Reported(stream)) + Len(waiting) + Len(sending) = found

(***************************************************************************)
(* When a workflow or a work session has gone through its agents, each     *)
(* violation found is in the stream once (flush_violations).               *)
(***************************************************************************)
ViolationsPublished ==
  state = "done" /\ job # "turn" => Cardinality(Reported(stream)) = found

\* An agent that is started has said so, and has not ended since.
SeenHaveStarted ==
  \A a \in Authors, i \in DOMAIN stream :
    stream[i] = Entry("AGENT_STARTED", a) =>
      \/ a \in seen
      \/ \E k \in DOMAIN stream : k > i /\ stream[k] = Entry("AGENT_COMPLETED", a)

(***************************************************************************)
(* A reader of the stream sees an agent start once for each run of it:     *)
(* between two AGENT_STARTED of one agent there is an AGENT_COMPLETED of   *)
(* it, however the events of the agents mix (translate, _seen_agents).     *)
(***************************************************************************)
StartedOnce ==
  \A i, j \in DOMAIN stream :
    /\ i < j /\ stream[i].type = "AGENT_STARTED" /\ stream[j] = stream[i]
    => \E k \in DOMAIN stream :
         /\ i < k /\ k < j
         /\ stream[k] = Entry("AGENT_COMPLETED", stream[i].author)
=============================================================================
