---------------------------- MODULE DirectorTurns ----------------------------
(***************************************************************************)
(* The turns of the Director: run_director_turn as a job of a chat message *)
(* or of the queue of a project, the gateway's requests that enqueue it,   *)
(* and the formation state that every turn first looks at.                 *)
(*                                                                         *)
(* A worker runs several turns as coroutines that share its registry of    *)
(* tool contexts and the ADK sessions of the database.  Every call of the  *)
(* database, the session service, the model and Redis is an await: turns   *)
(* interleave there, fail there, are cancelled there, and the worker dies  *)
(* there.                                                                  *)
(***************************************************************************)
EXTENDS Naturals

CONSTANTS Chats,        \* rows of chats, and their sessions
          Settings,     \* the chat whose session is the formation's as well
          Messages,     \* rows of chat_messages with the role USER
          Projects,     \* whose queue items cron has the Director evaluate
          Briefs,       \* POST /projects
          Turns,        \* coroutines of the worker
          Nothing,      \* no job, no chat
          MaxDeaths     \* bound: deaths of the worker

ASSUME TurnAssumption ==
  /\ Settings \in Chats
  /\ Chats \cap Projects = {}
  /\ Messages \cap (Projects \cup Briefs) = {} /\ Projects \cap Briefs = {}
  /\ Nothing \notin Chats \cup Messages \cup Projects \cup Briefs
  /\ MaxDeaths \in Nat

VARIABLES chats,      \* the rows that exist
          message,    \* each message's place on its way to the queue
          chatOf,     \* its chat
          queued,     \* jobs of run_director_turn that wait
          turn,       \* each turn's place, job and what it has read
          registry,   \* _REGISTRY: ids that have a tool context
          adk,        \* ADK sessions: none, or with or without _session_id
          formed,     \* user:formation_status is there
          reply,      \* number of messages of the Director for each message
          deaths,
          shared,     \* history: turns that overlapped one of their session
          repeated,   \* history: messages whose turn failed after its reply
          unfound,    \* history: messages whose turn ended in NotFoundError
          lost        \* history: messages that an outside failure cut off

vars == <<chats, message, chatOf, queued, turn, registry, adk, formed, reply,
          deaths, shared, repeated, unfound, lost>>

Jobs == Messages \cup Projects \cup Briefs
Sessions == Chats \cup Projects

NoTurn == [at |-> "idle", job |-> Nothing, id |-> Nothing, found |-> FALSE]

SessionOf(j) == IF j \in Messages THEN chatOf[j] ELSE j
Live == {u \in Turns : turn[u].at # "idle"}
Running(j) == \E u \in Live : turn[u].job = j

Init == /\ chats = {}
        /\ message = [m \in Messages |-> "NONE"]
        /\ chatOf = [m \in Messages |-> Nothing]
        /\ queued = {}
        /\ turn = [u \in Turns |-> NoTurn]
        /\ registry = {}
        /\ adk = [s \in Sessions |-> "NONE"]
        /\ formed = FALSE
        /\ reply = [m \in Messages |-> 0]
        /\ deaths = 0
        /\ shared = {} /\ repeated = {} /\ unfound = {} /\ lost = {}

-----------------------------------------------------------------------------
(***************************************************************************)
(* The gateway and cron.                                                   *)
(***************************************************************************)
turnVars == <<turn, registry, adk, formed, deaths, shared, repeated, unfound>>

\* create_chat, or _ensure_well_known_session: of two requests that insert the
\* same row one meets the unique constraint and takes the other's.
EnsureChat(c) ==
  /\ c \notin chats
  /\ chats' = chats \cup {c}
  /\ UNCHANGED <<message, chatOf, queued, reply, lost, turnVars>>

\* send_message commits the row,
SaveMessage(m) ==
  /\ message[m] = "NONE"
  /\ \E c \in chats : chatOf' = [chatOf EXCEPT ![m] = c]
  /\ message' = [message EXCEPT ![m] = "SAVED"]
  /\ UNCHANGED <<chats, queued, reply, lost, turnVars>>

\* and enqueues its turn,
EnqueueMessage(m) ==
  /\ message[m] = "SAVED"
  /\ message' = [message EXCEPT ![m] = "SENT"]
  /\ queued' = queued \cup {m}
  /\ UNCHANGED <<chats, chatOf, reply, lost, turnVars>>

\* unless Redis fails or the gateway dies in between.
LoseMessage(m) ==
  /\ message[m] = "SAVED"
  /\ message' = [message EXCEPT ![m] = "SENT"]
  /\ lost' = lost \cup {m}
  /\ UNCHANGED <<chats, chatOf, queued, reply, turnVars>>

\* process_director_queue, whether or not the last turn is over.
EnqueueQueueTurn(p) ==
  /\ p \notin queued
  /\ queued' = queued \cup {p}
  /\ UNCHANGED <<chats, message, chatOf, reply, lost, turnVars>>

\* POST /projects.  The job has the arguments workflow_type and name, which
\* run_director_turn does not take: the call fails before its first line.
SubmitBrief(b) ==
  /\ b \notin queued
  /\ queued' = queued \cup {b}
  /\ UNCHANGED <<chats, message, chatOf, reply, lost, turnVars>>

RejectBrief(b) ==
  /\ b \in queued
  /\ queued' = queued \ {b}
  /\ UNCHANGED <<chats, message, chatOf, reply, lost, turnVars>>

-----------------------------------------------------------------------------
(***************************************************************************)
(* The turn.  A step is what happens up to the next await.                 *)
(***************************************************************************)
gatewayVars == <<chats, message, chatOf>>

Goes(u, at) == turn' = [turn EXCEPT ![u].at = at]

\* A job begins by registering its context: for a chat under the row's id.
Start(u) ==
  /\ turn[u].at = "idle"
  /\ \E j \in queued \ Briefs :
       LET id == IF j \in Messages THEN <<"id", chatOf[j]>> ELSE <<"session", j>>
           same == {v \in Live : SessionOf(turn[v].job) = SessionOf(j)}
       IN /\ queued' = queued \ {j}
          /\ turn' = [turn EXCEPT ![u] =
                        [at |-> "load", job |-> j, id |-> id, found |-> FALSE]]
          /\ registry' = registry \cup {id}
          /\ shared' = (shared \ {u}) \cup same \cup {v \in {u} : same # {}}
  /\ UNCHANGED <<gatewayVars, adk, formed, reply, deaths, repeated, unfound,
                 lost>>

\* Mutant: the context is left under the id of the chat as well.
LoadChatKeepsId(u) ==
  /\ turn[u].at = "load" /\ turn[u].job \in Messages
  /\ LET id == <<"session", SessionOf(turn[u].job)>>
     IN /\ registry' = registry \cup {id}
        /\ turn' = [turn EXCEPT ![u].at = "status", ![u].id = id]
  /\ UNCHANGED <<gatewayVars, queued, adk, formed, reply, deaths,
                 shared, repeated, unfound, lost>>

\* Chat mode reads the message and the chat, and registers under session_id.
LoadChat(u) ==
  /\ turn[u].at = "load" /\ turn[u].job \in Messages
  /\ LET id == <<"session", SessionOf(turn[u].job)>>
     IN /\ registry' = (registry \ {turn[u].id}) \cup {id}
        /\ turn' = [turn EXCEPT ![u].at = "status", ![u].id = id]
  /\ UNCHANGED <<gatewayVars, queued, adk, formed, reply, deaths, shared,
                 repeated, unfound, lost>>

Finish(u) == /\ turn' = [turn EXCEPT ![u] = NoTurn]
             /\ registry' = registry \ {turn[u].id}

\* Queue mode reads the pending items; without one the turn is over.
LoadItems(u) ==
  /\ turn[u].at = "load" /\ turn[u].job \in Projects
  /\ \/ Goes(u, "status") /\ UNCHANGED registry
     \/ Finish(u)
  /\ UNCHANGED <<gatewayVars, queued, adk, formed, reply, deaths, shared,
                 repeated, unfound, lost>>

afterLoad == <<gatewayVars, queued, registry, reply, deaths, shared, repeated,
               unfound, lost>>

\* ensure_formation_state, first reading the session,
ReadFormation(u) ==
  /\ turn[u].at = "status"
  /\ Goes(u, IF adk[Settings] = "NONE" THEN "make"
             ELSE IF formed THEN "open" ELSE "reread")
  /\ UNCHANGED <<afterLoad, adk, formed>>

Conflict(u) == /\ Goes(u, "conflict")
               /\ UNCHANGED <<adk, formed>>

\* creating it where there is none: create_session refuses an id that exists;
MakeFormation(u) ==
  /\ turn[u].at = "make"
  /\ \/ /\ adk[Settings] = "NONE"
        /\ adk' = [adk EXCEPT ![Settings] = "BARE"]
        /\ Goes(u, IF formed THEN "open" ELSE "reread")
        /\ UNCHANGED formed
     \/ adk[Settings] # "NONE" /\ Conflict(u)
  /\ UNCHANGED afterLoad

\* _write_state: read it again,
RereadFormation(u) ==
  /\ turn[u].at = "reread"
  /\ turn' = [turn EXCEPT ![u].at = IF adk[Settings] = "NONE" THEN "write" ELSE "erase",
                          ![u].found = adk[Settings] = "READY"]
  /\ UNCHANGED <<afterLoad, adk, formed>>

\* delete it,
EraseFormation(u) ==
  /\ turn[u].at = "erase"
  /\ adk' = [adk EXCEPT ![Settings] = "NONE"]
  /\ Goes(u, "write")
  /\ UNCHANGED <<afterLoad, formed>>

\* and create it with the state it had and the status PENDING.
WriteFormation(u) ==
  /\ turn[u].at = "write"
  /\ \/ /\ adk[Settings] = "NONE"
        /\ adk' = [adk EXCEPT ![Settings] = IF turn[u].found THEN "READY" ELSE "BARE"]
        /\ formed' = TRUE
        /\ turn' = [turn EXCEPT ![u].at = "open", ![u].found = FALSE]
     \/ adk[Settings] # "NONE" /\ Conflict(u)
  /\ UNCHANGED afterLoad

\* The turn's own session is there to resume if it carries _session_id.
OpenSession(u) ==
  /\ turn[u].at = "open"
  /\ Goes(u, IF adk[SessionOf(turn[u].job)] = "READY" THEN "run" ELSE "create")
  /\ UNCHANGED <<afterLoad, adk, formed>>

\* Without _session_id the session is "created" again, which is refused.
CreateSession(u) ==
  /\ turn[u].at = "create"
  /\ LET s == SessionOf(turn[u].job)
     IN \/ /\ adk[s] = "NONE"
           /\ adk' = [adk EXCEPT ![s] = "READY"]
           /\ Goes(u, "run")
           /\ UNCHANGED formed
        \/ adk[s] # "NONE" /\ Conflict(u)
  /\ UNCHANGED afterLoad

\* The agent's turn, in which its tools look up the context.
RunDirector(u) ==
  /\ turn[u].at = "run"
  /\ Goes(u, IF turn[u].job \in Messages THEN "persist" ELSE "publish")
  /\ UNCHANGED <<afterLoad, adk, formed>>

\* Mutant: an empty response is not stored.
PersistText(u) ==
  /\ turn[u].at = "persist"
  /\ \/ reply' = [reply EXCEPT ![turn[u].job] = @ + 1]
     \/ UNCHANGED reply
  /\ Goes(u, "publish")
  /\ UNCHANGED <<gatewayVars, queued, registry, adk, formed, deaths, shared,
                 repeated, unfound, lost>>

\* Chat mode stores the response, a placeholder if it is empty.
PersistResponse(u) ==
  /\ turn[u].at = "persist"
  /\ reply' = [reply EXCEPT ![turn[u].job] = @ + 1]
  /\ Goes(u, "publish")
  /\ UNCHANGED <<gatewayVars, queued, registry, adk, formed, deaths, shared,
                 repeated, unfound, lost>>

\* The audit event, and the context is unregistered.
PublishCompleted(u) ==
  /\ turn[u].at = "publish"
  /\ Finish(u)
  /\ UNCHANGED <<gatewayVars, queued, adk, formed, reply, deaths, shared,
                 repeated, unfound, lost>>

-----------------------------------------------------------------------------
(***************************************************************************)
(* Failures.                                                               *)
(***************************************************************************)
\* Any step may raise: the database, the session service, the model, Redis.
\* When it is the audit event, the response is there already.
StepFails(u) ==
  /\ turn[u].at \notin {"idle", "conflict", "fail"}
  /\ Goes(u, "fail")
  /\ repeated' = repeated \cup {m \in Messages : m = turn[u].job /\ reply[m] > 0}
  /\ UNCHANGED <<gatewayVars, queued, registry, adk, formed, reply, deaths,
                 shared, unfound, lost>>

\* The handler stores the error as the answer of a chat turn, which may fail
\* in its turn, and the context is unregistered.
PersistError(u) ==
  /\ turn[u].at \in {"conflict", "fail"}
  /\ \/ /\ turn[u].job \in Messages
        /\ \/ /\ reply' = [reply EXCEPT ![turn[u].job] = @ + 1]
              /\ UNCHANGED lost
           \/ /\ lost' = lost \cup {turn[u].job}
              /\ UNCHANGED reply
     \/ turn[u].job \notin Messages /\ UNCHANGED <<reply, lost>>
  /\ Finish(u)
  /\ UNCHANGED <<gatewayVars, queued, adk, formed, deaths, shared, repeated,
                 unfound>>

\* The Director is built from the definition files of the moment.  Without its
\* own the build raises NotFoundError, which passes the handler: no error is
\* stored.  (The rows that a turn loads are not deleted by anybody.)
NotFound(u) ==
  /\ turn[u].at = "open"
  /\ Finish(u)
  /\ unfound' = unfound \cup {m \in Messages : m = turn[u].job}
  /\ UNCHANGED <<gatewayVars, queued, adk, formed, reply, deaths, shared,
                 repeated, lost>>

\* ARQ cancels the job at its timeout: the context is unregistered, but a
\* cancellation is no Exception, and the job is not run again.
CancelTurn(u) ==
  /\ turn[u].at # "idle"
  /\ Finish(u)
  /\ lost' = lost \cup {m \in Messages : m = turn[u].job /\ reply[m] = 0}
  /\ UNCHANGED <<gatewayVars, queued, adk, formed, reply, deaths, shared,
                 repeated, unfound>>

\* Mutant: what a worker had begun is not run again.
WorkerDiesForgetting ==
  /\ deaths < MaxDeaths /\ Live # {}
  /\ deaths' = deaths + 1
  /\ turn' = [u \in Turns |-> NoTurn]
  /\ registry' = {}
  /\ UNCHANGED <<gatewayVars, queued, adk, formed, reply, shared, repeated,
                 unfound, lost>>

\* The worker dies and another takes over: the registry is empty and ARQ runs
\* the jobs again, whatever they had done.
WorkerDies ==
  /\ deaths < MaxDeaths /\ Live # {}
  /\ deaths' = deaths + 1
  /\ queued' = queued \cup {turn[u].job : u \in Live}
  /\ turn' = [u \in Turns |-> NoTurn]
  /\ registry' = {}
  /\ repeated' = repeated \cup {m \in Messages : Running(m) /\ reply[m] > 0}
  /\ UNCHANGED <<gatewayVars, adk, formed, reply, shared, unfound, lost>>

TurnStep(u) ==
  \/ LoadChat(u) \/ LoadItems(u) \/ ReadFormation(u) \/ MakeFormation(u)
  \/ RereadFormation(u) \/ EraseFormation(u) \/ WriteFormation(u)
  \/ OpenSession(u) \/ CreateSession(u) \/ RunDirector(u) \/ PersistResponse(u)
  \/ PublishCompleted(u) \/ PersistError(u)

Next == \/ \E c \in Chats : EnsureChat(c)
        \/ \E m \in Messages : SaveMessage(m) \/ EnqueueMessage(m) \/ LoseMessage(m)
        \/ \E p \in Projects : EnqueueQueueTurn(p)
        \/ \E b \in Briefs : SubmitBrief(b) \/ RejectBrief(b)
        \/ \E u \in Turns : Start(u) \/ TurnStep(u) \/ StepFails(u)
                           \/ NotFound(u) \/ CancelTurn(u)
        \/ WorkerDies

Spec == Init /\ [][Next]_vars

\* A request goes on after its commit, a running turn goes on, and the worker
\* takes a message's job from the queue, also when other jobs keep its slots
\* busy now and then.
StartMessage(m) == \E u \in Turns : Start(u) /\ turn'[u].job = m

Fairness == /\ \A m \in Messages : /\ WF_vars(EnqueueMessage(m) \/ LoseMessage(m))
                                   /\ SF_vars(StartMessage(m))
            /\ \A u \in Turns : WF_vars(TurnStep(u))

LiveSpec == Spec /\ Fairness

-----------------------------------------------------------------------------
Keys == {"id", "session"} \X Sessions

TypeOK ==
  /\ chats \subseteq Chats
  /\ message \in [Messages -> {"NONE", "SAVED", "SENT"}]
  /\ chatOf \in [Messages -> Chats \cup {Nothing}]
  /\ \A m \in Messages : message[m] # "NONE" => chatOf[m] \in chats
  /\ queued \subseteq Jobs
  /\ turn \in [Turns -> [at: {"idle", "load", "status", "make", "reread", "erase",
                              "write", "open", "create", "run", "persist",
                              "publish", "conflict", "fail"},
                         job: Messages \cup Projects \cup {Nothing},
                         id: Keys \cup {Nothing},
                         found: BOOLEAN]]
  /\ \A u \in Live : /\ turn[u].job # Nothing
                     /\ turn[u].job \in Messages => message[turn[u].job] = "SENT"
                     /\ turn[u].at = "persist" => turn[u].job \in Messages
  /\ \A m \in queued \cap Messages : message[m] = "SENT"
  /\ registry \subseteq Keys
  /\ adk \in [Sessions -> {"NONE", "BARE", "READY"}]
  /\ formed \in BOOLEAN
  /\ reply \in [Messages -> Nat]
  /\ deaths \in 0..MaxDeaths
  /\ shared \subseteq Turns
  /\ repeated \subseteq Messages /\ unfound \subseteq Messages /\ lost \subseteq Messages

(***************************************************************************)
(* The registry of tool contexts: a turn that overlaps no other of its     *)
(* session finds its context until it has ended, also while turns of other *)
(* sessions come, go and fail; and no context outlives its turns.          *)
(***************************************************************************)
RegistryExact ==
  /\ \A u \in Live \ shared : turn[u].id \in registry
  /\ \A k \in registry : \E u \in Live : turn[u].id = k

(***************************************************************************)
(* A message is answered once: never twice, and when its turn is over it   *)
(* has its answer, be it the error; unless the turn failed or ran again    *)
(* after it had stored the answer (a second answer is not caught then), or *)
(* a failure of the database or of Redis, the timeout, or a NotFoundError  *)
(* ended it without one.                                                   *)
(***************************************************************************)
Over(m) == message[m] = "SENT" /\ m \notin queued /\ ~Running(m)

AnsweredOnce ==
  \A m \in Messages \ repeated :
    /\ reply[m] <= 1
    /\ Over(m) /\ m \notin lost \cup unfound => reply[m] = 1

(***************************************************************************)
(* A message that was stored is answered in the end, through crashes of    *)
(* the worker and failures of the turn, unless it was lost on the way or   *)
(* its turn ended in NotFoundError.                                        *)
(***************************************************************************)
MessageAnswered ==
  \A m \in Messages : message[m] = "SAVED" ~> (reply[m] > 0 \/ m \in lost \cup unfound)
=============================================================================
