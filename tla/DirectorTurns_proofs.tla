-------------------------- MODULE DirectorTurns_proofs --------------------------
(***************************************************************************)
(* Theorems about DirectorTurns, for any sets of chats, messages, projects *)
(* and coroutines and any number of deaths of the worker: its types, that  *)
(* the registry of tool contexts is that of the turns that run, and that a *)
(* message is answered once.                                               *)
(***************************************************************************)
EXTENDS DirectorTurns, TLAPS

-----------------------------------------------------------------------------
(***************************************************************************)
(* Types.                                                                  *)
(***************************************************************************)
Places == {"idle", "load", "status", "make", "reread", "erase", "write", "open",
           "create", "run", "persist", "publish", "conflict", "fail"}

TurnRecords == [at: Places, job: Messages \cup Projects \cup {Nothing},
                id: Keys \cup {Nothing}, found: BOOLEAN]

\* A turn that runs has a job, a sent message if it is one of a chat.
Employed(u) == turn[u].at # "idle"
               => /\ turn[u].job \in Messages \cup Projects
                  /\ turn[u].job \in Messages => message[turn[u].job] = "SENT"
                  /\ turn[u].at = "persist" => turn[u].job \in Messages

TurnsOK == turn \in [Turns -> TurnRecords] /\ \A u \in Turns : Employed(u)

\* The rest of the types: of what the gateway keeps, and of the worker's state.
GatewayOK == /\ chats \subseteq Chats
             /\ message \in [Messages -> {"NONE", "SAVED", "SENT"}]
             /\ chatOf \in [Messages -> Chats \cup {Nothing}]
             /\ \A m \in Messages : message[m] # "NONE" => chatOf[m] \in chats
             /\ queued \subseteq Jobs
             /\ \A m \in queued \cap Messages : message[m] = "SENT"

WorkerOK == /\ registry \subseteq Keys
            /\ adk \in [Sessions -> {"NONE", "BARE", "READY"}]
            /\ formed \in BOOLEAN
            /\ reply \in [Messages -> Nat]
            /\ deaths \in 0..MaxDeaths
            /\ shared \subseteq Turns
            /\ repeated \subseteq Messages
            /\ unfound \subseteq Messages /\ lost \subseteq Messages

\* These are the types.
LEMMA TypeParts == /\ TypeOK <=> TurnsOK /\ GatewayOK /\ WorkerOK
                   /\ TypeOK' <=> TurnsOK' /\ GatewayOK' /\ WorkerOK'
<1>0. Nothing \notin Messages \cup Projects
  BY TurnAssumption DEF TurnAssumption
<1> QED
  BY <1>0 DEF TypeOK, TurnsOK, GatewayOK, WorkerOK, TurnRecords, Places, Employed, Live

\* A turn goes on to another place, with the job and the id it has.
LEMMA MoveType ==
  ASSUME TurnsOK, NEW u \in Turns, NEW at \in Places, turn[u].at # "idle",
         turn' = [turn EXCEPT ![u].at = at], UNCHANGED message,
         at = "persist" => turn[u].job \in Messages
  PROVE  TurnsOK'
<1>1. turn' \in [Turns -> TurnRecords]
  BY DEF TurnsOK, TurnRecords, Places
<1>2. ASSUME NEW v \in Turns PROVE Employed(v)'
  BY DEF TurnsOK, TurnRecords, Employed
<1> QED
  BY <1>1, <1>2 DEF TurnsOK

\* A turn ends.
LEMMA FinishType ==
  ASSUME TurnsOK, NEW u \in Turns, turn' = [turn EXCEPT ![u] = NoTurn], UNCHANGED message
  PROVE  TurnsOK'
<1>1. NoTurn \in TurnRecords /\ NoTurn.at = "idle"
  BY DEF NoTurn, TurnRecords, Places
<1>2. turn' \in [Turns -> TurnRecords]
  BY <1>1 DEF TurnsOK
<1>3. ASSUME NEW v \in Turns PROVE Employed(v)'
  BY <1>1 DEF TurnsOK, Employed
<1> QED
  BY <1>2, <1>3 DEF TurnsOK

\* Initially nothing is stored and no turn runs.
LEMMA TypeInit == Init => TypeOK
<1> SUFFICES ASSUME Init PROVE TurnsOK /\ GatewayOK /\ WorkerOK
  BY TypeParts
<1>1. NoTurn \in TurnRecords /\ NoTurn.at = "idle"
  BY DEF NoTurn, TurnRecords, Places
<1>2. TurnsOK
  BY <1>1 DEF Init, TurnsOK, Employed
<1>3. GatewayOK
  <2>1. message \in [Messages -> {"NONE", "SAVED", "SENT"}]
    BY DEF Init
  <2>2. chatOf \in [Messages -> Chats \cup {Nothing}]
    BY DEF Init
  <2>3. \A m \in Messages : message[m] = "NONE"
    BY DEF Init
  <2> QED
    BY <2>1, <2>2, <2>3 DEF Init, GatewayOK
<1>4. reply \in [Messages -> Nat] /\ deaths \in 0..MaxDeaths
  BY TurnAssumption DEF Init, TurnAssumption
<1>5. WorkerOK
  BY <1>4 DEF Init, WorkerOK
<1> QED
  BY <1>2, <1>3, <1>5

\* The gateway and cron.
LEMMA TypeGateway ==
  ASSUME TypeOK,
         \/ \E c \in Chats : EnsureChat(c)
         \/ \E m \in Messages : SaveMessage(m) \/ EnqueueMessage(m) \/ LoseMessage(m)
         \/ \E p \in Projects : EnqueueQueueTurn(p)
         \/ \E b \in Briefs : SubmitBrief(b) \/ RejectBrief(b)
  PROVE  TypeOK'
<1>0. TurnsOK /\ GatewayOK /\ WorkerOK
  BY TypeParts
<1>a. Messages \cap (Projects \cup Briefs) = {}
  BY TurnAssumption DEF TurnAssumption
<1>1. ASSUME NEW c \in Chats, EnsureChat(c) PROVE TypeOK'
  BY <1>0, <1>1, TypeParts
  DEF EnsureChat, turnVars, TurnsOK, Employed, GatewayOK, WorkerOK
<1>2. ASSUME NEW m \in Messages, SaveMessage(m) PROVE TypeOK'
  <2>1. GatewayOK'
    BY <1>0, <1>2 DEF SaveMessage, GatewayOK
  <2>2. TurnsOK' /\ WorkerOK'
    BY <1>0, <1>2 DEF SaveMessage, GatewayOK, turnVars, TurnsOK, Employed, WorkerOK
  <2> QED
    BY <2>1, <2>2, TypeParts
<1>3. ASSUME NEW m \in Messages, EnqueueMessage(m) \/ LoseMessage(m) PROVE TypeOK'
  <2>1. GatewayOK'
    BY <1>0, <1>3 DEF EnqueueMessage, LoseMessage, GatewayOK, Jobs
  <2>2. TurnsOK'
    BY <1>0, <1>3 DEF EnqueueMessage, LoseMessage, GatewayOK, turnVars, TurnsOK, Employed
  <2>3. WorkerOK'
    BY <1>0, <1>3 DEF EnqueueMessage, LoseMessage, turnVars, WorkerOK
  <2> QED
    BY <2>1, <2>2, <2>3, TypeParts
<1>4. ASSUME NEW p \in Projects, EnqueueQueueTurn(p) PROVE TypeOK'
  BY <1>0, <1>a, <1>4, TypeParts
  DEF EnqueueQueueTurn, turnVars, TurnsOK, Employed, GatewayOK, WorkerOK, Jobs
<1>5. ASSUME NEW b \in Briefs, SubmitBrief(b) \/ RejectBrief(b) PROVE TypeOK'
  BY <1>0, <1>a, <1>5, TypeParts
  DEF SubmitBrief, RejectBrief, turnVars, TurnsOK, Employed, GatewayOK, WorkerOK, Jobs
<1> QED
  BY <1>1, <1>2, <1>3, <1>4, <1>5

\* A turn begins.
LEMMA TypeStart ==
  ASSUME TypeOK, NEW u \in Turns, Start(u)
  PROVE  TypeOK'
<1>0. TurnsOK /\ GatewayOK /\ WorkerOK
  BY TypeParts
<1>1. PICK j \in queued \ Briefs :
        LET id == IF j \in Messages THEN <<"id", chatOf[j]>> ELSE <<"session", j>>
            same == {v \in Live : SessionOf(turn[v].job) = SessionOf(j)}
        IN /\ queued' = queued \ {j}
           /\ turn' = [turn EXCEPT ![u] =
                         [at |-> "load", job |-> j, id |-> id, found |-> FALSE]]
           /\ registry' = registry \cup {id}
           /\ shared' = (shared \ {u}) \cup same \cup {v \in {u} : same # {}}
  BY DEF Start
<1> DEFINE id == IF j \in Messages THEN <<"id", chatOf[j]>> ELSE <<"session", j>>
<1>2. j \in Messages \cup Projects /\ (j \in Messages => message[j] = "SENT")
  BY <1>0 DEF GatewayOK, Jobs
<1>3. id \in Keys
  BY <1>0, <1>2 DEF GatewayOK, Keys, Sessions
<1>4. /\ UNCHANGED <<chats, message, chatOf, adk, formed, reply, deaths, repeated,
                  unfound, lost>>
      /\ turn[u].at = "idle"
  BY DEF Start, gatewayVars
<1>5. [at |-> "load", job |-> j, id |-> id, found |-> FALSE] \in TurnRecords
  BY <1>2, <1>3 DEF TurnRecords, Places
<1>6. TurnsOK'
  <2>1. turn' \in [Turns -> TurnRecords]
    BY <1>0, <1>1, <1>5 DEF TurnsOK
  <2>2. ASSUME NEW v \in Turns PROVE Employed(v)'
    BY <1>0, <1>1, <1>2, <1>4 DEF TurnsOK, Employed
  <2> QED
    BY <2>1, <2>2 DEF TurnsOK
<1>7. GatewayOK'
  BY <1>0, <1>1, <1>4 DEF GatewayOK
<1>8. shared' \subseteq Turns /\ registry' \subseteq Keys
  BY <1>0, <1>1, <1>3 DEF WorkerOK, Live
<1>9. WorkerOK'
  BY <1>0, <1>4, <1>8 DEF WorkerOK
<1> QED
  BY <1>6, <1>7, <1>9, TypeParts

QuietStep(u) == \/ ReadFormation(u) \/ MakeFormation(u) \/ RereadFormation(u)
                \/ EraseFormation(u) \/ WriteFormation(u) \/ OpenSession(u)
                \/ CreateSession(u) \/ RunDirector(u)

\* What a step on the formation state, on the session or of the agent does
\* to the turn.
LEMMA QuietEffect ==
  ASSUME TypeOK, NEW u \in Turns, QuietStep(u)
  PROVE  /\ turn[u].at \notin {"idle", "publish"}
         /\ turn'[u].at \in Places \ {"idle"}
         /\ turn'[u].job = turn[u].job /\ turn'[u].id = turn[u].id
         /\ \A v \in Turns \ {u} : turn'[v] = turn[v]
         /\ turn'[u].at = "publish" => turn[u].job \notin Messages
         /\ turn'[u].at = "persist" => turn[u].job \in Messages
         /\ turn' \in [Turns -> TurnRecords]
         /\ UNCHANGED afterLoad
         /\ adk' \in [Sessions -> {"NONE", "BARE", "READY"}] /\ formed' \in BOOLEAN
<1>0. turn \in [Turns -> TurnRecords] /\ adk \in [Sessions -> {"NONE", "BARE", "READY"}]
      /\ formed \in BOOLEAN /\ Settings \in Sessions
  BY TypeParts, TurnAssumption DEF TurnsOK, WorkerOK, TurnAssumption, Sessions
<1>g. ASSUME NEW at \in Places \ {"idle"}, Goes(u, at), turn[u].at \notin {"idle", "publish"},
             at = "publish" => turn[u].job \notin Messages,
             at = "persist" => turn[u].job \in Messages
      PROVE  /\ turn[u].at \notin {"idle", "publish"}
             /\ turn'[u].at \in Places \ {"idle"}
             /\ turn'[u].job = turn[u].job /\ turn'[u].id = turn[u].id
             /\ \A v \in Turns \ {u} : turn'[v] = turn[v]
             /\ turn'[u].at = "publish" => turn[u].job \notin Messages
             /\ turn'[u].at = "persist" => turn[u].job \in Messages
             /\ turn' \in [Turns -> TurnRecords]
  BY <1>0, <1>g DEF Goes, TurnRecords
<1>1. CASE ReadFormation(u)
  <2>1. \E at \in {"make", "open", "reread"} : Goes(u, at)
    BY <1>1 DEF ReadFormation
  <2>2. turn[u].at = "status" /\ UNCHANGED <<afterLoad, adk, formed>>
    BY <1>1 DEF ReadFormation
  <2> QED
    BY <1>0, <1>g, <2>1, <2>2 DEF Places
<1>2. CASE MakeFormation(u)
  <2>1. \E at \in {"conflict", "open", "reread"} : Goes(u, at)
    BY <1>2 DEF MakeFormation, Conflict
  <2>2. turn[u].at = "make" /\ UNCHANGED afterLoad
    BY <1>2 DEF MakeFormation
  <2>3. adk' \in [Sessions -> {"NONE", "BARE", "READY"}] /\ formed' \in BOOLEAN
    BY <1>0, <1>2 DEF MakeFormation, Conflict
  <2> QED
    BY <1>g, <2>1, <2>2, <2>3 DEF Places
<1>3. CASE RereadFormation(u)
  <2>1. PICK at \in {"write", "erase"} :
          turn' = [turn EXCEPT ![u].at = at, ![u].found = adk[Settings] = "READY"]
    BY <1>3 DEF RereadFormation
  <2>2. turn[u].at = "reread" /\ UNCHANGED <<afterLoad, adk, formed>>
    BY <1>3 DEF RereadFormation
  <2>3. PICK f \in BOOLEAN : f = (adk[Settings] = "READY")
    OBVIOUS
  <2>4. turn' = [turn EXCEPT ![u].at = at, ![u].found = f]
    BY <2>1, <2>3
  <2>5. turn' \in [Turns -> TurnRecords]
    <3>1. [turn[u] EXCEPT !.at = at, !.found = f] \in TurnRecords
      BY <1>0 DEF TurnRecords, Places
    <3>2. turn' = [turn EXCEPT ![u] = [turn[u] EXCEPT !.at = at, !.found = f]]
      BY <2>4
    <3> QED
      BY <1>0, <3>1, <3>2
  <2>6. /\ turn'[u].at = at /\ turn'[u].job = turn[u].job /\ turn'[u].id = turn[u].id
        /\ \A v \in Turns \ {u} : turn'[v] = turn[v]
    BY <1>0, <2>4 DEF TurnRecords
  <2> QED
    BY <1>0, <2>2, <2>5, <2>6 DEF Places
<1>4. CASE EraseFormation(u)
  <2>1. Goes(u, "write") /\ turn[u].at = "erase" /\ UNCHANGED <<afterLoad, formed>>
    BY <1>4 DEF EraseFormation
  <2>2. adk' \in [Sessions -> {"NONE", "BARE", "READY"}]
    BY <1>0, <1>4 DEF EraseFormation
  <2> QED
    BY <1>0, <1>g, <2>1, <2>2 DEF Places
<1>5. CASE WriteFormation(u)
  <2>1. turn[u].at = "write" /\ UNCHANGED afterLoad
    BY <1>5 DEF WriteFormation
  <2>2. CASE Conflict(u)
    <3>1. Goes(u, "conflict") /\ UNCHANGED <<adk, formed>>
      BY <2>2 DEF Conflict
    <3> QED
      BY <1>0, <1>g, <2>1, <3>1 DEF Places
  <2>3. CASE ~Conflict(u)
    <3>1. /\ turn' = [turn EXCEPT ![u].at = "open", ![u].found = FALSE]
          /\ formed' = TRUE
          /\ \E a \in {"BARE", "READY"} : adk' = [adk EXCEPT ![Settings] = a]
      BY <1>5, <2>3 DEF WriteFormation
    <3>2. turn' \in [Turns -> TurnRecords]
      <4>1. [turn[u] EXCEPT !.at = "open", !.found = FALSE] \in TurnRecords
        BY <1>0 DEF TurnRecords, Places
      <4>2. turn' = [turn EXCEPT ![u] = [turn[u] EXCEPT !.at = "open", !.found = FALSE]]
        BY <3>1
      <4> QED
        BY <1>0, <4>1, <4>2
    <3>3. /\ turn'[u].at = "open" /\ turn'[u].job = turn[u].job /\ turn'[u].id = turn[u].id
          /\ \A v \in Turns \ {u} : turn'[v] = turn[v]
      BY <1>0, <3>1 DEF TurnRecords
    <3>4. adk' \in [Sessions -> {"NONE", "BARE", "READY"}]
      BY <1>0, <3>1
    <3> QED
      BY <2>1, <3>1, <3>2, <3>3, <3>4 DEF Places
  <2> QED
    BY <2>2, <2>3
<1>6. CASE OpenSession(u)
  <2>1. \E at \in {"run", "create"} : Goes(u, at)
    BY <1>6 DEF OpenSession
  <2>2. turn[u].at = "open" /\ UNCHANGED <<afterLoad, adk, formed>>
    BY <1>6 DEF OpenSession
  <2> QED
    BY <1>0, <1>g, <2>1, <2>2 DEF Places
<1>7. CASE CreateSession(u)
  <2>1. \E at \in {"run", "conflict"} : Goes(u, at)
    BY <1>7 DEF CreateSession, Conflict
  <2>2. turn[u].at = "create" /\ UNCHANGED <<afterLoad, formed>>
    BY <1>7 DEF CreateSession, Conflict
  <2>3. adk' \in [Sessions -> {"NONE", "BARE", "READY"}]
    BY <1>0, <1>7 DEF CreateSession, Conflict
  <2> QED
    BY <1>0, <1>g, <2>1, <2>2, <2>3 DEF Places
<1>8. CASE RunDirector(u)
  <2>1. turn[u].at = "run" /\ UNCHANGED <<afterLoad, adk, formed>>
    BY <1>8 DEF RunDirector
  <2>2. CASE turn[u].job \in Messages
    <3>1. Goes(u, "persist")
      BY <1>8, <2>2 DEF RunDirector
    <3> QED
      BY <1>0, <1>g, <2>1, <2>2, <3>1 DEF Places
  <2>3. CASE turn[u].job \notin Messages
    <3>1. Goes(u, "publish")
      BY <1>8, <2>3 DEF RunDirector
    <3> QED
      BY <1>0, <1>g, <2>1, <2>3, <3>1 DEF Places
  <2> QED
    BY <2>2, <2>3
<1> QED
  BY <1>1, <1>2, <1>3, <1>4, <1>5, <1>6, <1>7, <1>8 DEF QuietStep

\* The steps that change more than that: the registry, a reply, the histories.
BookStep(u) == \/ LoadChat(u) \/ LoadItems(u) \/ PersistResponse(u)
               \/ PublishCompleted(u) \/ PersistError(u) \/ StepFails(u) \/ NotFound(u)
               \/ CancelTurn(u)

LEMMA TypeBook ==
  ASSUME TypeOK, NEW u \in Turns, BookStep(u)
  PROVE  TypeOK'
<1>0. TurnsOK /\ GatewayOK /\ WorkerOK
  BY TypeParts
<1>1. UNCHANGED <<gatewayVars, queued, adk, formed, deaths, shared>>
  BY DEF BookStep, LoadChat, LoadItems, PersistResponse, PublishCompleted, PersistError,
         StepFails, NotFound, CancelTurn
<1>2. GatewayOK'
  BY <1>0, <1>1 DEF GatewayOK, gatewayVars
<1>3. TurnsOK'
  <2>1. CASE LoadChat(u)
    <3>1. turn[u].job \in Messages /\ message[turn[u].job] = "SENT" /\ turn[u].at = "load"
      BY <1>0, <2>1 DEF LoadChat, TurnsOK, Employed
    <3>2. <<"session", SessionOf(turn[u].job)>> \in Keys
      BY <1>0, <3>1 DEF GatewayOK, SessionOf, Keys, Sessions
    <3>3. PICK id \in Keys : turn' = [turn EXCEPT ![u].at = "status", ![u].id = id]
      BY <2>1, <3>2 DEF LoadChat
    <3>4. [turn[u] EXCEPT !.at = "status", !.id = id] \in TurnRecords
      BY <1>0, <3>3 DEF TurnsOK, TurnRecords, Places
    <3>5. turn' = [turn EXCEPT ![u] = [turn[u] EXCEPT !.at = "status", !.id = id]]
      BY <3>3
    <3>6. turn' \in [Turns -> TurnRecords]
      BY <1>0, <3>4, <3>5 DEF TurnsOK
    <3>7. ASSUME NEW v \in Turns PROVE Employed(v)'
      BY <1>0, <1>1, <3>1, <3>3 DEF TurnsOK, TurnRecords, Employed, gatewayVars
    <3> QED
      BY <3>6, <3>7 DEF TurnsOK
  <2>2. CASE turn' = [turn EXCEPT ![u] = NoTurn]
    BY <1>0, <1>1, <2>2, FinishType DEF gatewayVars
  <2>3. ASSUME NEW at \in {"status", "publish", "fail"}, Goes(u, at), turn[u].at # "idle"
        PROVE  TurnsOK'
    BY <1>0, <1>1, <2>3, MoveType DEF Goes, Places, gatewayVars
  <2> QED
    BY <2>1, <2>2, <2>3
    DEF BookStep, LoadItems, PersistResponse, PublishCompleted, PersistError,
        StepFails, NotFound, CancelTurn, Finish
<1>4. WorkerOK'
  <2>1. registry' \subseteq Keys
    <3>1. CASE LoadChat(u)
      <4>1. turn[u].job \in Messages /\ message[turn[u].job] = "SENT"
        BY <1>0, <3>1 DEF LoadChat, TurnsOK, Employed
      <4>2. <<"session", SessionOf(turn[u].job)>> \in Keys
        BY <1>0, <4>1 DEF GatewayOK, SessionOf, Keys, Sessions
      <4> QED
        BY <1>0, <3>1, <4>2 DEF LoadChat, WorkerOK
    <3> QED
      BY <1>0, <3>1
      DEF WorkerOK, BookStep, LoadItems, PersistResponse, PublishCompleted,
          PersistError, StepFails, NotFound, CancelTurn, Finish
  <2>2. reply' \in [Messages -> Nat]
    <3>1. CASE UNCHANGED reply
      BY <1>0, <3>1 DEF WorkerOK
    <3>2. ASSUME turn[u].job \in Messages, reply' = [reply EXCEPT ![turn[u].job] = @ + 1]
          PROVE  reply' \in [Messages -> Nat]
      BY <1>0, <3>2 DEF WorkerOK
    <3>3. turn[u].at = "persist" => turn[u].job \in Messages
      BY <1>0 DEF TurnsOK, Employed
    <3> QED
      BY <3>1, <3>2, <3>3
      DEF BookStep, LoadChat, LoadItems, PersistResponse, PublishCompleted,
          PersistError, StepFails, NotFound, CancelTurn
  <2>3. /\ repeated' \subseteq Messages
        /\ unfound' \subseteq Messages /\ lost' \subseteq Messages
    BY <1>0
    DEF WorkerOK, BookStep, LoadChat, LoadItems, PersistResponse, PublishCompleted,
        PersistError, StepFails, NotFound, CancelTurn
  <2> QED
    BY <1>0, <1>1, <2>1, <2>2, <2>3 DEF WorkerOK
<1> QED
  BY <1>2, <1>3, <1>4, TypeParts

\* The worker dies.
LEMMA TypeDies ==
  ASSUME TypeOK, WorkerDies
  PROVE  TypeOK'
<1>0. TurnsOK /\ GatewayOK /\ WorkerOK
  BY TypeParts
<1>1. NoTurn \in TurnRecords /\ NoTurn.at = "idle"
  BY DEF NoTurn, TurnRecords, Places
<1>2. TurnsOK'
  BY <1>1 DEF WorkerDies, TurnsOK, Employed
<1>3. \A u \in Live : /\ turn[u].job \in Jobs
                      /\ turn[u].job \in Messages => message[turn[u].job] = "SENT"
  BY <1>0 DEF TurnsOK, Employed, Live, Jobs
<1>4. GatewayOK'
  BY <1>0, <1>3 DEF WorkerDies, GatewayOK, gatewayVars
<1>5. deaths' \in 0..MaxDeaths
  BY <1>0, TurnAssumption DEF WorkerDies, WorkerOK, TurnAssumption
<1>6. WorkerOK'
  BY <1>0, <1>5 DEF WorkerDies, WorkerOK
<1> QED
  BY <1>2, <1>4, <1>6, TypeParts

\* Every step keeps the types.
LEMMA TypeStep == TypeOK /\ [Next]_vars => TypeOK'
<1> SUFFICES ASSUME TypeOK, [Next]_vars PROVE TypeOK'
  OBVIOUS
<1>0. TurnsOK /\ GatewayOK /\ WorkerOK
  BY TypeParts
<1>1. ASSUME NEW u \in Turns, QuietStep(u) PROVE TypeOK'
  <2>1. UNCHANGED <<gatewayVars, queued, registry, reply, deaths, shared, repeated,
                    unfound, lost>>
    BY <1>1, QuietEffect DEF afterLoad
  <2>2. ASSUME NEW v \in Turns PROVE Employed(v)'
    BY <1>0, <1>1, <2>1, QuietEffect DEF TurnsOK, Employed, gatewayVars
  <2>3. TurnsOK'
    BY <1>1, <2>2, QuietEffect DEF TurnsOK
  <2>4. GatewayOK' /\ WorkerOK'
    BY <1>0, <1>1, <2>1, QuietEffect DEF GatewayOK, WorkerOK, gatewayVars
  <2> QED
    BY <2>3, <2>4, TypeParts
<1>2. CASE UNCHANGED vars
  BY <1>0, <1>2, TypeParts DEF vars, TurnsOK, Employed, GatewayOK, WorkerOK
<1> QED
  BY <1>1, <1>2, TypeGateway, TypeStart, TypeBook, TypeDies
  DEF Next, TurnStep, QuietStep, BookStep

(***************************************************************************)
(* Every row, job, turn and session that run_director_turn touches has its *)
(* type; a turn that stores a response has a message it answers, and that  *)
(* message was stored and sent.                                            *)
(***************************************************************************)
THEOREM TypeCorrect == Spec => []TypeOK
<1> QED
  BY TypeInit, TypeStep, PTL DEF Spec

-----------------------------------------------------------------------------
(***************************************************************************)
(* The registry of tool contexts.                                          *)
(***************************************************************************)
\* The strengthening: a turn's id names its session, and turns of one session
\* that run side by side are known to share it.
Identified(u) == turn[u].at # "idle"
                 => turn[u].id \in {<<"id", SessionOf(turn[u].job)>>,
                                   <<"session", SessionOf(turn[u].job)>>}

Apart(u, v) == turn[u].at # "idle" /\ turn[v].at # "idle"
               /\ SessionOf(turn[u].job) = SessionOf(turn[v].job) => u \in shared

RegistryInv == /\ \A u \in Turns : turn[u].at # "idle" /\ u \notin shared
                                   => turn[u].id \in registry
               /\ \A k \in registry : \E u \in Turns : turn[u].at # "idle" /\ turn[u].id = k
               /\ \A u \in Turns : Identified(u)
               /\ \A u, v \in Turns : u # v => Apart(u, v)

\* The session of a job that runs stays what it is.
LEMMA SessionStays ==
  ASSUME TypeOK, NEW u \in Turns, turn[u].at # "idle", [Next]_vars
  PROVE  /\ turn[u].job \in Messages => chatOf'[turn[u].job] = chatOf[turn[u].job]
         /\ (turn'[u].job = turn[u].job
             => SessionOf(turn[u].job)' = SessionOf(turn[u].job))
<1>1. turn[u].job \in Messages => message[turn[u].job] = "SENT"
  BY TypeParts DEF TurnsOK, Employed
<1>2. UNCHANGED chatOf \/ \E m \in Messages : SaveMessage(m)
  BY QuietEffect
  DEF Next, TurnStep, QuietStep, EnsureChat, EnqueueMessage, LoseMessage, EnqueueQueueTurn,
      SubmitBrief, RejectBrief, Start, LoadChat, LoadItems, PersistResponse,
      PublishCompleted, PersistError, StepFails, NotFound, CancelTurn, WorkerDies, gatewayVars,
      afterLoad, vars
<1>3. turn[u].job \in Messages => chatOf'[turn[u].job] = chatOf[turn[u].job]
  BY <1>1, <1>2, TypeParts DEF SaveMessage, GatewayOK
<1> QED
  BY <1>3 DEF SessionOf

\* Turns that have the same id are of the same session.
LEMMA SameId ==
  ASSUME RegistryInv, NEW u \in Turns, NEW v \in Turns,
         turn[u].at # "idle", turn[v].at # "idle", turn[u].id = turn[v].id
  PROVE  SessionOf(turn[u].job) = SessionOf(turn[v].job)
BY DEF RegistryInv, Identified

\* Turns that go on keep the invariant: with their job, and with their id or
\* no new one in the registry.
LEMMA RegistryKept ==
  ASSUME TypeOK, RegistryInv, [Next]_vars, UNCHANGED <<registry, shared>>,
         \A v \in Turns : /\ turn'[v].at # "idle" <=> turn[v].at # "idle"
                          /\ turn[v].at # "idle" => /\ turn'[v].job = turn[v].job
                                                   /\ turn'[v].id = turn[v].id
  PROVE  RegistryInv'
<1>1. ASSUME NEW v \in Turns, turn[v].at # "idle"
      PROVE  SessionOf(turn[v].job)' = SessionOf(turn[v].job)
  BY <1>1, SessionStays
<1>2. ASSUME NEW v \in Turns PROVE Identified(v)'
  BY <1>1 DEF RegistryInv, Identified
<1>3. ASSUME NEW v \in Turns, NEW w \in Turns, v # w PROVE Apart(v, w)'
  BY <1>1, <1>3 DEF RegistryInv, Apart
<1>4. \A v \in Turns : turn'[v].at # "idle" /\ v \notin shared' => turn'[v].id \in registry'
  BY DEF RegistryInv
<1>5. \A k \in registry' : \E v \in Turns : turn'[v].at # "idle" /\ turn'[v].id = k
  BY DEF RegistryInv
<1> QED
  BY <1>2, <1>3, <1>4, <1>5 DEF RegistryInv

\* A turn ends: no other turn outside the shared ones had its id.
LEMMA RegistryFinish ==
  ASSUME TypeOK, RegistryInv, [Next]_vars, NEW u \in Turns, turn[u].at # "idle",
         Finish(u), UNCHANGED shared
  PROVE  RegistryInv'
<1>0. /\ turn'[u].at = "idle" /\ \A v \in Turns \ {u} : turn'[v] = turn[v]
      /\ registry' = registry \ {turn[u].id}
  BY TypeParts DEF Finish, TurnsOK, NoTurn
<1>1. ASSUME NEW v \in Turns \ {u}, turn[v].at # "idle"
      PROVE  SessionOf(turn[v].job)' = SessionOf(turn[v].job)
  BY <1>0, <1>1, SessionStays
<1>2. ASSUME NEW v \in Turns PROVE Identified(v)'
  BY <1>0, <1>1 DEF RegistryInv, Identified
<1>3. ASSUME NEW v \in Turns, NEW w \in Turns, v # w PROVE Apart(v, w)'
  BY <1>0, <1>1, <1>3 DEF RegistryInv, Apart
<1>4. ASSUME NEW v \in Turns, turn'[v].at # "idle", v \notin shared'
      PROVE  turn'[v].id \in registry'
  <2>1. v # u /\ turn[v].at # "idle" /\ turn[v].id \in registry
    BY <1>0, <1>4 DEF RegistryInv
  <2>2. turn[v].id # turn[u].id
    BY <1>4, <2>1, SameId DEF RegistryInv, Apart
  <2> QED
    BY <1>0, <2>1, <2>2
<1>5. \A k \in registry' : \E v \in Turns : turn'[v].at # "idle" /\ turn'[v].id = k
  BY <1>0 DEF RegistryInv
<1> QED
  BY <1>2, <1>3, <1>4, <1>5 DEF RegistryInv

\* Chat mode replaces the id of the row by the one of the session.
LEMMA RegistryLoad ==
  ASSUME TypeOK, RegistryInv, [Next]_vars, NEW u \in Turns, LoadChat(u)
  PROVE  RegistryInv'
<1> DEFINE id == <<"session", SessionOf(turn[u].job)>>
<1>0. /\ turn[u].at = "load" /\ turn'[u].at = "status"
      /\ turn'[u].job = turn[u].job /\ turn'[u].id = id
      /\ \A v \in Turns \ {u} : turn'[v] = turn[v]
      /\ registry' = (registry \ {turn[u].id}) \cup {id} /\ UNCHANGED shared
  BY TypeParts DEF LoadChat, TurnsOK, TurnRecords
<1>1. ASSUME NEW v \in Turns, turn[v].at # "idle"
      PROVE  SessionOf(turn[v].job)' = SessionOf(turn[v].job)
  BY <1>0, <1>1, SessionStays
<1>2. ASSUME NEW v \in Turns PROVE Identified(v)'
  BY <1>0, <1>1 DEF RegistryInv, Identified
<1>3. ASSUME NEW v \in Turns, NEW w \in Turns, v # w PROVE Apart(v, w)'
  BY <1>0, <1>1, <1>3 DEF RegistryInv, Apart
<1>4. ASSUME NEW v \in Turns, turn'[v].at # "idle", v \notin shared'
      PROVE  turn'[v].id \in registry'
  <2>1. CASE v = u
    BY <1>0, <2>1
  <2>2. CASE v # u
    <3>1. turn[v].at # "idle" /\ turn[v].id \in registry
      BY <1>0, <1>4, <2>2 DEF RegistryInv
    <3>2. turn[v].id # turn[u].id
      BY <1>0, <1>4, <2>2, <3>1, SameId DEF RegistryInv, Apart
    <3> QED
      BY <1>0, <2>2, <3>1, <3>2
  <2> QED
    BY <2>1, <2>2
<1>5. \A k \in registry' : \E v \in Turns : turn'[v].at # "idle" /\ turn'[v].id = k
  BY <1>0 DEF RegistryInv
<1> QED
  BY <1>2, <1>3, <1>4, <1>5 DEF RegistryInv

\* A turn begins: it and the ones of its session are shared from now on.
LEMMA RegistryStart ==
  ASSUME TypeOK, RegistryInv, [Next]_vars, NEW u \in Turns, Start(u)
  PROVE  RegistryInv'
<1>1. PICK j \in queued \ Briefs :
        LET id == IF j \in Messages THEN <<"id", chatOf[j]>> ELSE <<"session", j>>
            same == {v \in Live : SessionOf(turn[v].job) = SessionOf(j)}
        IN /\ queued' = queued \ {j}
           /\ turn' = [turn EXCEPT ![u] =
                         [at |-> "load", job |-> j, id |-> id, found |-> FALSE]]
           /\ registry' = registry \cup {id}
           /\ shared' = (shared \ {u}) \cup same \cup {v \in {u} : same # {}}
  BY DEF Start
<1> DEFINE id == IF j \in Messages THEN <<"id", chatOf[j]>> ELSE <<"session", j>>
           same == {v \in Live : SessionOf(turn[v].job) = SessionOf(j)}
<1>2. /\ turn[u].at = "idle" /\ turn'[u].at = "load" /\ turn'[u].job = j /\ turn'[u].id = id
      /\ \A v \in Turns \ {u} : turn'[v] = turn[v]
      /\ registry' = registry \cup {id}
  BY <1>1, TypeParts DEF Start, TurnsOK
<1>3. UNCHANGED chatOf
  BY DEF Start, gatewayVars
<1>4. /\ SessionOf(turn[u].job)' = SessionOf(j)
      /\ \A v \in Turns \ {u} : SessionOf(turn[v].job)' = SessionOf(turn[v].job)
  BY <1>2, <1>3 DEF SessionOf
<1>5. /\ \A v \in Turns : turn[v].at # "idle" /\ SessionOf(turn[v].job) = SessionOf(j)
                         => v \in shared' /\ u \in shared'
      /\ shared \ {u} \subseteq shared'
  BY <1>1 DEF Live
<1>6. ASSUME NEW v \in Turns PROVE Identified(v)'
  <2>1. id \in {<<"id", SessionOf(j)>>, <<"session", SessionOf(j)>>}
    BY DEF SessionOf
  <2> QED
    BY <1>2, <1>4, <2>1 DEF RegistryInv, Identified
<1>7. ASSUME NEW v \in Turns, NEW w \in Turns, v # w PROVE Apart(v, w)'
  BY <1>2, <1>4, <1>5, <1>7 DEF RegistryInv, Apart
<1>8. \A v \in Turns : turn'[v].at # "idle" /\ v \notin shared' => turn'[v].id \in registry'
  BY <1>2, <1>5 DEF RegistryInv
<1>9. \A k \in registry' : \E v \in Turns : turn'[v].at # "idle" /\ turn'[v].id = k
  BY <1>2 DEF RegistryInv
<1> QED
  BY <1>6, <1>7, <1>8, <1>9 DEF RegistryInv

\* Every step keeps the registry.
LEMMA RegistryStep == TypeOK /\ RegistryInv /\ [Next]_vars => RegistryInv'
<1> SUFFICES ASSUME TypeOK, RegistryInv, [Next]_vars PROVE RegistryInv'
  OBVIOUS
<1>0. turn \in [Turns -> TurnRecords]
  BY TypeParts DEF TurnsOK
<1>1. CASE \/ \E c \in Chats : EnsureChat(c)
           \/ \E m \in Messages : SaveMessage(m) \/ EnqueueMessage(m) \/ LoseMessage(m)
           \/ \E p \in Projects : EnqueueQueueTurn(p)
           \/ \E b \in Briefs : SubmitBrief(b) \/ RejectBrief(b)
           \/ UNCHANGED vars
  BY <1>1, RegistryKept
  DEF EnsureChat, SaveMessage, EnqueueMessage, LoseMessage, EnqueueQueueTurn,
      SubmitBrief, RejectBrief, turnVars, vars
<1>2. ASSUME NEW u \in Turns, QuietStep(u) PROVE RegistryInv'
  <2>1. \A v \in Turns : /\ turn'[v].at # "idle" <=> turn[v].at # "idle"
                         /\ turn[v].at # "idle" => /\ turn'[v].job = turn[v].job
                                                  /\ turn'[v].id = turn[v].id
    BY <1>2, QuietEffect
  <2> QED
    BY <1>2, <2>1, QuietEffect, RegistryKept DEF afterLoad
<1>3. ASSUME NEW u \in Turns, NEW at \in Places \ {"idle"}, Goes(u, at),
             turn[u].at # "idle", UNCHANGED <<registry, shared>>
      PROVE  RegistryInv'
  <2>1. \A v \in Turns : /\ turn'[v].at # "idle" <=> turn[v].at # "idle"
                         /\ turn[v].at # "idle" => /\ turn'[v].job = turn[v].job
                                                  /\ turn'[v].id = turn[v].id
    BY <1>0, <1>3 DEF Goes, TurnRecords
  <2> QED
    BY <1>3, <2>1, RegistryKept
<1>4. ASSUME NEW u \in Turns, PersistResponse(u) \/ StepFails(u) PROVE RegistryInv'
  BY <1>3, <1>4 DEF PersistResponse, StepFails, Places
<1>5. ASSUME NEW u \in Turns,
             LoadItems(u) \/ PublishCompleted(u) \/ PersistError(u)
             \/ NotFound(u) \/ CancelTurn(u)
      PROVE  RegistryInv'
  BY <1>3, <1>5, RegistryFinish
  DEF LoadItems, PublishCompleted, PersistError, NotFound, CancelTurn, Places
<1>6. CASE WorkerDies
  <2>1. registry' = {} /\ \A v \in Turns : turn'[v].at = "idle"
    BY <1>6 DEF WorkerDies, NoTurn
  <2> QED
    BY <2>1 DEF RegistryInv, Identified, Apart
<1> QED
  BY <1>1, <1>2, <1>4, <1>5, <1>6, RegistryLoad, RegistryStart
  DEF Next, TurnStep, QuietStep

(***************************************************************************)
(* The registry holds the contexts of the turns that run and no others,    *)
(* for any number of chats, projects and coroutines and however they fail. *)
(***************************************************************************)
THEOREM RegistryExactHolds == Spec => []RegistryExact
<1>1. Init => RegistryInv
  BY DEF Init, RegistryInv, Identified, Apart, NoTurn
<1>2. RegistryInv => RegistryExact
  BY DEF RegistryInv, RegistryExact, Live
<1> QED
  BY <1>1, <1>2, TypeCorrect, RegistryStep, PTL DEF Spec

-----------------------------------------------------------------------------
(***************************************************************************)
(* Answers.                                                                *)
(***************************************************************************)
On(u, m) == turn[u].at # "idle" /\ turn[u].job = m

\* The strengthening: a message has one job at a time, in the queue or in a
\* turn, and an answer just when its turn is about to publish.
OneJob(m) == /\ message[m] # "SENT" => reply[m] = 0
             /\ m \in queued => \A u \in Turns : ~On(u, m)
             /\ \A u, v \in Turns : On(u, m) /\ On(v, m) => u = v

OneAnswer(m) ==
  m \notin repeated
  => /\ m \in queued => reply[m] = 0
     /\ \A u \in Turns : On(u, m) => reply[m] = IF turn[u].at = "publish" THEN 1 ELSE 0
     /\ reply[m] \in {0, 1}
     /\ /\ message[m] = "SENT" /\ m \notin queued
        /\ m \notin lost /\ m \notin unfound
        /\ \A u \in Turns : ~On(u, m)
        => reply[m] = 1

AnswerInv == \A m \in Messages : OneJob(m) /\ OneAnswer(m)

\* A message whose turn, if it has one, goes on without an answer.
LEMMA AnswerKept ==
  ASSUME NEW m \in Messages, OneJob(m), OneAnswer(m),
         message'[m] = message[m], reply'[m] = reply[m],
         m \in queued' <=> m \in queued,
         m \in lost => m \in lost', m \in unfound => m \in unfound',
         m \in repeated => m \in repeated',
         \A u \in Turns : On(u, m)' <=> On(u, m),
         \A u \in Turns : On(u, m) /\ m \notin repeated'
                         => (turn'[u].at = "publish" <=> turn[u].at = "publish")
  PROVE  OneJob(m)' /\ OneAnswer(m)'
<1>1. OneJob(m)'
  BY DEF OneJob
<1>2. OneAnswer(m)'
  BY DEF OneAnswer
<1> QED
  BY <1>1, <1>2

\* Its turn ends: with its answer, or it is lost, or in NotFoundError.
LEMMA AnswerFinish ==
  ASSUME TypeOK, NEW m \in Messages, OneJob(m), OneAnswer(m), NEW u \in Turns, On(u, m),
         Finish(u), UNCHANGED <<message, queued, repeated>>,
         m \notin lost' /\ m \notin unfound' /\ m \notin repeated => reply'[m] = 1,
         m \notin repeated => reply'[m] \in {0, 1}
  PROVE  OneJob(m)' /\ OneAnswer(m)'
<1>1. turn'[u].at = "idle" /\ \A v \in Turns \ {u} : turn'[v] = turn[v]
  BY TypeParts DEF Finish, NoTurn, TurnsOK
<1>2. \A v \in Turns : ~On(v, m)'
  BY <1>1 DEF OneJob, On
<1>3. message[m] = "SENT"
  BY TypeParts DEF On, TurnsOK, Employed
<1>4. OneJob(m)'
  BY <1>2, <1>3 DEF OneJob
<1>5. m \notin queued
  BY DEF OneJob
<1>6. OneAnswer(m)'
  BY <1>2, <1>5 DEF OneAnswer
<1> QED
  BY <1>4, <1>6

\* The gateway and cron.
LEMMA AnswerGateway ==
  ASSUME TypeOK, AnswerInv, NEW m \in Messages,
         \/ \E c \in Chats : EnsureChat(c)
         \/ \E n \in Messages : SaveMessage(n) \/ EnqueueMessage(n) \/ LoseMessage(n)
         \/ \E p \in Projects : EnqueueQueueTurn(p)
         \/ \E b \in Briefs : SubmitBrief(b) \/ RejectBrief(b)
         \/ UNCHANGED vars
  PROVE  OneJob(m)' /\ OneAnswer(m)'
<1>0. OneJob(m) /\ OneAnswer(m) /\ TurnsOK /\ GatewayOK
  BY TypeParts DEF AnswerInv
<1>a. Messages \cap (Projects \cup Briefs) = {}
  BY TurnAssumption DEF TurnAssumption
<1>1. ASSUME NEW n \in Messages, SaveMessage(n) PROVE OneJob(m)' /\ OneAnswer(m)'
  <2>1. CASE n = m
    <3>1. /\ message[m] = "NONE" /\ message'[m] = "SAVED"
          /\ UNCHANGED <<turn, reply, queued, lost, repeated, unfound>>
      BY <1>0, <1>1, <2>1 DEF SaveMessage, turnVars, GatewayOK
    <3>2. OneJob(m)'
      BY <1>0, <3>1 DEF OneJob, On
    <3>3. OneAnswer(m)'
      BY <1>0, <3>1 DEF OneAnswer, On
    <3> QED
      BY <3>2, <3>3
  <2>2. CASE n # m
    <3>1. message'[m] = message[m] /\ UNCHANGED <<turn, reply, queued, lost, repeated, unfound>>
      BY <1>0, <1>1, <2>2 DEF SaveMessage, turnVars, GatewayOK
    <3> QED
      BY <1>0, <3>1, AnswerKept DEF On
  <2> QED
    BY <2>1, <2>2
<1>2. ASSUME NEW n \in Messages, EnqueueMessage(n) \/ LoseMessage(n)
      PROVE  OneJob(m)' /\ OneAnswer(m)'
  <2>1. CASE n = m
    <3>1. /\ message[m] = "SAVED" /\ message'[m] = "SENT"
          /\ UNCHANGED <<turn, reply, repeated, unfound>>
          /\ m \in queued' \/ m \in lost'
          /\ m \in queued' => m \in queued \/ m \notin lost' \/ m \in lost
      BY <1>0, <1>2, <2>1 DEF EnqueueMessage, LoseMessage, turnVars, GatewayOK
    <3>2. reply[m] = 0 /\ m \notin queued /\ \A u \in Turns : ~On(u, m)
      BY <1>0, <3>1 DEF OneJob, On, TurnsOK, Employed, GatewayOK
    <3>3. OneJob(m)'
      BY <3>1, <3>2 DEF OneJob, On
    <3>4. OneAnswer(m)'
      BY <3>1, <3>2 DEF OneAnswer, On
    <3> QED
      BY <3>3, <3>4
  <2>2. CASE n # m
    <3>1. /\ message'[m] = message[m] /\ UNCHANGED <<turn, reply, repeated, unfound>>
          /\ m \in queued' <=> m \in queued
          /\ m \in lost' <=> m \in lost
      BY <1>0, <1>2, <2>2 DEF EnqueueMessage, LoseMessage, turnVars, GatewayOK
    <3> QED
      BY <1>0, <3>1, AnswerKept DEF On
  <2> QED
    BY <2>1, <2>2
<1>3. CASE \/ \E c \in Chats : EnsureChat(c)
           \/ \E p \in Projects : EnqueueQueueTurn(p)
           \/ \E b \in Briefs : SubmitBrief(b) \/ RejectBrief(b)
           \/ UNCHANGED vars
  <2>1. /\ UNCHANGED <<message, turn, reply, lost, repeated, unfound>>
        /\ m \in queued' <=> m \in queued
    BY <1>a, <1>3 DEF EnsureChat, EnqueueQueueTurn, SubmitBrief, RejectBrief, turnVars, vars
  <2> QED
    BY <1>0, <2>1, AnswerKept DEF On
<1> QED
  BY <1>1, <1>2, <1>3

\* A turn begins.
LEMMA AnswerStart ==
  ASSUME TypeOK, AnswerInv, NEW m \in Messages, NEW u \in Turns, Start(u)
  PROVE  OneJob(m)' /\ OneAnswer(m)'
<1>0. OneJob(m) /\ OneAnswer(m) /\ TurnsOK
  BY TypeParts DEF AnswerInv
<1>1. PICK j \in queued \ Briefs :
        /\ queued' = queued \ {j}
        /\ \E id : turn' = [turn EXCEPT ![u] =
                             [at |-> "load", job |-> j, id |-> id, found |-> FALSE]]
  BY DEF Start
<1>2. /\ turn[u].at = "idle" /\ turn'[u].at = "load" /\ turn'[u].job = j
      /\ \A v \in Turns \ {u} : turn'[v] = turn[v]
      /\ UNCHANGED <<message, reply, repeated, unfound, lost>>
  BY <1>0, <1>1 DEF Start, TurnsOK, gatewayVars
<1>3. CASE j = m
  <2>1. /\ m \in queued /\ m \notin queued' /\ On(u, m)'
        /\ \A v \in Turns \ {u} : ~On(v, m) /\ ~On(v, m)'
    BY <1>0, <1>1, <1>2, <1>3 DEF OneJob, On
  <2>2. OneJob(m)'
    BY <1>0, <1>2, <2>1 DEF OneJob
  <2>3. OneAnswer(m)'
    BY <1>0, <1>2, <2>1 DEF OneAnswer
  <2> QED
    BY <2>2, <2>3
<1>4. CASE j # m
  <2>1. \A v \in Turns : (On(v, m)' <=> On(v, m)) /\ (On(v, m) => turn'[v] = turn[v])
    BY <1>2, <1>4 DEF On
  <2> QED
    BY <1>0, <1>1, <1>2, <1>4, <2>1, AnswerKept
<1> QED
  BY <1>3, <1>4

\* A turn goes on, answers, fails or ends.
LEMMA AnswerTurn ==
  ASSUME TypeOK, AnswerInv, NEW m \in Messages, NEW u \in Turns,
         QuietStep(u) \/ BookStep(u)
  PROVE  OneJob(m)' /\ OneAnswer(m)'
<1>0. OneJob(m) /\ OneAnswer(m) /\ TurnsOK /\ WorkerOK
  BY TypeParts DEF AnswerInv
<1>a. Messages \cap Projects = {}
  BY TurnAssumption DEF TurnAssumption
<1>r. turn \in [Turns -> TurnRecords]
  BY <1>0 DEF TurnsOK
<1>1. CASE QuietStep(u)
  <2>1. UNCHANGED <<message, queued, reply, repeated, unfound, lost>>
    BY <1>1, QuietEffect DEF afterLoad, gatewayVars
  <2>2. \A v \in Turns : On(v, m)' <=> On(v, m)
    BY <1>1, QuietEffect DEF On
  <2>3. \A v \in Turns : On(v, m) => (turn'[v].at = "publish" <=> turn[v].at = "publish")
    BY <1>1, QuietEffect DEF On
  <2> QED
    BY <1>0, <2>1, <2>2, <2>3, AnswerKept
<1>2. ASSUME turn[u].at # "idle", turn'[u].at # "idle", turn'[u].job = turn[u].job,
             \A v \in Turns \ {u} : turn'[v] = turn[v],
             UNCHANGED <<message, queued, reply, unfound, lost>>,
             m \in repeated => m \in repeated',
             turn[u].job = m /\ m \notin repeated'
             => (turn'[u].at = "publish" <=> turn[u].at = "publish")
      PROVE  OneJob(m)' /\ OneAnswer(m)'
  <2>1. \A v \in Turns : On(v, m)' <=> On(v, m)
    BY <1>2 DEF On
  <2>2. \A v \in Turns : On(v, m) /\ m \notin repeated'
                         => (turn'[v].at = "publish" <=> turn[v].at = "publish")
    BY <1>2 DEF On
  <2> QED
    BY <1>0, <1>2, <2>1, <2>2, AnswerKept
<1>3. ASSUME turn[u].at # "idle", Finish(u), turn[u].job # m, message' = message,
             queued' = queued, repeated' = repeated, m \in lost => m \in lost',
             m \in unfound => m \in unfound',
             reply'[m] = reply[m]
      PROVE  OneJob(m)' /\ OneAnswer(m)'
  <2>1. turn'[u].at = "idle" /\ \A v \in Turns \ {u} : turn'[v] = turn[v]
    BY <1>3, <1>r DEF Finish, NoTurn
  <2>2. \A v \in Turns : (On(v, m)' <=> On(v, m)) /\ (On(v, m) => turn'[v] = turn[v])
    BY <1>3, <2>1 DEF On
  <2> QED
    BY <1>0, <1>3, <2>2, AnswerKept
<1>4. CASE LoadChat(u)
  <2>1. /\ turn[u].at = "load" /\ turn'[u].at = "status" /\ turn'[u].job = turn[u].job
        /\ \A v \in Turns \ {u} : turn'[v] = turn[v]
        /\ UNCHANGED <<message, queued, reply, lost, repeated, unfound>>
    BY <1>4, <1>r DEF LoadChat, TurnRecords, gatewayVars
  <2> QED
    BY <1>2, <2>1
<1>5. CASE LoadItems(u)
  <2>1. /\ turn[u].at = "load" /\ turn[u].job # m
        /\ UNCHANGED <<message, queued, reply, lost, repeated, unfound>>
    BY <1>5, <1>a DEF LoadItems, gatewayVars
  <2>2. CASE Goes(u, "status")
    <3>1. /\ turn'[u].at = "status" /\ turn'[u].job = turn[u].job
          /\ \A v \in Turns \ {u} : turn'[v] = turn[v]
      BY <2>2, <1>r DEF Goes, TurnRecords
    <3> QED
      BY <1>2, <2>1, <3>1
  <2> QED
    BY <1>3, <1>5, <2>1, <2>2 DEF LoadItems
<1>6. CASE PersistResponse(u)
  <2>1. /\ turn[u].at = "persist" /\ turn'[u].at = "publish" /\ turn'[u].job = turn[u].job
        /\ \A v \in Turns \ {u} : turn'[v] = turn[v]
        /\ UNCHANGED <<message, queued, lost, repeated, unfound>>
        /\ turn[u].job \in Messages
    BY <1>6, <1>0, <1>r DEF PersistResponse, Goes, TurnRecords, gatewayVars, TurnsOK, Employed
  <2>2. reply' = [reply EXCEPT ![turn[u].job] = @ + 1]
    BY <1>6 DEF PersistResponse
  <2>3. CASE turn[u].job = m
    <3>1. reply'[m] = reply[m] + 1
      BY <1>0, <2>2, <2>3 DEF WorkerOK
    <3>2. /\ On(u, m) /\ On(u, m)' /\ message[m] = "SENT" /\ m \notin queued
          /\ \A v \in Turns \ {u} : ~On(v, m) /\ ~On(v, m)'
      BY <1>0, <2>1, <2>3 DEF On, OneJob, TurnsOK, Employed
    <3>3. OneJob(m)'
      BY <2>1, <3>2 DEF OneJob
    <3>4. m \notin repeated => reply[m] = 0
      BY <1>0, <2>1, <3>2 DEF OneAnswer
    <3>5. OneAnswer(m)'
      BY <2>1, <3>1, <3>2, <3>4 DEF OneAnswer
    <3> QED
      BY <3>3, <3>5
  <2>4. CASE turn[u].job # m
    <3>1. reply'[m] = reply[m]
      BY <1>0, <2>1, <2>2, <2>4 DEF WorkerOK
    <3>2. \A v \in Turns : (On(v, m)' <=> On(v, m)) /\ (On(v, m) => turn'[v] = turn[v])
      BY <2>1, <2>4 DEF On
    <3> QED
      BY <1>0, <2>1, <3>1, <3>2, AnswerKept
  <2> QED
    BY <2>3, <2>4
<1>7. CASE PublishCompleted(u)
  <2>1. /\ turn[u].at = "publish" /\ Finish(u)
        /\ UNCHANGED <<message, queued, reply, repeated, unfound, lost>>
    BY <1>7 DEF PublishCompleted, gatewayVars
  <2>2. CASE turn[u].job = m
    <3>1. On(u, m)
      BY <2>1, <2>2 DEF On
    <3>2. m \notin repeated => reply[m] = 1
      BY <1>0, <2>1, <3>1 DEF OneAnswer
    <3> QED
      BY <1>0, <2>1, <3>1, <3>2, AnswerFinish
  <2> QED
    BY <1>3, <2>1, <2>2
<1>8. CASE PersistError(u)
  <2>1. /\ turn[u].at \in {"conflict", "fail"} /\ Finish(u)
        /\ UNCHANGED <<message, queued, repeated, unfound>>
    BY <1>8 DEF PersistError, gatewayVars
  <2>2. CASE turn[u].job = m
    <3>1. On(u, m) /\ (m \notin repeated => reply[m] = 0)
      BY <1>0, <2>1, <2>2 DEF On, OneAnswer
    <3>2. reply'[m] = reply[m] + 1 \/ (reply'[m] = reply[m] /\ m \in lost')
      BY <1>0, <1>8, <2>2 DEF PersistError, WorkerOK
    <3> QED
      BY <1>0, <2>1, <3>1, <3>2, AnswerFinish
  <2>3. CASE turn[u].job # m
    <3>1. reply'[m] = reply[m] /\ (m \in lost => m \in lost')
      BY <1>0, <1>8, <2>3 DEF PersistError, WorkerOK
    <3> QED
      BY <1>3, <2>1, <2>3, <3>1
  <2> QED
    BY <2>2, <2>3
<1>9. CASE StepFails(u)
  <2>1. /\ turn[u].at # "idle" /\ turn'[u].at = "fail" /\ turn'[u].job = turn[u].job
        /\ \A v \in Turns \ {u} : turn'[v] = turn[v]
        /\ UNCHANGED <<message, queued, reply, unfound, lost>>
        /\ m \in repeated' <=> m \in repeated \/ (m = turn[u].job /\ reply[m] > 0)
    BY <1>9, <1>r DEF StepFails, Goes, TurnRecords, gatewayVars
  <2>2. turn[u].job = m /\ m \notin repeated' => turn[u].at # "publish"
    BY <1>0, <2>1 DEF OneAnswer, On
  <2> QED
    BY <1>2, <2>1, <2>2
<1>10. CASE NotFound(u) \/ CancelTurn(u)
  <2>1. /\ turn[u].at # "idle" /\ Finish(u)
        /\ UNCHANGED <<message, queued, reply, repeated>>
        /\ m \in lost => m \in lost'
        /\ m \in unfound => m \in unfound'
        /\ m = turn[u].job => \/ m \in unfound'
                              \/ (m \in lost' <=> m \in lost \/ reply[m] = 0)
    BY <1>10 DEF NotFound, CancelTurn, gatewayVars
  <2>2. CASE turn[u].job = m
    <3>1. On(u, m) /\ (m \notin repeated => reply[m] \in {0, 1})
      BY <1>0, <2>1, <2>2 DEF On, OneAnswer
    <3> QED
      BY <1>0, <2>1, <2>2, <3>1, AnswerFinish
  <2> QED
    BY <1>3, <2>1, <2>2
<1> QED
  BY <1>1, <1>4, <1>5, <1>6, <1>7, <1>8, <1>9, <1>10 DEF BookStep

\* The worker dies: what was answered and runs again is repeated.
LEMMA AnswerDies ==
  ASSUME TypeOK, AnswerInv, NEW m \in Messages, WorkerDies
  PROVE  OneJob(m)' /\ OneAnswer(m)'
<1>0. OneJob(m) /\ OneAnswer(m) /\ WorkerOK /\ TurnsOK
  BY TypeParts DEF AnswerInv
<1>1. /\ UNCHANGED <<message, reply, unfound, lost>>
      /\ \A v \in Turns : turn'[v].at = "idle"
      /\ m \in queued' <=> m \in queued \/ \E u \in Turns : On(u, m)
      /\ m \in repeated' <=> m \in repeated \/ (reply[m] > 0 /\ \E u \in Turns : On(u, m))
  BY DEF WorkerDies, NoTurn, Running, Live, On, gatewayVars
<1>2. \A v \in Turns : ~On(v, m)'
  BY <1>1 DEF On
<1>3. OneJob(m)'
  BY <1>0, <1>1, <1>2 DEF OneJob
<1>4. OneAnswer(m)'
  BY <1>0, <1>1, <1>2 DEF OneAnswer
<1> QED
  BY <1>3, <1>4

(***************************************************************************)
(* A message is answered once, for any number of messages, chats and       *)
(* coroutines, and any number of deaths of the worker.                     *)
(***************************************************************************)
THEOREM AnsweredOnceHolds == Spec => []AnsweredOnce
<1>1. Init => AnswerInv
  <2> SUFFICES ASSUME Init, NEW m \in Messages PROVE OneJob(m) /\ OneAnswer(m)
    BY DEF AnswerInv
  <2>1. /\ message[m] = "NONE" /\ reply[m] = 0 /\ m \notin queued
        /\ \A u \in Turns : ~On(u, m)
    BY DEF Init, On, NoTurn
  <2> QED
    BY <2>1 DEF OneJob, OneAnswer
<1>2. TypeOK /\ AnswerInv /\ [Next]_vars => AnswerInv'
  <2> SUFFICES ASSUME TypeOK, AnswerInv, [Next]_vars, NEW m \in Messages
               PROVE  OneJob(m)' /\ OneAnswer(m)'
    BY DEF AnswerInv
  <2> QED
    BY AnswerGateway, AnswerStart, AnswerTurn, AnswerDies
    DEF Next, TurnStep, QuietStep, BookStep
<1>3. AnswerInv => AnsweredOnce
  <2> SUFFICES ASSUME AnswerInv, NEW m \in Messages \ repeated
               PROVE  /\ reply[m] <= 1
                      /\ Over(m) /\ m \notin lost \cup unfound => reply[m] = 1
    BY DEF AnsweredOnce
  <2>1. OneAnswer(m)
    BY DEF AnswerInv
  <2>2. ~Running(m) => \A u \in Turns : ~On(u, m)
    BY DEF Running, Live, On
  <2> QED
    BY <2>1, <2>2 DEF OneAnswer, Over
<1> QED
  BY <1>1, <1>2, <1>3, TypeCorrect, PTL DEF Spec
=============================================================================
