--------------------------- MODULE BatchLoop_proofs ---------------------------
(***************************************************************************)
(* Theorems about BatchLoop, for any deliverables and limits and any       *)
(* numbers of sessions, tool calls and resolutions that overlap.           *)
(***************************************************************************)
EXTENDS BatchLoop, TLAPS

USE DEF resolveVars, marks, Take

\* The counter reaches the threshold only on the way to the suspension.
TypeInv ==
  /\ TypeOK
  /\ \A s \in Sessions : pc[s] # "suspend" => counter[s] < Threshold

-----------------------------------------------------------------------------
\* What the tools write is a status again.
LEMMA TransitionType ==
  ASSUME NEW st \in Status PROVE ValidTransitions(st) \subseteq Status
  BY DEF ValidTransitions, Status

LEMMA NullType == NoCall \in Call /\ NoRow \in Row
  BY DEF NoCall, Call, CallKind, Status, NoRow, Row

\* Leaving the loop keeps the session's own variables typed.
LEMMA LeaveType ==
  ASSUME TypeInv, NEW s \in Sessions, Leave(s)
  PROVE  /\ pc' \in [Sessions -> LoopPc \cup {"idle", "agents"}]
         /\ todo' \in [Sessions -> SUBSET Deliverables]
         /\ cur' \in [Sessions -> Row]
         /\ failed' \in [Sessions -> BOOLEAN]
         /\ counter' \in [Sessions -> 0..Threshold]
         /\ \A t \in Sessions : pc'[t] # "suspend" => counter'[t] < Threshold
  BY NullType, LimitAssumption DEF TypeInv, TypeOK, Leave, Goto, LoopPc

\* A call of session s that a tool of the PM begins.
Asked(s) ==
  {o \in Call : /\ o.kind # "none" /\ o.by = s /\ o.of \in Deliverables
                /\ o.kind = "update" => status[o.of] \notin Satisfied}

\* A step of a tool call begins the call or commits it.
LEMMA ToolCases ==
  ASSUME TypeInv, NEW c \in Calls, ToolStep(c)
  PROVE  \/ CommitUpdate(c) \/ CommitDepends(c)
         \/ \E s \in Sessions : \E o \in Asked(s) : Begin(c, s, o)
<1>1. ASSUME NEW s \in Sessions, NEW d \in Deliverables,
             UpdateDeliverable(c, s, d)
      PROVE  \E o \in Asked(s) : Begin(c, s, o)
  <2>1. PICK to \in ValidTransitions(status[d]) :
          Begin(c, s, [kind |-> "update", by |-> s, of |-> d, to |-> to,
                       retry |-> IF to = "IN_PROGRESS" /\ status[d] = "FAILED"
                                   THEN retry[d] + 1 ELSE 0,
                       depends |-> {}])
    BY <1>1 DEF UpdateDeliverable
  <2>2. to \in Status /\ retry[d] \in Nat
    BY TransitionType DEF TypeInv, TypeOK
  <2>3. status[d] \notin Satisfied
    BY <2>1 DEF ValidTransitions, Satisfied
  <2> QED
    BY <2>1, <2>2, <2>3 DEF Asked, Call, CallKind
<1>2. ASSUME NEW s \in Sessions, NEW d \in Deliverables, NEW e \in Deliverables,
             AddDependency(c, s, d, e) \/ RemoveDependency(c, s, d, e)
      PROVE  \E o \in Asked(s) : Begin(c, s, o)
  <2>1. PICK ds \in SUBSET Deliverables :
          Begin(c, s, [kind |-> "depend", by |-> s, of |-> d, to |-> "PLANNED",
                       retry |-> 0, depends |-> ds])
    <3>1. /\ depends[d] \cup {e} \in SUBSET Deliverables
          /\ depends[d] \ {e} \in SUBSET Deliverables
      BY DEF TypeInv, TypeOK
    <3> QED
      BY <1>2, <3>1 DEF AddDependency, RemoveDependency
  <2> QED
    BY <2>1 DEF Asked, Call, CallKind, Status
<1> QED
  BY <1>1, <1>2 DEF ToolStep

LEMMA ToolStepType ==
  ASSUME TypeInv, NEW c \in Calls, ToolStep(c)
  PROVE  TypeInv'
<1>1. CASE CommitUpdate(c)
  <2>1. call[c] \in Call
    BY DEF TypeInv, TypeOK
  <2>2. status' \in [Deliverables -> Status] /\ retry' \in [Deliverables -> Nat]
    BY <1>1, <2>1 DEF CommitUpdate, TypeInv, TypeOK, Call
  <2>3. fresh' \in [Sessions -> 0..Threshold]
    <3>1. ASSUME NEW s \in Sessions, NEW b \in BOOLEAN
          PROVE  (IF b /\ fresh[s] < Threshold THEN fresh[s] + 1 ELSE fresh[s])
                   \in 0..Threshold
      BY <3>1, LimitAssumption DEF TypeInv, TypeOK
    <3> QED
      BY <1>1, <3>1 DEF CommitUpdate
  <2>4. call' \in [Calls -> Call]
    BY <1>1, NullType DEF CommitUpdate, TypeInv, TypeOK
  <2> QED
    BY <1>1, <2>2, <2>3, <2>4 DEF CommitUpdate, TypeInv, TypeOK, loopVars
<1>2. CASE CommitDepends(c)
  <2>1. call[c] \in Call
    BY DEF TypeInv, TypeOK
  <2>2. depends' \in [Deliverables -> SUBSET Deliverables]
    BY <1>2, <2>1 DEF CommitDepends, TypeInv, TypeOK, Call
  <2> QED
    BY <1>2, <2>2, NullType DEF CommitDepends, TypeInv, TypeOK, loopVars
<1>3. ASSUME NEW s \in Sessions, NEW o \in Call, Begin(c, s, o),
             o.of \in Deliverables
      PROVE  TypeInv'
  BY <1>3 DEF Begin, TypeInv, TypeOK, rows, loopVars
<1> QED
  BY <1>1, <1>2, <1>3, ToolCases DEF Asked

LEMMA LoopStepType ==
  ASSUME TypeInv, NEW s \in Sessions, LoopStep(s)
  PROVE  TypeInv'
<1> USE DEF Goto, LoopPc
<1>1. CASE SelectBatch(s)
  <2>1. Frontier \subseteq Deliverables
    BY DEF Frontier
  <2>2. CASE Leave(s)
    BY <1>1, <2>2, LeaveType DEF SelectBatch, TypeInv, TypeOK, rows
  <2> QED
    BY <1>1, <2>1, <2>2 DEF SelectBatch, TypeInv, TypeOK, rows
<1>2. CASE NextDeliverable(s)
  <2>1. CASE Leave(s)
    BY <1>2, <2>1, LeaveType DEF NextDeliverable, TypeInv, TypeOK, rows
  <2>2. ASSUME NEW d \in todo[s]
        PROVE  [of |-> d, st |-> status[d], retry |-> retry[d]] \in Row
    BY <2>2 DEF TypeInv, TypeOK, Row
  <2> QED
    BY <1>2, <2>1, <2>2 DEF NextDeliverable, TypeInv, TypeOK, rows
<1>3. CASE MarkInProgress(s)
  <2>1. cur[s].retry + 1 \in Nat
    BY DEF TypeInv, TypeOK, Row
  <2>2. status' \in [Deliverables -> Status] /\ retry' \in [Deliverables -> Nat]
    BY <1>3, <2>1 DEF MarkInProgress, TypeInv, TypeOK, Status
  <2> QED
    BY <1>3, <2>2 DEF MarkInProgress, TypeInv, TypeOK
<1>4. CASE VerifyDeliverable(s)
  BY <1>4, NullType DEF VerifyDeliverable, TypeInv, TypeOK, rows
<1>5. CASE TrackBatchResult(s)
  <2>1. counter[s] < Threshold /\ counter[s] \in Nat
    BY <1>5 DEF TrackBatchResult, TypeInv, TypeOK
  <2>2. counter' \in [Sessions -> 0..Threshold]
    BY <1>5, <2>1, LimitAssumption DEF TrackBatchResult, TypeInv, TypeOK
  <2>3. fresh' \in [Sessions -> 0..Threshold]
    BY <1>5, LimitAssumption DEF TrackBatchResult, TypeInv, TypeOK
  <2>4. \A t \in Sessions : pc'[t] # "suspend" => counter'[t] < Threshold
    BY <1>5, <2>2, LimitAssumption DEF TrackBatchResult, TypeInv, TypeOK
  <2> QED
    BY <1>5, <2>2, <2>3, <2>4 DEF TrackBatchResult, TypeInv, TypeOK, rows
<1>6. CASE CheckCost(s)
  BY <1>6, LeaveType DEF CheckCost, TypeInv, TypeOK, rows
<1>7. CASE SuspendProject(s)
  BY <1>7, LeaveType DEF SuspendProject, TypeInv, TypeOK, rows
<1>8. CASE SkipRead(s)
  <2>1. Stuck \subseteq Deliverables
    BY DEF Stuck
  <2>2. CASE Leave(s)
    BY <1>8, <2>2, LeaveType DEF SkipRead, TypeInv, TypeOK, rows
  <2> QED
    BY <1>8, <2>1, <2>2 DEF SkipRead, TypeInv, TypeOK, rows
<1>9. CASE SkipStuck(s)
  <2>1. status' \in [Deliverables -> Status]
    BY <1>9 DEF SkipStuck, TypeInv, TypeOK, Status
  <2> QED
    BY <1>9, <2>1, LeaveType DEF SkipStuck, TypeInv, TypeOK
<1> QED
  BY <1>1, <1>2, <1>3, <1>4, <1>5, <1>6, <1>7, <1>8, <1>9 DEF LoopStep

LEMMA ResolutionStepType ==
  ASSUME TypeInv, NEW r \in Resolvers,
         ReadFailed(r) \/ ResetFailed(r) \/ DropResolution(r)
  PROVE  TypeInv'
<1>1. CASE ReadFailed(r)
  <2>1. ASSUME NEW d \in Deliverables
        PROVE  [of |-> d, st |-> "FAILED", retry |-> retry[d]] \in Row
    BY DEF TypeInv, TypeOK, Row, Status
  <2> QED
    BY <1>1, <2>1 DEF ReadFailed, TypeInv, TypeOK, rows, loopVars
<1>2. CASE ResetFailed(r)
  BY <1>2 DEF ResetFailed, TypeInv, TypeOK, Status, loopVars
<1>3. CASE DropResolution(r)
  BY <1>3 DEF DropResolution, TypeInv, TypeOK, rows, loopVars
<1> QED
  BY <1>1, <1>2, <1>3

LEMMA TypeStep ==
  ASSUME TypeInv, [Next]_vars
  PROVE  TypeInv'
<1>1. ASSUME NEW c \in Calls, ToolStep(c)
      PROVE  TypeInv'
  BY <1>1, ToolStepType
<1>2. ASSUME NEW s \in Sessions, LoopStep(s)
      PROVE  TypeInv'
  BY <1>2, LoopStepType
<1>3. ASSUME NEW s \in Sessions, StartSession(s) \/ EndAgents(s)
      PROVE  TypeInv'
  BY <1>3, LimitAssumption
     DEF StartSession, EndAgents, Goto, TypeInv, TypeOK, rows, LoopPc
<1>4. ASSUME NEW s \in Sessions, KillSession(s)
      PROVE  TypeInv'
  BY <1>4, LeaveType, NullType DEF KillSession, TypeInv, TypeOK, rows
<1>5. CASE UNCHANGED vars
  BY <1>5 DEF vars, rows, loopVars, TypeInv, TypeOK
<1> QED
  BY <1>1, <1>2, <1>3, <1>4, <1>5, ResolutionStepType DEF Next

LEMMA TypeInit == Init => TypeInv
<1> SUFFICES ASSUME Init PROVE TypeInv
  OBVIOUS
<1>1. /\ status \in [Deliverables -> Status]
      /\ retry \in [Deliverables -> Nat]
      /\ depends \in [Deliverables -> SUBSET Deliverables]
      /\ disturbed \subseteq Sessions /\ raced \subseteq Deliverables
  BY DEF Init, Status
<1>2. /\ call \in [Calls -> Call]
      /\ cur \in [Sessions -> Row]
      /\ resolve \in [Resolvers -> SUBSET Row]
  BY NullType DEF Init
<1>3. /\ pc \in [Sessions -> LoopPc \cup {"idle", "agents"}]
      /\ todo \in [Sessions -> SUBSET Deliverables]
      /\ failed \in [Sessions -> BOOLEAN]
      /\ counter \in [Sessions -> 0..Threshold]
      /\ fresh \in [Sessions -> 0..Threshold]
      /\ \A s \in Sessions : pc[s] # "suspend" => counter[s] < Threshold
  BY LimitAssumption DEF Init
<1> QED
  BY <1>1, <1>2, <1>3 DEF Init, TypeInv, TypeOK

(***************************************************************************)
(* Type correctness: in particular the failure counter never exceeds the   *)
(* threshold (TypeOK), for any sessions and concurrent tool calls.         *)
(***************************************************************************)
THEOREM TypeCorrect == Spec => []TypeOK
<1>1. TypeInv => TypeOK
  BY DEF TypeInv
<1> QED
  BY TypeInit, TypeStep, <1>1, PTL DEF Spec

-----------------------------------------------------------------------------
\* What the loop has counted, and is about to count, was committed.
EarnedInv ==
  \A s \in Sessions :
    /\ pc[s] \in {"idle", "agents"} => counter[s] = 0
    /\ pc[s] \notin {"idle", "agents"} => fresh[s] >= counter[s]
    /\ pc[s] \in {"next", "mark", "verify", "count"} /\ failed[s]
         => fresh[s] >= counter[s] + 1
    /\ pc[s] = "verify" /\ status[cur[s].of] = "FAILED"
         => fresh[s] >= counter[s] + 1
    /\ pc[s] \in {"mark", "verify"} => cur[s].of \in Deliverables
    /\ pc[s] = "suspend" => counter[s] >= Threshold

LEMMA EarnedToolStep ==
  ASSUME TypeInv, EarnedInv, NEW c \in Calls, ToolStep(c)
  PROVE  EarnedInv'
<1>1. CASE CommitUpdate(c)
  <2>1. UNCHANGED loopVars
    BY <1>1 DEF CommitUpdate
  <2>2. ASSUME NEW s \in Sessions
        PROVE  /\ fresh'[s] >= fresh[s]
               /\ call[c].to = "FAILED" /\ counter[s] < Threshold
                    => fresh'[s] >= counter[s] + 1 \/ fresh[s] < counter[s]
    BY <1>1, LimitAssumption DEF CommitUpdate, TypeInv, TypeOK
  <2>3. ASSUME NEW d \in Deliverables, status'[d] = "FAILED"
        PROVE  status[d] = "FAILED" \/ call[c].to = "FAILED"
    BY <1>1, <2>3 DEF CommitUpdate, TypeInv, TypeOK
  <2>4. \A s \in Sessions : /\ fresh[s] \in Nat /\ fresh'[s] \in Nat
                            /\ counter[s] \in Nat
    <3>1. TypeInv'
      BY ToolStepType
    <3> QED
      BY <3>1, LimitAssumption DEF TypeInv, TypeOK
  <2> SUFFICES ASSUME NEW s \in Sessions
               PROVE  EarnedInv!(s)'
    BY DEF EarnedInv
  <2>5. pc[s] = "verify" /\ status'[cur[s].of] = "FAILED"
          => fresh'[s] >= counter[s] + 1
    BY <2>2, <2>3, <2>4 DEF EarnedInv, TypeInv
  <2> QED
    BY <2>1, <2>2, <2>4, <2>5 DEF EarnedInv, loopVars
<1>2. CASE UNCHANGED <<status, loopVars, fresh>>
  BY <1>2 DEF EarnedInv, loopVars
<1> QED
  BY <1>1, <1>2, ToolCases DEF CommitDepends, Begin, rows

LEMMA EarnedLeave ==
  ASSUME TypeInv, EarnedInv, NEW s \in Sessions, Leave(s), UNCHANGED fresh,
         \A d \in Deliverables : status'[d] = "FAILED" => status[d] = "FAILED"
  PROVE  EarnedInv'
  BY DEF TypeInv, TypeOK, EarnedInv, Leave, Goto

LEMMA EarnedLoopStep ==
  ASSUME TypeInv, EarnedInv, NEW s \in Sessions, LoopStep(s)
  PROVE  EarnedInv'
<1> USE DEF Goto, rows
<1>0. \A t \in Sessions : fresh[t] \in Nat /\ counter[t] \in Nat
  BY LimitAssumption DEF TypeInv, TypeOK
<1>1. CASE SelectBatch(s)
  BY <1>1, EarnedLeave DEF SelectBatch, TypeInv, TypeOK, EarnedInv
<1>2. CASE NextDeliverable(s)
  <2>1. CASE Leave(s)
    BY <1>2, <2>1, EarnedLeave DEF NextDeliverable
  <2> QED
    BY <1>2, <2>1 DEF NextDeliverable, TypeInv, TypeOK, EarnedInv
<1>3. CASE MarkInProgress(s)
  <2>1. cur[s].of \in Deliverables
    BY <1>3 DEF MarkInProgress, EarnedInv
  <2>2. /\ status'[cur[s].of] = "IN_PROGRESS"
        /\ \A d \in Deliverables : status'[d] = "FAILED" => status[d] = "FAILED"
    BY <1>3, <2>1 DEF MarkInProgress, TypeInv, TypeOK
  <2> QED
    BY <1>3, <2>1, <2>2 DEF MarkInProgress, TypeInv, TypeOK, EarnedInv
<1>4. CASE VerifyDeliverable(s)
  BY <1>4 DEF VerifyDeliverable, TypeInv, TypeOK, EarnedInv
<1>5. CASE TrackBatchResult(s)
  BY <1>0, <1>5, LimitAssumption
     DEF TrackBatchResult, TypeInv, TypeOK, EarnedInv
<1>6. CASE CheckCost(s)
  BY <1>6, EarnedLeave DEF CheckCost, TypeInv, TypeOK, EarnedInv
<1>7. CASE SuspendProject(s)
  BY <1>7, EarnedLeave DEF SuspendProject
<1>8. CASE SkipRead(s)
  BY <1>8, EarnedLeave DEF SkipRead, TypeInv, TypeOK, EarnedInv
<1>9. CASE SkipStuck(s)
  BY <1>9, EarnedLeave DEF SkipStuck
<1> QED
  BY <1>1, <1>2, <1>3, <1>4, <1>5, <1>6, <1>7, <1>8, <1>9 DEF LoopStep

(***************************************************************************)
(* SuspensionIsEarned, for any sessions and concurrent tool calls: the     *)
(* loop never suspends a project on fewer failures than the threshold.     *)
(***************************************************************************)
THEOREM SuspensionIsEarnedHolds == Spec => []SuspensionIsEarned
<1>1. Init => EarnedInv
  BY DEF Init, EarnedInv
<1>2. TypeInv /\ EarnedInv /\ [Next]_vars => EarnedInv'
  <2> SUFFICES ASSUME TypeInv, EarnedInv, [Next]_vars PROVE EarnedInv'
    OBVIOUS
  <2>1. ASSUME NEW s \in Sessions, StartSession(s) \/ EndAgents(s)
        PROVE  EarnedInv'
    BY <2>1 DEF StartSession, EndAgents, Goto, rows, TypeInv, TypeOK, EarnedInv
  <2>2. ASSUME NEW s \in Sessions, KillSession(s)
        PROVE  EarnedInv'
    BY <2>2, EarnedLeave DEF KillSession, rows
  <2>3. CASE UNCHANGED vars
    BY <2>3 DEF vars, rows, loopVars, EarnedInv
  <2>4. ASSUME NEW r \in Resolvers,
               ReadFailed(r) \/ ResetFailed(r) \/ DropResolution(r)
        PROVE  EarnedInv'
    <3>1. UNCHANGED <<loopVars, fresh>>
      BY <2>4 DEF ReadFailed, ResetFailed, DropResolution
    <3>2. \A d \in Deliverables : status'[d] = "FAILED" => status[d] = "FAILED"
      BY <2>4 DEF ReadFailed, ResetFailed, DropResolution, rows, TypeInv, TypeOK
    <3> QED
      BY <3>1, <3>2 DEF EarnedInv, loopVars
  <2> QED
    BY <2>1, <2>2, <2>3, <2>4, EarnedToolStep, EarnedLoopStep DEF Next
<1>3. TypeInv /\ EarnedInv => SuspensionIsEarned
  BY LimitAssumption DEF TypeInv, TypeOK, EarnedInv, SuspensionIsEarned
<1> QED
  BY TypeInit, TypeStep, <1>1, <1>2, <1>3, PTL DEF Spec

-----------------------------------------------------------------------------
\* Whoever waits on a permanent failure, or on a stuck deliverable, is stuck.
LEMMA StuckClosed ==
  ASSUME NEW d \in Deliverables, status[d] \in Waiting, NEW e \in depends[d],
         PermanentlyFailed(e) \/ e \in Stuck
  PROVE  d \in Stuck
  BY DEF Stuck

\* A deliverable reaches what its dependencies reach.
LEMMA ReachesStep ==
  ASSUME TypeInv, NEW d \in Deliverables, NEW e \in depends[d],
         NEW f \in Deliverables, e = f \/ Reaches(e, f)
  PROVE  Reaches(d, f)
<1> SUFFICES ASSUME NEW C \in SUBSET Deliverables, d \in C, Closed(C)
             PROVE  f \in C
  BY DEF Reaches
<1>1. e \in C
  BY DEF Closed
<1> QED
  BY <1>1 DEF Reaches

LEMMA StuckIsBlocked ==
  ASSUME TypeInv, NEW d \in Stuck
  PROVE  /\ status[d] \in Waiting
         /\ \E e \in Deliverables : PermanentlyFailed(e) /\ Reaches(d, e)
<1> DEFINE B == {x \in Deliverables :
                   /\ status[x] \in Waiting
                   /\ \E f \in Deliverables :
                        PermanentlyFailed(f) /\ Reaches(x, f)}
<1>1. ASSUME NEW x \in Deliverables, status[x] \in Waiting,
             NEW e \in depends[x], PermanentlyFailed(e) \/ e \in B
      PROVE  x \in B
  <2>1. e \in Deliverables
    BY DEF TypeInv, TypeOK
  <2>2. PICK f \in Deliverables :
          PermanentlyFailed(f) /\ (e = f \/ Reaches(e, f))
    BY <1>1, <2>1
  <2>3. Reaches(x, f)
    BY <2>2, ReachesStep
  <2> QED
    BY <1>1, <2>2, <2>3
<1>2. B \in SUBSET Deliverables
  OBVIOUS
<1>3. d \in B
  <2> HIDE DEF B
  <2> QED
    BY <1>1, <1>2 DEF Stuck
<1> QED
  BY <1>3

(***************************************************************************)
(* An undisturbed loop.  It begins when the calls of its agents have       *)
(* ended, and no other session and no resolution runs until it is over:    *)
(* nobody else writes a row, so that what it selected stays ready, and     *)
(* what it found stuck stays stuck.                                        *)
(***************************************************************************)
Alone(s) ==
  /\ \A t \in Sessions \ {s} : pc[t] = "idle"
  /\ \A r \in Resolvers : resolve[r] = {}

Quiet ==
  /\ \A c \in Calls : call[c].kind # "none" => call[c].by \in Sessions
  /\ \A c \in Calls, s \in Sessions : pc[s] # "agents" => call[c].by # s
  /\ \A s \in Sessions \ disturbed : pc[s] \in LoopPc => Alone(s)

Batch(s) ==
  /\ pc[s] \in {"next", "mark", "verify"} => todo[s] \subseteq Frontier
  /\ pc[s] = "mark" => cur[s].of \in Frontier \ todo[s]
  /\ pc[s] = "skip_read" => Frontier = {}
  /\ pc[s] = "skip" => todo[s] = Stuck

UndisturbedInv == Quiet /\ \A s \in Sessions \ disturbed : Batch(s)

\* A session outside of its loop has no batch.
LEMMA BatchIsOfLoop ==
  ASSUME NEW s \in Sessions, pc[s] \notin LoopPc
  PROVE  Batch(s)
  BY DEF Batch, LoopPc

\* While another session or a resolution is at work, every loop is disturbed.
LEMMA Busy ==
  ASSUME Quiet, NEW s \in Sessions \ disturbed,
         \/ \E t \in Sessions : t # s /\ pc[t] # "idle"
         \/ \E t \in Sessions : pc[t] = "agents"
         \/ \E r \in Resolvers : resolve[r] # {}
  PROVE  pc[s] \notin LoopPc
  BY DEF Quiet, Alone, LoopPc

LEMMA UndisturbedToolStep ==
  ASSUME TypeInv, UndisturbedInv, NEW c \in Calls, ToolStep(c)
  PROVE  UndisturbedInv'
<1>1. UNCHANGED <<pc, resolve, disturbed>>
  BY ToolCases DEF CommitUpdate, CommitDepends, Begin, loopVars
<1>2. \E s \in Sessions : pc[s] = "agents"
  <2>1. CASE call[c].kind # "none"
    BY <2>1 DEF UndisturbedInv, Quiet
  <2> QED
    BY <2>1, ToolCases DEF CommitUpdate, CommitDepends, Begin
<1>3. \A s \in Sessions \ disturbed' : pc'[s] \notin LoopPc
  BY <1>1, <1>2, Busy DEF UndisturbedInv
<1>4. \A s \in Sessions \ disturbed' : Batch(s)'
  BY <1>3 DEF Batch, LoopPc
<1>5. \A b \in Calls : \/ call'[b] = call[b] \/ call'[b] = NoCall
                       \/ \E s \in Sessions : /\ pc[s] = "agents"
                                               /\ call'[b] \in Asked(s)
  <2>1. \A o : call' = [call EXCEPT ![c] = o]
                => \A b \in Calls : call'[b] = IF b = c THEN o ELSE call[b]
    BY DEF TypeInv, TypeOK
  <2>2. CASE CommitUpdate(c) \/ CommitDepends(c)
    BY <2>1, <2>2 DEF CommitUpdate, CommitDepends
  <2>3. ASSUME NEW s \in Sessions, NEW o \in Asked(s), Begin(c, s, o)
        PROVE  \A b \in Calls : call'[b] = call[b]
                                 \/ (pc[s] = "agents" /\ call'[b] \in Asked(s))
    BY <2>1, <2>3 DEF Begin
  <2> QED
    BY <2>2, <2>3, ToolCases
<1>6. Quiet'
  <2>1. \A b \in Calls : call'[b].kind # "none" => call'[b].by \in Sessions
    BY <1>5 DEF Asked, NoCall, UndisturbedInv, Quiet
  <2>2. \A b \in Calls, s \in Sessions : pc[s] # "agents" => call'[b].by # s
    BY <1>5, NothingAssumption DEF Asked, NoCall, UndisturbedInv, Quiet
  <2> QED
    BY <1>1, <1>3, <2>1, <2>2 DEF Quiet
<1> QED
  BY <1>4, <1>6 DEF UndisturbedInv

LEMMA UndisturbedResolution ==
  ASSUME TypeInv, UndisturbedInv, NEW r \in Resolvers,
         ReadFailed(r) \/ ResetFailed(r) \/ DropResolution(r)
  PROVE  UndisturbedInv'
<1>1. UNCHANGED <<call, pc>>
  BY DEF ReadFailed, ResetFailed, DropResolution, loopVars
<1>2. \A s \in Sessions \ disturbed' : pc'[s] \notin LoopPc
  <2>1. CASE ReadFailed(r)
    BY <1>1, <2>1 DEF ReadFailed
  <2>2. CASE ResetFailed(r) \/ DropResolution(r)
    BY <1>1, <2>2, Busy DEF ResetFailed, DropResolution, UndisturbedInv
  <2> QED
    BY <2>1, <2>2
<1> QED
  BY <1>1, <1>2 DEF UndisturbedInv, Quiet, Batch, LoopPc

\* The mark of a deliverable leaves the others, and what they wait for, alone.
LEMMA MarkOthers ==
  ASSUME TypeInv, NEW s \in Sessions, MarkInProgress(s)
  PROVE  \A e \in Deliverables \ {cur[s].of} :
           status'[e] = status[e] /\ retry'[e] = retry[e]
  BY DEF MarkInProgress, TypeInv, TypeOK

LEMMA BatchLoopStep ==
  ASSUME TypeInv, NEW s \in Sessions, Batch(s), LoopStep(s),
         ~Leave(s)
  PROVE  Batch(s)'
<1> USE DEF Goto
<1>1. CASE SelectBatch(s)
  BY <1>1 DEF SelectBatch, rows, TypeInv, TypeOK, Batch, Frontier, Actionable
<1>2. CASE NextDeliverable(s)
  BY <1>2 DEF NextDeliverable, rows, TypeInv, TypeOK, Batch, Frontier,
              Actionable
<1>3. CASE MarkInProgress(s)
  <2> DEFINE d == cur[s].of
  <2>1. /\ d \in Deliverables /\ Actionable(d) /\ d \notin todo[s]
        /\ todo[s] \subseteq Frontier
    BY <1>3 DEF MarkInProgress, Batch, Frontier
  <2>2. status[d] \notin Satisfied
    BY <2>1 DEF Actionable, Satisfied, Waiting
  <2>3. todo[s] \subseteq Frontier'
    <3> SUFFICES ASSUME NEW x \in todo[s] PROVE x \in Frontier'
      OBVIOUS
    <3>1. /\ x \in Deliverables \ {d} /\ Actionable(x)
          /\ \A e \in depends[x] : status[e] \in Satisfied
      BY <2>1 DEF Frontier
    <3>2. \A e \in depends[x] : e \in Deliverables \ {d}
      BY <2>2, <3>1 DEF TypeInv, TypeOK
    <3>3. Actionable(x)'
      BY <1>3, <3>1, MarkOthers DEF Actionable
    <3>4. depends' = depends
      BY <1>3 DEF MarkInProgress
    <3> QED
      BY <1>3, <3>1, <3>2, <3>3, <3>4, MarkOthers DEF Frontier
  <2> QED
    BY <1>3, <2>3 DEF MarkInProgress, TypeInv, TypeOK, Batch
<1>4. CASE VerifyDeliverable(s)
  BY <1>4 DEF VerifyDeliverable, rows, TypeInv, TypeOK, Batch, Frontier,
              Actionable
<1>5. CASE TrackBatchResult(s) \/ CheckCost(s)
  BY <1>5 DEF TrackBatchResult, CheckCost, TypeInv, TypeOK, Batch
<1>6. CASE SkipRead(s)
  <2>1. todo'[s] = Stuck /\ pc'[s] = "skip" /\ UNCHANGED rows
    BY <1>6 DEF SkipRead, TypeInv, TypeOK
  <2>2. Stuck' = Stuck
    BY <2>1 DEF Stuck, PermanentlyFailed, rows
  <2> QED
    BY <2>1, <2>2 DEF Batch
<1> QED
  BY <1>1, <1>2, <1>3, <1>4, <1>5, <1>6 DEF LoopStep, SuspendProject, SkipStuck

\* A step of the loop touches no call and no resolution, disturbs nobody and
\* leaves the other sessions where they are.
LEMMA LoopFrame ==
  ASSUME TypeInv, NEW s \in Sessions, LoopStep(s)
  PROVE  /\ pc[s] \in LoopPc /\ pc'[s] # "agents"
         /\ UNCHANGED <<call, resolve, disturbed, crossed>>
         /\ \A t \in Sessions : t # s => pc'[t] = pc[t]
<1> USE DEF Goto, Leave, LoopPc, TypeInv, TypeOK
<1>1. CASE SelectBatch(s) \/ NextDeliverable(s) \/ MarkInProgress(s)
  BY <1>1 DEF SelectBatch, NextDeliverable, MarkInProgress
<1>2. CASE VerifyDeliverable(s) \/ TrackBatchResult(s) \/ CheckCost(s)
  BY <1>2 DEF VerifyDeliverable, TrackBatchResult, CheckCost
<1>3. CASE SuspendProject(s) \/ SkipRead(s) \/ SkipStuck(s)
  BY <1>3 DEF SuspendProject, SkipRead, SkipStuck
<1> QED
  BY <1>1, <1>2, <1>3 DEF LoopStep

LEMMA UndisturbedLoopStep ==
  ASSUME TypeInv, UndisturbedInv, NEW s \in Sessions, LoopStep(s)
  PROVE  UndisturbedInv'
<1>1. /\ pc[s] \in LoopPc /\ pc'[s] # "agents" /\ pc[s] # "idle"
      /\ UNCHANGED <<call, resolve, disturbed>>
      /\ \A t \in Sessions : t # s => pc'[t] = pc[t]
  BY LoopFrame DEF LoopPc
<1>2. \A t \in Sessions \ disturbed : t # s => pc[t] \notin LoopPc
  BY <1>1, Busy DEF UndisturbedInv
<1>3. Quiet'
  BY <1>1, <1>2 DEF UndisturbedInv, Quiet, Alone, LoopPc
<1>4. \A t \in Sessions \ disturbed : t # s => Batch(t)'
  BY <1>1, <1>2 DEF Batch, LoopPc
<1>5. s \notin disturbed => Batch(s)'
  <2>1. CASE Leave(s)
    BY <2>1 DEF Leave, Goto, Batch, TypeInv, TypeOK
  <2>2. CASE ~Leave(s)
    BY <2>2, BatchLoopStep DEF UndisturbedInv
  <2> QED
    BY <2>1, <2>2
<1> QED
  BY <1>1, <1>3, <1>4, <1>5 DEF UndisturbedInv

LEMMA UndisturbedInit == Init => UndisturbedInv
  BY NothingAssumption
     DEF Init, UndisturbedInv, Quiet, Alone, Batch, NoCall, LoopPc

LEMMA UndisturbedStep ==
  ASSUME TypeInv, UndisturbedInv, [Next]_vars
  PROVE  UndisturbedInv'
<1>1. ASSUME NEW s \in Sessions, StartSession(s)
      PROVE  UndisturbedInv'
  <2>1. \A t \in Sessions \ disturbed' : pc'[t] \notin LoopPc
    BY <1>1 DEF StartSession, Goto, TypeInv, TypeOK, LoopPc
  <2>2. \A t \in Sessions : pc'[t] # "agents" => pc[t] # "agents"
    BY <1>1 DEF StartSession, Goto, TypeInv, TypeOK
  <2> QED
    BY <1>1, <2>1, <2>2
       DEF StartSession, UndisturbedInv, Quiet, Batch, LoopPc
<1>2. ASSUME NEW s \in Sessions, EndAgents(s)
      PROVE  UndisturbedInv'
  <2>1. /\ pc[s] = "agents" /\ pc'[s] = "select"
        /\ \A t \in Sessions : t # s => pc'[t] = pc[t]
        /\ UNCHANGED <<call, resolve>>
    BY <1>2 DEF EndAgents, Goto, TypeInv, TypeOK
  <2>2. \A t \in Sessions \ disturbed' : t # s => pc'[t] \notin LoopPc
    <3>1. \A t \in Sessions \ disturbed' : t # s => t \notin disturbed
      BY <1>2 DEF EndAgents
    <3> QED
      BY <2>1, <3>1, Busy DEF UndisturbedInv
  <2>3. s \notin disturbed' => Alone(s)'
    BY <1>2, <2>1 DEF EndAgents, Alone
  <2>4. Quiet'
    BY <1>2, <2>1, <2>2, <2>3 DEF EndAgents, UndisturbedInv, Quiet
  <2>5. \A t \in Sessions \ disturbed' : Batch(t)'
    BY <2>1, <2>2 DEF Batch, LoopPc
  <2> QED
    BY <2>4, <2>5 DEF UndisturbedInv
<1>3. ASSUME NEW s \in Sessions, KillSession(s)
      PROVE  UndisturbedInv'
  <2>1. /\ pc[s] # "idle" /\ pc'[s] = "idle"
        /\ \A t \in Sessions : t # s => pc'[t] = pc[t]
        /\ UNCHANGED <<resolve, disturbed>>
        /\ \A c \in Calls : call'[c] = IF call[c].by = s THEN NoCall ELSE call[c]
    BY <1>3 DEF KillSession, Leave, Goto, TypeInv, TypeOK
  <2>2. \A t \in Sessions \ disturbed : pc'[t] \notin LoopPc
    BY <2>1, Busy DEF UndisturbedInv, LoopPc
  <2>3. Quiet'
    BY <2>1, <2>2, NothingAssumption DEF UndisturbedInv, Quiet, NoCall
  <2> QED
    BY <2>1, <2>2, <2>3 DEF UndisturbedInv, Batch, LoopPc
<1>4. CASE UNCHANGED vars
  BY <1>4 DEF vars, rows, loopVars, UndisturbedInv, Quiet, Alone, Batch,
              Frontier, Actionable, Stuck, PermanentlyFailed
<1> QED
  BY <1>1, <1>2, <1>3, <1>4, UndisturbedToolStep, UndisturbedResolution,
     UndisturbedLoopStep DEF Next

LEMMA UndisturbedSafe ==
  ASSUME TypeInv, UndisturbedInv
  PROVE  StartedInOrder /\ SkippedIsBlocked /\ NothingForgotten
<1> SUFFICES ASSUME NEW s \in Sessions \ disturbed
             PROVE  /\ StartedInOrder!(s) /\ SkippedIsBlocked!(s)
                    /\ NothingForgotten!(s)
  BY DEF StartedInOrder, SkippedIsBlocked, NothingForgotten
<1>1. Batch(s)
  BY DEF UndisturbedInv
<1>2. StartedInOrder!(s)
  BY <1>1 DEF Batch, Frontier
<1>3. SkippedIsBlocked!(s)
  BY <1>1, StuckIsBlocked DEF Batch
<1>4. ASSUME pc[s] = "skip_read", NEW d \in Deliverables \ Stuck,
             status[d] \in Waiting
      PROVE  /\ \A e \in depends[d] : ~PermanentlyFailed(e) /\ e \notin Stuck
             /\ \E e \in depends[d] : status[e] \notin Satisfied
  <2>1. \A e \in depends[d] : ~PermanentlyFailed(e) /\ e \notin Stuck
    BY <1>4, StuckClosed
  <2>2. d \notin Frontier
    BY <1>1, <1>4 DEF Batch
  <2> QED
    BY <1>4, <2>1, <2>2 DEF Frontier, Actionable
<1> QED
  BY <1>2, <1>3, <1>4

(***************************************************************************)
(* StartedInOrder: a loop that no resolution and no other session overlaps *)
(* starts deliverables on finished dependencies only.                      *)
(***************************************************************************)
THEOREM StartedInOrderHolds == Spec => []StartedInOrder
  BY TypeInit, TypeStep, UndisturbedInit, UndisturbedStep, UndisturbedSafe, PTL
     DEF Spec

\* SkippedIsBlocked: what such a loop skips could not have run.
THEOREM SkippedIsBlockedHolds == Spec => []SkippedIsBlocked
  BY TypeInit, TypeStep, UndisturbedInit, UndisturbedStep, UndisturbedSafe, PTL
     DEF Spec

\* NothingForgotten: what such a loop leaves waiting may yet become ready.
THEOREM NothingForgottenHolds == Spec => []NothingForgotten
  BY TypeInit, TypeStep, UndisturbedInit, UndisturbedStep, UndisturbedSafe, PTL
     DEF Spec

-----------------------------------------------------------------------------
(***************************************************************************)
(* While no two calls of manage_dependencies overlap, what one of them has *)
(* checked still holds when it commits.  First about graphs in general: D  *)
(* is acyclic when every edge leaves some closed set that its source is    *)
(* not in.                                                                 *)
(***************************************************************************)
ClosedIn(D, C) == \A d \in C : D[d] \subseteq C

Avoids(D, e, d) ==
  \E C \in SUBSET Deliverables : e \in C /\ d \notin C /\ ClosedIn(D, C)

AcyclicIn(D) == \A d \in Deliverables : \A e \in D[d] : Avoids(D, e, d)

LEMMA AvoidsIsNotReaches ==
  ASSUME NEW d \in Deliverables, NEW e
  PROVE  Avoids(depends, e, d) <=> ~Reaches(e, d)
  BY DEF Avoids, ClosedIn, Reaches, Closed

LEMMA AcyclicIsNoCycle == TypeInv => (AcyclicIn(depends) <=> Acyclic)
  BY AvoidsIsNotReaches DEF AcyclicIn, Acyclic, TypeInv, TypeOK

\* Removing edges keeps a graph acyclic.
LEMMA AcyclicRemove ==
  ASSUME NEW D, AcyclicIn(D), NEW E,
         \A d \in Deliverables : E[d] \subseteq D[d]
  PROVE  AcyclicIn(E)
<1> SUFFICES ASSUME NEW d \in Deliverables, NEW e \in E[d]
             PROVE  Avoids(E, e, d)
  BY DEF AcyclicIn
<1>1. PICK C \in SUBSET Deliverables :
        e \in C /\ d \notin C /\ ClosedIn(D, C)
  BY DEF AcyclicIn, Avoids
<1>2. ClosedIn(E, C)
  BY <1>1 DEF ClosedIn
<1> QED
  BY <1>1, <1>2 DEF Avoids

(***************************************************************************)
(* So does adding an edge from d to an e that does not reach d.  Let A be  *)
(* closed with e but not d.  For another edge from x to y, take B closed   *)
(* with y but not x: if d is not in B, B does; if x is in A, so is y, and  *)
(* B \cap A does; otherwise B \cup A does.                                 *)
(***************************************************************************)
LEMMA AcyclicAdd ==
  ASSUME NEW D \in [Deliverables -> SUBSET Deliverables], AcyclicIn(D),
         NEW d \in Deliverables, NEW e \in Deliverables, Avoids(D, e, d)
  PROVE  AcyclicIn([D EXCEPT ![d] = D[d] \cup {e}])
<1> DEFINE E == [D EXCEPT ![d] = D[d] \cup {e}]
<1>0. /\ E[d] = D[d] \cup {e}
      /\ \A x \in Deliverables : x # d => E[x] = D[x]
  OBVIOUS
<1> HIDE DEF E
<1>1. PICK A \in SUBSET Deliverables :
        e \in A /\ d \notin A /\ ClosedIn(D, A)
  BY DEF Avoids
<1>2. ClosedIn(E, A)
  BY <1>0, <1>1 DEF ClosedIn
<1> SUFFICES ASSUME NEW x \in Deliverables, NEW y \in E[x]
             PROVE  Avoids(E, y, x)
  BY DEF AcyclicIn, E
<1>3. CASE x = d /\ y = e
  BY <1>1, <1>2, <1>3 DEF Avoids
<1>4. CASE y \in D[x]
  <2>1. PICK B \in SUBSET Deliverables :
          y \in B /\ x \notin B /\ ClosedIn(D, B)
    BY <1>4 DEF AcyclicIn, Avoids
  <2>2. CASE d \notin B
    <3>1. ClosedIn(E, B)
      BY <1>0, <2>1, <2>2 DEF ClosedIn
    <3> QED
      BY <2>1, <3>1 DEF Avoids
  <2>3. CASE x \in A
    <3>1. y \in B \cap A /\ x \notin B \cap A
      BY <1>1, <1>4, <2>1, <2>3 DEF ClosedIn
    <3>2. ClosedIn(E, B \cap A)
      BY <1>0, <1>1, <2>1 DEF ClosedIn
    <3> QED
      BY <3>1, <3>2 DEF Avoids
  <2>4. CASE x \notin A
    <3>1. y \in B \cup A /\ x \notin B \cup A
      BY <2>1, <2>4
    <3>2. ClosedIn(E, B \cup A)
      BY <1>0, <1>1, <2>1 DEF ClosedIn
    <3>3. B \cup A \in SUBSET Deliverables
      OBVIOUS
    <3> QED
      BY <3>1, <3>2, <3>3 DEF Avoids
  <2> QED
    BY <2>2, <2>3, <2>4
<1> QED
  BY <1>0, <1>3, <1>4

\* Until two dependency calls cross, only one is in flight, and the graph is
\* acyclic, and will be when that one commits.
GraphInv ==
  \/ crossed
  \/ /\ AcyclicIn(depends)
     /\ \A b, c \in Calls :
          call[b].kind = "depend" /\ call[c].kind = "depend" => b = c
     /\ \A c \in Calls :
          call[c].kind = "depend" =>
            AcyclicIn([depends EXCEPT ![call[c].of] = call[c].depends])

LEMMA GraphToolStep ==
  ASSUME TypeInv, GraphInv, NEW c \in Calls, ToolStep(c)
  PROVE  GraphInv'
<1>1. CASE CommitDepends(c)
  <2>1. ~crossed => AcyclicIn(depends')
    BY <1>1 DEF CommitDepends, GraphInv
  <2>2. ~crossed => \A b \in Calls : call'[b].kind # "depend"
    BY <1>1 DEF CommitDepends, GraphInv, NoCall, TypeInv, TypeOK
  <2> QED
    BY <1>1, <2>1, <2>2 DEF CommitDepends, GraphInv
<1>2. CASE CommitUpdate(c)
  <2>1. /\ UNCHANGED <<depends, crossed>>
        /\ \A b \in Calls : call'[b].kind = "depend" => call'[b] = call[b]
    BY <1>2 DEF CommitUpdate, NoCall, TypeInv, TypeOK
  <2> QED
    BY <2>1 DEF GraphInv
<1>3. ASSUME NEW s \in Sessions, NEW o,
             ~crossed /\ o.kind = "depend"
               => AcyclicIn([depends EXCEPT ![o.of] = o.depends]),
             Begin(c, s, o)
      PROVE  GraphInv'
  <2>1. /\ UNCHANGED depends
        /\ call'[c] = o
        /\ \A b \in Calls : b # c => call'[b] = call[b]
        /\ ~crossed' => ~crossed
        /\ ~crossed' /\ o.kind = "depend"
             => \A b \in Calls : call[b].kind # "depend"
    BY <1>3 DEF Begin, rows, TypeInv, TypeOK
  <2> QED
    BY <1>3, <2>1 DEF GraphInv
<1>4. ASSUME NEW s \in Sessions, NEW d \in Deliverables,
             UpdateDeliverable(c, s, d)
      PROVE  GraphInv'
  <2>1. PICK o : o.kind = "update" /\ Begin(c, s, o)
    <3>1. PICK to \in ValidTransitions(status[d]) :
            Begin(c, s, [kind |-> "update", by |-> s, of |-> d, to |-> to,
                         retry |-> IF to = "IN_PROGRESS" /\ status[d] = "FAILED"
                                     THEN retry[d] + 1 ELSE 0,
                         depends |-> {}])
      BY <1>4 DEF UpdateDeliverable
    <3> QED
      BY <3>1
  <2> QED
    BY <1>3, <2>1
<1>5. ASSUME NEW s \in Sessions, NEW d \in Deliverables, NEW e \in Deliverables,
             AddDependency(c, s, d, e)
      PROVE  GraphInv'
  <2>1. ~crossed => AcyclicIn([depends EXCEPT ![d] = depends[d] \cup {e}])
    BY <1>5, AvoidsIsNotReaches, AcyclicAdd
       DEF AddDependency, GraphInv, TypeInv, TypeOK
  <2> QED
    BY <1>3, <1>5, <2>1 DEF AddDependency
<1>6. ASSUME NEW s \in Sessions, NEW d \in Deliverables, NEW e \in Deliverables,
             RemoveDependency(c, s, d, e)
      PROVE  GraphInv'
  <2> DEFINE E == [depends EXCEPT ![d] = depends[d] \ {e}]
  <2>1. \A x \in Deliverables : E[x] \subseteq depends[x]
    BY DEF TypeInv, TypeOK
  <2>2. ~crossed => AcyclicIn(E)
    <3> HIDE DEF E
    <3> QED
      BY <2>1, AcyclicRemove DEF GraphInv
  <2> QED
    BY <1>3, <1>6, <2>2 DEF RemoveDependency
<1> QED
  BY <1>1, <1>2, <1>4, <1>5, <1>6 DEF ToolStep

\* No other step touches a dependency, and none but a kill a call.
LEMMA GraphFrame ==
  ASSUME [Next]_vars, ~\E c \in Calls : ToolStep(c)
  PROVE  /\ UNCHANGED <<depends, crossed>>
         /\ \/ UNCHANGED call
            \/ \E s \in Sessions :
                 call' = [c \in Calls |-> IF call[c].by = s THEN NoCall
                                                            ELSE call[c]]
  BY DEF Next, LoopStep, StartSession, EndAgents, KillSession, SelectBatch,
         NextDeliverable, MarkInProgress, VerifyDeliverable, TrackBatchResult,
         CheckCost, SuspendProject, SkipRead, SkipStuck, ReadFailed,
         ResetFailed, DropResolution, vars, rows, loopVars

(***************************************************************************)
(* NoDependencyCycle: until two calls of manage_dependencies are in flight *)
(* at once, no sequence of additions and removals closes a cycle, whatever *)
(* sessions and other calls overlap.                                       *)
(***************************************************************************)
THEOREM NoDependencyCycleHolds == Spec => []NoDependencyCycle
<1>1. Init => GraphInv
  BY DEF Init, GraphInv, AcyclicIn, NoCall
<1>2. TypeInv /\ GraphInv /\ [Next]_vars => GraphInv'
  <2> SUFFICES ASSUME TypeInv, GraphInv, [Next]_vars PROVE GraphInv'
    OBVIOUS
  <2>1. CASE ~\E c \in Calls : ToolStep(c)
    <3>1. \A c \in Calls : call'[c].kind = "depend" => call'[c] = call[c]
      BY <2>1, GraphFrame DEF NoCall
    <3> QED
      BY <2>1, <3>1, GraphFrame DEF GraphInv
  <2> QED
    BY <2>1, GraphToolStep
<1>3. TypeInv /\ GraphInv => NoDependencyCycle
  BY AcyclicIsNoCycle DEF GraphInv, NoDependencyCycle
<1> QED
  BY TypeInit, TypeStep, <1>1, <1>2, <1>3, PTL DEF Spec

-----------------------------------------------------------------------------
(***************************************************************************)
(* Rows that are not raced have one writer at a time, and what it has read *)
(* of the row still holds when it writes.                                  *)
(***************************************************************************)
CallHolds(c, d) == call[c].kind = "update" /\ call[c].of = d
SessionHolds(s, d) == d \in todo[s] \/ (pc[s] = "mark" /\ cur[s].of = d)
ResolverHolds(r, d) == \E x \in resolve[r] : x.of = d

OneWriter(d) ==
  /\ \A b, c \in Calls : CallHolds(b, d) /\ CallHolds(c, d) => b = c
  /\ \A s, t \in Sessions : SessionHolds(s, d) /\ SessionHolds(t, d) => s = t
  /\ \A q, r \in Resolvers : ResolverHolds(q, d) /\ ResolverHolds(r, d) => q = r
  /\ \A c \in Calls, s \in Sessions : ~(CallHolds(c, d) /\ SessionHolds(s, d))
  /\ \A c \in Calls, r \in Resolvers : ~(CallHolds(c, d) /\ ResolverHolds(r, d))
  /\ \A s \in Sessions, r \in Resolvers :
       ~(SessionHolds(s, d) /\ ResolverHolds(r, d))

UpToDate(d) ==
  /\ \A c \in Calls : CallHolds(c, d) => status[d] \notin Satisfied
  /\ \A s \in Sessions :
       SessionHolds(s, d) =>
         /\ Actionable(d)
         /\ pc[s] = "mark" /\ cur[s].of = d /\ cur[s].st = "FAILED"
              => status[d] = "FAILED"
  /\ \A r \in Resolvers : ResolverHolds(r, d) => status[d] = "FAILED"

\* A session has a batch only while it works through it, and the row it marks
\* is no longer in the batch.
BatchInv ==
  \A s \in Sessions :
    /\ todo[s] # {} => pc[s] \in {"next", "mark", "verify", "skip"}
    /\ pc[s] = "mark" => cur[s].of \in Deliverables \ todo[s]

RowInv ==
  BatchInv /\ \A d \in Deliverables \ raced : OneWriter(d) /\ UpToDate(d)

LEMMA InHandIsHeld ==
  ASSUME NEW d
  PROVE  InHand(d) <=> \/ \E c \in Calls : CallHolds(c, d)
                       \/ \E s \in Sessions : SessionHolds(s, d)
                       \/ \E r \in Resolvers : ResolverHolds(r, d)
  BY DEF InHand, CallHolds, SessionHolds, ResolverHolds

\* A row that nobody writes, and nobody takes.
LEMMA RowLeft ==
  ASSUME NEW d \in Deliverables, OneWriter(d), UpToDate(d),
         status'[d] = status[d], retry'[d] = retry[d],
         \A c \in Calls : CallHolds(c, d)' => CallHolds(c, d),
         \A r \in Resolvers : ResolverHolds(r, d)' => ResolverHolds(r, d),
         \A s \in Sessions :
           SessionHolds(s, d)' =>
             /\ SessionHolds(s, d)
             /\ pc'[s] = "mark" /\ cur'[s].of = d /\ cur'[s].st = "FAILED"
                  => status[d] = "FAILED"
  PROVE  OneWriter(d)' /\ UpToDate(d)'
<1>1. OneWriter(d)'
  BY DEF OneWriter
<1>2. Actionable(d)' <=> Actionable(d)
  BY DEF Actionable
<1> QED
  BY <1>1, <1>2 DEF UpToDate

\* A row that nobody has in hand.
LEMMA RowFree ==
  ASSUME NEW d \in Deliverables,
         \A c \in Calls : ~CallHolds(c, d)',
         \A s \in Sessions : ~SessionHolds(s, d)',
         \A r \in Resolvers : ~ResolverHolds(r, d)'
  PROVE  OneWriter(d)' /\ UpToDate(d)'
  BY DEF OneWriter, UpToDate

LEMMA RowToolStep ==
  ASSUME TypeInv, RowInv, NEW c \in Calls, ToolStep(c)
  PROVE  RowInv'
<1>1. UNCHANGED <<loopVars, resolve>>
  BY ToolCases DEF CommitUpdate, CommitDepends, Begin
<1>2. BatchInv'
  BY <1>1 DEF RowInv, BatchInv, loopVars
<1>3. \A d : /\ \A s \in Sessions : SessionHolds(s, d)' <=> SessionHolds(s, d)
             /\ \A r \in Resolvers : ResolverHolds(r, d)' <=> ResolverHolds(r, d)
  BY <1>1 DEF SessionHolds, ResolverHolds, loopVars
<1> SUFFICES ASSUME NEW d \in Deliverables \ raced'
             PROVE  OneWriter(d)' /\ UpToDate(d)'
  BY <1>2 DEF RowInv
<1>4. CASE (CommitUpdate(c) /\ call[c].of # d) \/ CommitDepends(c)
  <2>1. d \notin raced /\ status'[d] = status[d] /\ retry'[d] = retry[d]
    BY <1>4 DEF CommitUpdate, CommitDepends, TypeInv, TypeOK
  <2>2. \A b \in Calls : CallHolds(b, d)' => CallHolds(b, d)
    BY <1>4 DEF CommitUpdate, CommitDepends, CallHolds, NoCall, TypeInv, TypeOK
  <2> QED
    BY <1>1, <1>3, <2>1, <2>2, RowLeft DEF RowInv, UpToDate, loopVars
<1>5. CASE CommitUpdate(c) /\ call[c].of = d
  <2>1. d \notin raced /\ CallHolds(c, d)
    BY <1>5 DEF CommitUpdate, CallHolds
  <2>2. \A b \in Calls : ~CallHolds(b, d)'
    BY <1>5, <2>1 DEF CommitUpdate, CallHolds, NoCall, RowInv, OneWriter,
                      TypeInv, TypeOK
  <2> QED
    BY <1>3, <2>1, <2>2, RowFree DEF RowInv, OneWriter
<1>6. ASSUME NEW s \in Sessions, NEW o \in Asked(s), Begin(c, s, o)
      PROVE  OneWriter(d)' /\ UpToDate(d)'
  <2>1. /\ UNCHANGED rows
        /\ call'[c] = o
        /\ \A b \in Calls : b # c => call'[b] = call[b]
    BY <1>6 DEF Begin, TypeInv, TypeOK
  <2>2. CASE o.kind = "update" /\ o.of = d
    <3>1. ~InHand(d)
      BY <1>6, <2>2 DEF Begin
    <3>2. /\ \A b \in Calls : CallHolds(b, d)' => b = c
          /\ \A t \in Sessions : ~SessionHolds(t, d)'
          /\ \A r \in Resolvers : ~ResolverHolds(r, d)'
      BY <1>3, <2>1, <3>1, InHandIsHeld DEF CallHolds
    <3>3. status'[d] \notin Satisfied
      BY <2>1, <2>2 DEF Asked, rows
    <3> QED
      BY <3>2, <3>3 DEF OneWriter, UpToDate
  <2>3. CASE ~(o.kind = "update" /\ o.of = d)
    <3>1. d \notin raced
      BY <1>6, <2>3 DEF Begin
    <3>2. \A b \in Calls : CallHolds(b, d)' => CallHolds(b, d)
      BY <2>1, <2>3 DEF CallHolds
    <3> QED
      BY <1>1, <1>3, <2>1, <3>1, <3>2, RowLeft DEF RowInv, UpToDate, rows,
                                                    loopVars
  <2> QED
    BY <2>2, <2>3
<1> QED
  BY <1>4, <1>5, <1>6, ToolCases

LEMMA RowResolution ==
  ASSUME TypeInv, RowInv, NEW r \in Resolvers,
         ReadFailed(r) \/ ResetFailed(r) \/ DropResolution(r)
  PROVE  RowInv'
<1>1. UNCHANGED <<loopVars, call>>
  BY DEF ReadFailed, ResetFailed, DropResolution
<1>2. BatchInv'
  BY <1>1 DEF RowInv, BatchInv, loopVars
<1>3. \A d : /\ \A c \in Calls : CallHolds(c, d)' <=> CallHolds(c, d)
             /\ \A s \in Sessions : SessionHolds(s, d)' <=> SessionHolds(s, d)
  BY <1>1 DEF CallHolds, SessionHolds, loopVars
<1>4. \A q \in Resolvers \ {r} : resolve'[q] = resolve[q]
  BY DEF ReadFailed, ResetFailed, DropResolution, TypeInv, TypeOK
<1> SUFFICES ASSUME NEW d \in Deliverables \ raced'
             PROVE  OneWriter(d)' /\ UpToDate(d)'
  BY <1>2 DEF RowInv
<1>5. CASE ReadFailed(r)
  <2>1. /\ UNCHANGED rows /\ resolve[r] = {}
        /\ ResolverHolds(r, d)' => status[d] = "FAILED"
    BY <1>5 DEF ReadFailed, ResolverHolds, TypeInv, TypeOK
  <2>2. CASE status[d] = "FAILED"
    <3>1. ~InHand(d)
      BY <1>5, <2>2 DEF ReadFailed
    <3>2. /\ \A q \in Resolvers : ResolverHolds(q, d)' => q = r
          /\ \A s \in Sessions : ~SessionHolds(s, d)'
          /\ \A c \in Calls : ~CallHolds(c, d)'
      BY <1>3, <1>4, <3>1, InHandIsHeld DEF ResolverHolds
    <3> QED
      BY <2>1, <2>2, <3>2 DEF OneWriter, UpToDate, rows
  <2>3. CASE status[d] # "FAILED"
    <3>1. d \notin raced
      BY <1>5, <2>3 DEF ReadFailed
    <3>2. \A q \in Resolvers : ResolverHolds(q, d)' => ResolverHolds(q, d)
      BY <1>4, <2>1, <2>3 DEF ResolverHolds
    <3> QED
      BY <1>1, <1>3, <2>1, <3>1, <3>2, RowLeft DEF RowInv, UpToDate, rows,
                                                    loopVars
  <2> QED
    BY <2>2, <2>3
<1>6. CASE ResetFailed(r) \/ DropResolution(r)
  <2>1. d \notin raced /\ resolve'[r] = {}
    BY <1>6 DEF ResetFailed, DropResolution, TypeInv, TypeOK
  <2>2. \A q \in Resolvers : ResolverHolds(q, d)' => ResolverHolds(q, d)
    BY <1>4, <2>1 DEF ResolverHolds
  <2>3. CASE ResolverHolds(r, d)
    <3>1. \A q \in Resolvers : ~ResolverHolds(q, d)'
      BY <2>1, <2>2, <2>3 DEF ResolverHolds, RowInv, OneWriter
    <3> QED
      BY <1>3, <2>1, <2>3, <3>1, RowFree DEF RowInv, OneWriter
  <2>4. CASE ~ResolverHolds(r, d)
    <3>1. status'[d] = status[d] /\ retry'[d] = retry[d]
      BY <1>6, <2>4 DEF ResetFailed, DropResolution, ResolverHolds, rows
    <3> QED
      BY <1>1, <1>3, <2>1, <2>2, <3>1, RowLeft DEF RowInv, UpToDate, loopVars
  <2> QED
    BY <2>3, <2>4
<1> QED
  BY <1>5, <1>6

\* What a step of a session's own loop leaves alone.
LEMMA OwnFrame ==
  ASSUME TypeInv, NEW s \in Sessions, LoopStep(s) \/ KillSession(s)
  PROVE  /\ UNCHANGED resolve
         /\ \A t \in Sessions \ {s} :
              pc'[t] = pc[t] /\ todo'[t] = todo[t] /\ cur'[t] = cur[t]
         /\ \A c \in Calls : call'[c] = call[c] \/ call'[c] = NoCall
<1> USE DEF Goto, Leave, TypeInv, TypeOK, loopVars
<1>1. CASE SelectBatch(s) \/ NextDeliverable(s) \/ MarkInProgress(s)
  BY <1>1 DEF SelectBatch, NextDeliverable, MarkInProgress
<1>2. CASE VerifyDeliverable(s) \/ TrackBatchResult(s) \/ CheckCost(s)
  BY <1>2 DEF VerifyDeliverable, TrackBatchResult, CheckCost
<1>3. CASE SuspendProject(s) \/ SkipRead(s) \/ SkipStuck(s) \/ KillSession(s)
  BY <1>3 DEF SuspendProject, SkipRead, SkipStuck, KillSession
<1> QED
  BY <1>1, <1>2, <1>3 DEF LoopStep

LEMMA OwnHolders ==
  ASSUME TypeInv, NEW s \in Sessions, LoopStep(s) \/ KillSession(s), NEW d
  PROVE  /\ \A c \in Calls : CallHolds(c, d)' => CallHolds(c, d)
         /\ \A r \in Resolvers : ResolverHolds(r, d)' <=> ResolverHolds(r, d)
         /\ \A t \in Sessions \ {s} : SessionHolds(t, d)' <=> SessionHolds(t, d)
  BY OwnFrame DEF CallHolds, ResolverHolds, SessionHolds, NoCall

\* A row that such a step does not write, and that s does not take.
LEMMA RowOwn ==
  ASSUME TypeInv, NEW s \in Sessions, LoopStep(s) \/ KillSession(s),
         NEW d \in Deliverables, OneWriter(d), UpToDate(d),
         status'[d] = status[d], retry'[d] = retry[d],
         SessionHolds(s, d)' =>
           /\ SessionHolds(s, d)
           /\ pc'[s] = "mark" /\ cur'[s].of = d /\ cur'[s].st = "FAILED"
                => status[d] = "FAILED"
  PROVE  OneWriter(d)' /\ UpToDate(d)'
<1>1. ASSUME NEW t \in Sessions, SessionHolds(t, d)'
      PROVE  /\ SessionHolds(t, d)
             /\ pc'[t] = "mark" /\ cur'[t].of = d /\ cur'[t].st = "FAILED"
                  => status[d] = "FAILED"
  <2>1. CASE t = s
    BY <1>1, <2>1
  <2>2. CASE t # s
    <3>1. pc'[t] = pc[t] /\ cur'[t] = cur[t]
      BY <2>2, OwnFrame
    <3>2. SessionHolds(t, d)
      BY <1>1, <2>2, OwnHolders
    <3> QED
      BY <3>1, <3>2 DEF UpToDate
  <2> QED
    BY <2>1, <2>2
<1>2. /\ \A c \in Calls : CallHolds(c, d)' => CallHolds(c, d)
      /\ \A r \in Resolvers : ResolverHolds(r, d)' => ResolverHolds(r, d)
  BY OwnHolders
<1> QED
  BY <1>1, <1>2, RowLeft

\* Leaving the loop gives up what the session had in hand.
LEMMA RowLeave ==
  ASSUME TypeInv, RowInv, NEW s \in Sessions, LoopStep(s) \/ KillSession(s),
         Leave(s), UNCHANGED raced,
         \A d \in Deliverables : ~SessionHolds(s, d) =>
           status'[d] = status[d] /\ retry'[d] = retry[d]
  PROVE  RowInv'
<1>1. pc'[s] = "idle" /\ todo'[s] = {}
  BY DEF Leave, Goto, TypeInv, TypeOK
<1>2. BatchInv'
  BY <1>1, OwnFrame DEF RowInv, BatchInv
<1>3. \A d : ~SessionHolds(s, d)'
  BY <1>1 DEF SessionHolds
<1> SUFFICES ASSUME NEW d \in Deliverables \ raced
             PROVE  OneWriter(d)' /\ UpToDate(d)'
  BY <1>2 DEF RowInv
<1>4. CASE SessionHolds(s, d)
  <2>1. /\ \A c \in Calls : ~CallHolds(c, d)'
        /\ \A r \in Resolvers : ~ResolverHolds(r, d)'
        /\ \A t \in Sessions : ~SessionHolds(t, d)'
    BY <1>3, <1>4, OwnHolders DEF RowInv, OneWriter
  <2> QED
    BY <2>1, RowFree
<1>5. CASE ~SessionHolds(s, d)
  BY <1>3, <1>5, RowOwn DEF RowInv
<1> QED
  BY <1>4, <1>5

\* A session without a batch takes the rows of D, which it may start or skip.
LEMMA RowTake ==
  ASSUME TypeInv, RowInv, NEW s \in Sessions, LoopStep(s), UNCHANGED rows,
         NEW D \in SUBSET Deliverables, \A d \in D : Actionable(d),
         pc[s] \notin {"next", "mark", "verify", "skip"},
         pc'[s] \in {"next", "skip"}, todo'[s] = D, Take(D)
  PROVE  RowInv'
<1>1. BatchInv'
  BY OwnFrame DEF RowInv, BatchInv
<1>2. \A d : SessionHolds(s, d)' <=> d \in D
  BY DEF SessionHolds
<1> SUFFICES ASSUME NEW d \in Deliverables \ raced'
             PROVE  OneWriter(d)' /\ UpToDate(d)'
  BY <1>1 DEF RowInv
<1>3. CASE d \in D
  <2>1. ~InHand(d)
    BY <1>3
  <2>2. /\ \A c \in Calls : ~CallHolds(c, d)'
        /\ \A r \in Resolvers : ~ResolverHolds(r, d)'
        /\ \A t \in Sessions : SessionHolds(t, d)' => t = s
    BY <2>1, OwnHolders, InHandIsHeld
  <2>3. Actionable(d)' /\ pc'[s] # "mark"
    BY <1>3 DEF Actionable, rows
  <2> QED
    BY <2>2, <2>3 DEF OneWriter, UpToDate
<1>4. CASE d \notin D
  <2>1. d \notin raced /\ status'[d] = status[d] /\ retry'[d] = retry[d]
    BY <1>4 DEF rows
  <2> QED
    BY <1>2, <1>4, <2>1, RowOwn DEF RowInv
<1> QED
  BY <1>3, <1>4

LEMMA RowLoopStep ==
  ASSUME TypeInv, RowInv, NEW s \in Sessions, LoopStep(s)
  PROVE  RowInv'
<1> USE DEF Goto
<1>1. CASE Leave(s) /\ UNCHANGED <<rows, raced>>
  BY <1>1, RowLeave DEF rows
<1>2. CASE SelectBatch(s) /\ ~(Leave(s) /\ UNCHANGED raced)
  <2>1. CASE Frontier = {}
    <3>1. /\ UNCHANGED <<rows, todo, cur, call, resolve, raced>>
          /\ pc'[s] = "skip_read" /\ pc[s] = "select"
      BY <1>2, <2>1 DEF SelectBatch, TypeInv, TypeOK
    <3>2. BatchInv'
      BY <3>1, OwnFrame DEF RowInv, BatchInv
    <3>3. \A d : SessionHolds(s, d)' => d \in todo[s]
      BY <3>1 DEF SessionHolds
    <3>4. todo[s] = {}
      BY <3>1 DEF RowInv, BatchInv
    <3> QED
      BY <3>1, <3>2, <3>3, <3>4, RowOwn DEF RowInv, rows
  <2>2. CASE Frontier # {}
    <3>1. /\ pc[s] = "select" /\ pc'[s] = "next" /\ todo'[s] = Frontier
          /\ Take(Frontier) /\ UNCHANGED rows
      BY <1>2, <2>2 DEF SelectBatch, TypeInv, TypeOK
    <3>2. Frontier \subseteq Deliverables /\ \A d \in Frontier : Actionable(d)
      BY DEF Frontier
    <3> HIDE DEF Take
    <3> QED
      BY <3>1, <3>2, RowTake
  <2> QED
    BY <2>1, <2>2
<1>3. CASE NextDeliverable(s) /\ ~Leave(s)
  <2>1. /\ UNCHANGED <<rows, raced>> /\ pc[s] = "next"
        /\ \/ todo[s] = {} /\ pc'[s] = "count" /\ todo'[s] = {}
           \/ \E d \in todo[s] :
                /\ todo'[s] = todo[s] \ {d}
                /\ cur'[s].of = d /\ cur'[s].st = status[d]
                /\ pc'[s] \in {"verify", "mark"}
    BY <1>3 DEF NextDeliverable, TypeInv, TypeOK
  <2>2. BatchInv'
    BY <2>1, OwnFrame DEF RowInv, BatchInv, TypeInv, TypeOK
  <2>3. \A d : SessionHolds(s, d)' => SessionHolds(s, d)
    BY <2>1 DEF SessionHolds
  <2>4. \A d : pc'[s] = "mark" /\ cur'[s].of = d => cur'[s].st = status[d]
    BY <2>1
  <2> QED
    BY <2>1, <2>2, <2>3, <2>4, RowOwn DEF RowInv, rows
<1>4. CASE MarkInProgress(s)
  <2>1. /\ pc[s] = "mark" /\ pc'[s] = "verify"
        /\ UNCHANGED <<todo, cur, raced>>
    BY <1>4 DEF MarkInProgress, TypeInv, TypeOK
  <2>2. BatchInv'
    BY <2>1, OwnFrame DEF RowInv, BatchInv
  <2>3. \A d : SessionHolds(s, d)' => SessionHolds(s, d) /\ d # cur[s].of
    BY <2>1 DEF SessionHolds, RowInv, BatchInv
  <2> SUFFICES ASSUME NEW d \in Deliverables \ raced
               PROVE  OneWriter(d)' /\ UpToDate(d)'
    BY <2>1, <2>2 DEF RowInv
  <2>4. CASE d = cur[s].of
    <3>1. SessionHolds(s, d)
      BY <2>1, <2>4 DEF SessionHolds
    <3>2. /\ \A c \in Calls : ~CallHolds(c, d)'
          /\ \A r \in Resolvers : ~ResolverHolds(r, d)'
          /\ \A t \in Sessions : ~SessionHolds(t, d)'
      BY <2>3, <2>4, <3>1, OwnHolders DEF RowInv, OneWriter
    <3> QED
      BY <3>2, RowFree
  <2>5. CASE d # cur[s].of
    <3>1. status'[d] = status[d] /\ retry'[d] = retry[d]
      BY <1>4, <2>5, MarkOthers
    <3> QED
      BY <2>1, <2>3, <3>1, RowOwn DEF RowInv
  <2> QED
    BY <2>4, <2>5
<1>5. CASE \/ VerifyDeliverable(s) \/ TrackBatchResult(s)
           \/ CheckCost(s) /\ ~Leave(s)
  <2>1. /\ UNCHANGED <<rows, todo, raced>>
        /\ pc[s] \in {"verify", "count", "cost"}
        /\ pc'[s] \in {"next", "select", "cost", "suspend"}
        /\ pc'[s] = "next" <=> pc[s] = "verify"
    BY <1>5 DEF VerifyDeliverable, TrackBatchResult, CheckCost, TypeInv, TypeOK
  <2>2. BatchInv'
    BY <2>1, OwnFrame DEF RowInv, BatchInv
  <2>3. \A d : SessionHolds(s, d)' => SessionHolds(s, d)
    BY <2>1 DEF SessionHolds
  <2> QED
    BY <2>1, <2>2, <2>3, RowOwn DEF RowInv, rows
<1>6. CASE SkipRead(s) /\ ~(Leave(s) /\ UNCHANGED raced)
  <2>1. /\ pc[s] = "skip_read" /\ pc'[s] = "skip" /\ todo'[s] = Stuck
        /\ Take(Stuck) /\ UNCHANGED rows
    BY <1>6 DEF SkipRead, TypeInv, TypeOK
  <2>2. Stuck \subseteq Deliverables /\ \A d \in Stuck : Actionable(d)
    BY StuckIsBlocked DEF Stuck, Actionable
  <2> HIDE DEF Take
  <2> QED
    BY <2>1, <2>2, RowTake
<1>7. CASE SkipStuck(s)
  <2>1. \A d \in Deliverables : ~SessionHolds(s, d) =>
          status'[d] = status[d] /\ retry'[d] = retry[d]
    BY <1>7 DEF SkipStuck, SessionHolds
  <2> QED
    BY <1>7, <2>1, RowLeave DEF SkipStuck
<1> QED
  BY <1>1, <1>2, <1>3, <1>4, <1>5, <1>6, <1>7
     DEF LoopStep, SelectBatch, NextDeliverable, CheckCost, SuspendProject,
         SkipRead

LEMMA RowInit == Init => RowInv
  BY NothingAssumption
     DEF Init, RowInv, BatchInv, OneWriter, UpToDate, CallHolds, SessionHolds,
         ResolverHolds, NoCall

LEMMA RowStep ==
  ASSUME TypeInv, RowInv, [Next]_vars
  PROVE  RowInv'
<1>1. ASSUME NEW s \in Sessions, StartSession(s) \/ EndAgents(s)
      PROVE  RowInv'
  <2>1. /\ UNCHANGED <<rows, call, resolve, todo, cur, raced>>
        /\ pc[s] \in {"idle", "agents"} /\ pc'[s] \in {"agents", "select"}
        /\ \A t \in Sessions \ {s} : pc'[t] = pc[t]
    BY <1>1 DEF StartSession, EndAgents, Goto, TypeInv, TypeOK
  <2>2. BatchInv'
    BY <2>1 DEF RowInv, BatchInv
  <2>3. \A d : \A t \in Sessions : SessionHolds(t, d)' => SessionHolds(t, d)
    BY <2>1 DEF SessionHolds
  <2>4. \A d : /\ \A c \in Calls : CallHolds(c, d)' => CallHolds(c, d)
               /\ \A r \in Resolvers : ResolverHolds(r, d)' => ResolverHolds(r, d)
    BY <2>1 DEF CallHolds, ResolverHolds
  <2>5. \A t \in Sessions : pc'[t] = "mark" => pc[t] = "mark"
    BY <2>1
  <2> QED
    BY <2>1, <2>2, <2>3, <2>4, <2>5, RowLeft DEF RowInv, UpToDate, rows
<1>2. ASSUME NEW s \in Sessions, KillSession(s)
      PROVE  RowInv'
  BY <1>2, RowLeave DEF KillSession, rows
<1>3. CASE UNCHANGED vars
  BY <1>3 DEF vars, rows, loopVars, RowInv, BatchInv, OneWriter, UpToDate,
              CallHolds, SessionHolds, ResolverHolds, Actionable
<1> QED
  BY <1>1, <1>2, <1>3, RowToolStep, RowResolution, RowLoopStep DEF Next

(***************************************************************************)
(* RetryWithinLimit, for any sessions, tool calls and resolutions: the     *)
(* loop retries no unraced row past the limit.                             *)
(***************************************************************************)
THEOREM RetryWithinLimitHolds == Spec => []RetryWithinLimit
<1>1. RowInv => RetryWithinLimit
  BY DEF RowInv, BatchInv, UpToDate, SessionHolds, Actionable, Waiting,
         RetryWithinLimit
<1> QED
  BY TypeInit, TypeStep, RowInit, RowStep, <1>1, PTL DEF Spec

(***************************************************************************)
(* FinishedIsFinal, for any sessions, tool calls and resolutions: whoever  *)
(* changes the status of an unraced row has it in hand, and nobody has     *)
(* finished work in hand.                                                  *)
(***************************************************************************)
THEOREM FinishedIsFinalHolds == Spec => FinishedIsFinal
<1>1. ASSUME TypeInv, RowInv, [Next]_vars
      PROVE  [\A d \in Deliverables \ raced :
                status[d] \in Satisfied => status'[d] = status[d]]_vars
  <2> SUFFICES ASSUME Next, NEW d \in Deliverables \ raced,
                      status[d] \in Satisfied
               PROVE  status'[d] = status[d]
    BY <1>1
  <2>1. /\ \A c \in Calls : ~CallHolds(c, d)
        /\ \A s \in Sessions : ~SessionHolds(s, d)
        /\ \A r \in Resolvers : ~ResolverHolds(r, d)
    BY <1>1 DEF RowInv, UpToDate, Satisfied, Actionable, Waiting
  <2>2. ASSUME NEW c \in Calls, ToolStep(c)
        PROVE  status'[d] = status[d]
    BY <1>1, <2>1, <2>2, ToolCases
       DEF CommitUpdate, CommitDepends, Begin, rows, CallHolds, TypeInv, TypeOK
  <2>3. ASSUME NEW r \in Resolvers,
               ReadFailed(r) \/ ResetFailed(r) \/ DropResolution(r)
        PROVE  status'[d] = status[d]
    BY <2>1, <2>3 DEF ReadFailed, ResetFailed, DropResolution, rows,
                      ResolverHolds
  <2>4. ASSUME NEW s \in Sessions, LoopStep(s)
        PROVE  status'[d] = status[d]
    BY <1>1, <2>1, <2>4
       DEF LoopStep, SelectBatch, NextDeliverable, MarkInProgress,
           VerifyDeliverable, TrackBatchResult, CheckCost, SuspendProject,
           SkipRead, SkipStuck, rows, SessionHolds, TypeInv, TypeOK
  <2>5. ASSUME NEW s \in Sessions,
               StartSession(s) \/ EndAgents(s) \/ KillSession(s)
        PROVE  status'[d] = status[d]
    BY <2>5 DEF StartSession, EndAgents, KillSession, rows
  <2> QED
    BY <2>2, <2>3, <2>4, <2>5 DEF Next
<1> QED
  BY TypeInit, TypeStep, RowInit, RowStep, <1>1, PTL DEF Spec, FinishedIsFinal
=============================================================================
