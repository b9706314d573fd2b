------------------------------ MODULE BatchLoop ------------------------------
(***************************************************************************)
(* The deliverables of one project: their rows (status, retry count,       *)
(* dependencies) and who writes them.  The PM's tools do while a work      *)
(* session runs its agents; _execute_batch_loop does after that; and a     *)
(* resolution by the CEO may reset failed rows at any time.  Each reads    *)
(* rows and commits later, with no lock in between, and the language model *)
(* may emit several tool calls at once, which then run concurrently.       *)
(*                                                                         *)
(* The loop marks a deliverable IN_PROGRESS and reads its status back; it  *)
(* does not run the pipeline itself, so only a tool makes it COMPLETED or  *)
(* FAILED.  When the loop stops for a pause, or the cost is too high, is   *)
(* left open here.                                                         *)
(***************************************************************************)
EXTENDS Naturals

CONSTANTS Deliverables,
          Sessions,    \* work sessions of the project
          Calls,       \* tool calls that can be in flight at the same time
          Resolvers,   \* worker coroutines that can run apply_resolution
          Nothing,     \* what an idle call works on
          RetryLimit,  \* deliverable_retry_limit
          Threshold,   \* batch_failure_threshold
          MaxRetry     \* bound: no retry by the PM from, and no failure past, it

ASSUME NothingAssumption == Nothing \notin Deliverables \cup Sessions
ASSUME LimitAssumption ==
  RetryLimit \in Nat /\ Threshold \in Nat \ {0} /\ MaxRetry \in Nat

VARIABLES status, retry, depends,  \* the deliverable rows
          call,                    \* the tool calls in flight
          resolve,                 \* the failed rows each resolution has read
          pc,                      \* where each session is
          todo,                    \* the rest of its batch, or what to skip
          cur,                     \* the row it has read and is to mark
          failed,                  \* whether the batch had a failure
          counter,                 \* pm:consecutive_batch_failures
          fresh,                   \* history: failures since a clean batch
          disturbed,               \* history: sessions whose loop a resolution
                                   \* or another session overlaps
          raced,                   \* history: rows two writers have in hand
          crossed                  \* history: two dependency calls overlapped

rows == <<status, retry, depends>>
loopVars == <<pc, todo, cur, failed, counter>>
marks == <<disturbed, raced, crossed>>
resolveVars == <<resolve, marks>>
vars == <<rows, call, loopVars, fresh, resolveVars>>

Status == {"PLANNED", "PENDING", "IN_PROGRESS", "COMPLETED", "FAILED",
           "SKIPPED", "BLOCKED"}
Satisfied == {"COMPLETED", "SKIPPED"}
Waiting == {"PLANNED", "PENDING"}

\* _VALID_TRANSITIONS: what update_deliverable accepts.
ValidTransitions(st) ==
  CASE st = "PLANNED" -> {"PENDING", "IN_PROGRESS"}
    [] st = "PENDING" -> {"IN_PROGRESS", "BLOCKED"}
    [] st = "IN_PROGRESS" -> {"COMPLETED", "FAILED", "SKIPPED", "BLOCKED"}
    [] st = "FAILED" -> {"IN_PROGRESS", "SKIPPED"}
    [] st = "BLOCKED" -> {"PENDING", "IN_PROGRESS"}
    [] OTHER -> {}

CallKind == {"none", "update", "depend"}
Call == [kind: CallKind, by: Sessions \cup {Nothing},
         of: Deliverables \cup {Nothing}, to: Status, retry: Nat,
         depends: SUBSET Deliverables]
NoCall == [kind |-> "none", by |-> Nothing, of |-> Nothing, to |-> "PLANNED",
           retry |-> 0, depends |-> {}]

Row == [of: Deliverables \cup {Nothing}, st: Status, retry: Nat]
NoRow == [of |-> Nothing, st |-> "PLANNED", retry |-> 0]

LoopPc == {"select", "next", "mark", "verify", "count", "cost", "skip_read",
           "skip", "suspend"}

\* A set that holds the dependencies of its members.
Closed(C) == \A d \in C : depends[d] \subseteq C

\* e is d, or d depends on it directly or through others.
Reaches(d, e) ==
  \A C \in SUBSET Deliverables : d \in C /\ Closed(C) => e \in C

Init == /\ status = [d \in Deliverables |-> "PLANNED"]
        /\ retry = [d \in Deliverables |-> 0]
        /\ depends = [d \in Deliverables |-> {}]
        /\ call = [c \in Calls |-> NoCall]
        /\ pc = [s \in Sessions |-> "idle"]
        /\ todo = [s \in Sessions |-> {}]
        /\ cur = [s \in Sessions |-> NoRow]
        /\ failed = [s \in Sessions |-> FALSE]
        /\ counter = [s \in Sessions |-> 0]
        /\ fresh = [s \in Sessions |-> 0]
        /\ resolve = [r \in Resolvers |-> {}]
        /\ disturbed = {}
        /\ raced = {}
        /\ crossed = FALSE

(***************************************************************************)
(* A writer of a status has the row in hand from when it has read it, or   *)
(* put it into the batch or among those to skip, to when it commits or     *)
(* gives up.  "raced" forgets a row that is taken while nobody has it.     *)
(***************************************************************************)
InHand(d) ==
  \/ \E c \in Calls : call[c].kind = "update" /\ call[c].of = d
  \/ \E s \in Sessions : d \in todo[s] \/ (pc[s] = "mark" /\ cur[s].of = d)
  \/ \E r \in Resolvers : \E x \in resolve[r] : x.of = d

Take(D) == raced' = (raced \ D) \cup {d \in D : InHand(d)}

-----------------------------------------------------------------------------
(***************************************************************************)
(* The PM's tools.  Each reads and checks the rows in one step and commits *)
(* in another.                                                             *)
(***************************************************************************)
Begin(c, s, o) ==
  /\ pc[s] = "agents" /\ call[c] = NoCall
  /\ call' = [call EXCEPT ![c] = o]
  /\ Take(IF o.kind = "update" THEN {o.of} ELSE {})
  /\ crossed' = \/ crossed
                \/ o.kind = "depend" /\ \E b \in Calls : call[b].kind = "depend"
  /\ UNCHANGED <<rows, loopVars, fresh, resolve, disturbed>>

UpdateDeliverable(c, s, d) ==
  \E to \in ValidTransitions(status[d]) :
    /\ to = "IN_PROGRESS" /\ status[d] = "FAILED" => retry[d] < MaxRetry
    /\ to = "FAILED" => retry[d] <= MaxRetry
    /\ Begin(c, s, [kind |-> "update", by |-> s, of |-> d, to |-> to,
                    retry |-> IF to = "IN_PROGRESS" /\ status[d] = "FAILED"
                                THEN retry[d] + 1 ELSE 0,
                    depends |-> {}])

\* Mutant: the cycle check looks only one dependency ahead.
AddDependencyShallow(c, s, d, e) ==
  /\ e \notin depends[d] /\ d \notin depends[e] \cup {e}
  /\ Begin(c, s, [kind |-> "depend", by |-> s, of |-> d, to |-> "PLANNED",
                  retry |-> 0, depends |-> depends[d] \cup {e}])

\* _detect_cycle refuses an edge to a deliverable that reaches back.
AddDependency(c, s, d, e) ==
  /\ e \notin depends[d] /\ ~Reaches(e, d)
  /\ Begin(c, s, [kind |-> "depend", by |-> s, of |-> d, to |-> "PLANNED",
                  retry |-> 0, depends |-> depends[d] \cup {e}])

RemoveDependency(c, s, d, e) ==
  /\ e \in depends[d]
  /\ Begin(c, s, [kind |-> "depend", by |-> s, of |-> d, to |-> "PLANNED",
                  retry |-> 0, depends |-> depends[d] \ {e}])

\* The commit of an update writes retry_count only when it counted a retry.
CommitUpdate(c) ==
  /\ call[c].kind = "update"
  /\ LET d == call[c].of  to == call[c].to IN
       /\ to = "FAILED" => retry[d] <= MaxRetry
       /\ status' = [status EXCEPT ![d] = to]
       /\ retry' = [retry EXCEPT ![d] = IF call[c].retry > 0 THEN call[c].retry
                                                             ELSE @]
       /\ fresh' = [s \in Sessions |->
                      IF to = "FAILED" /\ fresh[s] < Threshold
                        THEN fresh[s] + 1 ELSE fresh[s]]
  /\ call' = [call EXCEPT ![c] = NoCall]
  /\ UNCHANGED <<depends, loopVars, resolveVars>>

CommitDepends(c) ==
  /\ call[c].kind = "depend"
  /\ depends' = [depends EXCEPT ![call[c].of] = call[c].depends]
  /\ call' = [call EXCEPT ![c] = NoCall]
  /\ UNCHANGED <<status, retry, loopVars, fresh, resolveVars>>

-----------------------------------------------------------------------------
(***************************************************************************)
(* apply_resolution_to_project reads the failed rows and resets them; a    *)
(* retry count it has read as zero is not written.  It is a job of its own *)
(* and runs whether or not a session does.                                 *)
(***************************************************************************)
ReadFailed(r) ==
  /\ resolve[r] = {}
  /\ \E d \in Deliverables : status[d] = "FAILED"
  /\ resolve' = [resolve EXCEPT ![r] =
                   {[of |-> d, st |-> "FAILED", retry |-> retry[d]] :
                      d \in {e \in Deliverables : status[e] = "FAILED"}}]
  /\ Take({d \in Deliverables : status[d] = "FAILED"})
  /\ disturbed' = disturbed \cup {s \in Sessions : pc[s] \in LoopPc}
  /\ UNCHANGED <<rows, call, loopVars, fresh, crossed>>

ResetFailed(r) ==
  /\ resolve[r] # {}
  /\ status' = [d \in Deliverables |->
                  IF \E x \in resolve[r] : x.of = d THEN "PENDING" ELSE status[d]]
  /\ retry' = [d \in Deliverables |->
                 IF \E x \in resolve[r] : x.of = d /\ x.retry > 0 THEN 0
                                                                 ELSE retry[d]]
  /\ resolve' = [resolve EXCEPT ![r] = {}]
  /\ UNCHANGED <<depends, call, loopVars, fresh, marks>>

\* The worker dies, or the commit fails.
DropResolution(r) ==
  /\ resolve[r] # {}
  /\ resolve' = [resolve EXCEPT ![r] = {}]
  /\ UNCHANGED <<rows, call, loopVars, fresh, marks>>

-----------------------------------------------------------------------------
(***************************************************************************)
(* The session: first its agents, then the loop.                           *)
(***************************************************************************)
Goto(s, at) == pc' = [pc EXCEPT ![s] = at]

Leave(s) == /\ Goto(s, "idle")
            /\ todo' = [todo EXCEPT ![s] = {}]
            /\ cur' = [cur EXCEPT ![s] = NoRow]
            /\ failed' = [failed EXCEPT ![s] = FALSE]
            /\ counter' = [counter EXCEPT ![s] = 0]

StartSession(s) ==
  /\ pc[s] = "idle" /\ Goto(s, "agents")
  /\ disturbed' = disturbed \cup {t \in Sessions : pc[t] \in LoopPc}
  /\ UNCHANGED <<rows, call, todo, cur, failed, counter, fresh, resolve, raced,
                 crossed>>

\* The run of the agents ends when their last tool call has.
EndAgents(s) ==
  /\ pc[s] = "agents" /\ \A c \in Calls : call[c].by # s
  /\ Goto(s, "select")
  /\ fresh' = [fresh EXCEPT ![s] = 0]
  /\ disturbed' = IF \/ \E r \in Resolvers : resolve[r] # {}
                     \/ \E t \in Sessions \ {s} : pc[t] # "idle"
                    THEN disturbed \cup {s} ELSE disturbed \ {s}
  /\ UNCHANGED <<rows, call, todo, cur, failed, counter, resolve, raced,
                 crossed>>

\* Mutant: what is completed may be selected again.
ActionableAgain(d) == status[d] \notin {"IN_PROGRESS", "SKIPPED", "BLOCKED"}

\* Mutant: one retry too many.
ActionableAtLimit(d) ==
  \/ status[d] \in Waiting
  \/ status[d] = "FAILED" /\ retry[d] <= RetryLimit

Actionable(d) ==
  \/ status[d] \in Waiting
  \/ status[d] = "FAILED" /\ retry[d] < RetryLimit

\* Mutant: a dependency that failed for good counts as satisfied.
FrontierOverFailed ==
  {d \in Deliverables :
     /\ Actionable(d)
     /\ \A e \in depends[d] :
          \/ status[e] \in Satisfied
          \/ status[e] = "FAILED" /\ retry[e] >= RetryLimit}

Frontier ==
  {d \in Deliverables :
     Actionable(d) /\ \A e \in depends[d] : status[e] \in Satisfied}

\* A pause flag ends the loop before it selects; nothing ready ends it too.
SelectBatch(s) ==
  /\ pc[s] = "select"
  /\ \/ Leave(s) /\ UNCHANGED raced
     \/ /\ Frontier # {}
        /\ Goto(s, "next")
        /\ todo' = [todo EXCEPT ![s] = Frontier]
        /\ Take(Frontier)
        /\ failed' = [failed EXCEPT ![s] = FALSE]
        /\ UNCHANGED <<cur, counter>>
     \/ /\ Frontier = {} /\ Goto(s, "skip_read")
        /\ UNCHANGED <<todo, cur, failed, counter, raced>>
  /\ UNCHANGED <<rows, call, fresh, resolve, disturbed, crossed>>

\* The batch's next deliverable (in execution_order, left open), or its end,
\* or a pause.  A row that is IN_PROGRESS already is left alone.
NextDeliverable(s) ==
  /\ pc[s] = "next"
  /\ \/ todo[s] # {} /\ Leave(s)
     \/ /\ todo[s] = {} /\ Goto(s, "count")
        /\ UNCHANGED <<todo, cur, failed, counter>>
     \/ \E d \in todo[s] :
          /\ todo' = [todo EXCEPT ![s] = @ \ {d}]
          /\ cur' = [cur EXCEPT ![s] = [of |-> d, st |-> status[d],
                                        retry |-> retry[d]]]
          /\ Goto(s, IF status[d] = "IN_PROGRESS" THEN "verify" ELSE "mark")
          /\ UNCHANGED <<failed, counter>>
  /\ UNCHANGED <<rows, call, fresh, resolveVars>>

\* Mutant: the mark is not committed.
MarkUncommitted(s) ==
  /\ pc[s] = "mark"
  /\ Goto(s, "verify")
  /\ UNCHANGED <<rows, call, todo, cur, failed, counter, fresh, resolveVars>>

MarkInProgress(s) ==
  /\ pc[s] = "mark"
  /\ LET d == cur[s].of IN
       /\ status' = [status EXCEPT ![d] = "IN_PROGRESS"]
       /\ retry' = [retry EXCEPT ![d] = IF cur[s].st = "FAILED"
                                          THEN cur[s].retry + 1 ELSE @]
  /\ Goto(s, "verify")
  /\ UNCHANGED <<depends, call, todo, cur, failed, counter, fresh, resolveVars>>

VerifyDeliverable(s) ==
  /\ pc[s] = "verify"
  /\ failed' = [failed EXCEPT ![s] = @ \/ status[cur[s].of] = "FAILED"]
  /\ cur' = [cur EXCEPT ![s] = NoRow]
  /\ Goto(s, "next")
  /\ UNCHANGED <<rows, call, todo, counter, fresh, resolveVars>>

\* Mutant: a clean batch does not reset the counter.
TrackBatchResultSticky(s) ==
  /\ pc[s] = "count"
  /\ counter' = [counter EXCEPT ![s] = IF failed[s] THEN @ + 1 ELSE @]
  /\ fresh' = [fresh EXCEPT ![s] = IF failed[s] THEN @ ELSE 0]
  /\ Goto(s, IF counter'[s] >= Threshold THEN "suspend" ELSE "cost")
  /\ UNCHANGED <<rows, call, todo, cur, failed, resolveVars>>

TrackBatchResult(s) ==
  /\ pc[s] = "count"
  /\ counter' = [counter EXCEPT ![s] = IF failed[s] THEN @ + 1 ELSE 0]
  /\ fresh' = [fresh EXCEPT ![s] = IF failed[s] THEN @ ELSE 0]
  /\ Goto(s, IF counter'[s] >= Threshold THEN "suspend" ELSE "cost")
  /\ UNCHANGED <<rows, call, todo, cur, failed, resolveVars>>

CheckCost(s) ==
  /\ pc[s] = "cost"
  /\ \/ Leave(s)
     \/ Goto(s, "select") /\ UNCHANGED <<todo, cur, failed, counter>>
  /\ UNCHANGED <<rows, call, fresh, resolveVars>>

SuspendProject(s) ==
  /\ pc[s] = "suspend" /\ Leave(s)
  /\ UNCHANGED <<rows, call, fresh, resolveVars>>

PermanentlyFailed(d) == status[d] = "FAILED" /\ retry[d] >= RetryLimit

\* Mutant: only the direct dependents are skipped.
StuckDirect ==
  {d \in Deliverables :
     status[d] \in Waiting /\ \E e \in depends[d] : PermanentlyFailed(e)}

\* Mutant: whoever waits on a failed deliverable is skipped, retries or not.
StuckOnAnyFailure ==
  {d \in Deliverables :
     status[d] \in Waiting /\ \E e \in depends[d] : status[e] = "FAILED"}

\* The waiting deliverables that a permanent failure blocks, directly or
\* through other waiting ones: the least set closed under the two rules.
Stuck ==
  LET blocked(C) ==
        \A d \in Deliverables :
          /\ status[d] \in Waiting
          /\ \E e \in depends[d] : PermanentlyFailed(e) \/ e \in C
          => d \in C
  IN  {d \in Deliverables : \A C \in SUBSET Deliverables : blocked(C) => d \in C}

SkipRead(s) ==
  /\ pc[s] = "skip_read"
  /\ \/ Stuck = {} /\ Leave(s) /\ UNCHANGED raced
     \/ /\ Stuck # {} /\ Goto(s, "skip")
        /\ todo' = [todo EXCEPT ![s] = Stuck]
        /\ Take(Stuck)
        /\ UNCHANGED <<cur, failed, counter>>
  /\ UNCHANGED <<rows, call, fresh, resolve, disturbed, crossed>>

SkipStuck(s) ==
  /\ pc[s] = "skip"
  /\ status' = [d \in Deliverables |-> IF d \in todo[s] THEN "SKIPPED"
                                                        ELSE status[d]]
  /\ Leave(s)
  /\ UNCHANGED <<retry, depends, call, fresh, resolveVars>>

\* The worker dies or ARQ cancels the session: its calls die with it.
KillSession(s) ==
  /\ pc[s] # "idle"
  /\ Leave(s)
  /\ call' = [c \in Calls |-> IF call[c].by = s THEN NoCall ELSE call[c]]
  /\ UNCHANGED <<rows, fresh, resolveVars>>

-----------------------------------------------------------------------------
ToolStep(c) ==
  \/ CommitUpdate(c) \/ CommitDepends(c)
  \/ \E s \in Sessions, d \in Deliverables :
       \/ UpdateDeliverable(c, s, d)
       \/ \E e \in Deliverables :
            AddDependency(c, s, d, e) \/ RemoveDependency(c, s, d, e)

LoopStep(s) ==
  \/ SelectBatch(s) \/ NextDeliverable(s) \/ MarkInProgress(s)
  \/ VerifyDeliverable(s) \/ TrackBatchResult(s) \/ CheckCost(s)
  \/ SuspendProject(s) \/ SkipRead(s) \/ SkipStuck(s)

Next == \/ \E c \in Calls : ToolStep(c)
        \/ \E r \in Resolvers :
             ReadFailed(r) \/ ResetFailed(r) \/ DropResolution(r)
        \/ \E s \in Sessions :
             StartSession(s) \/ EndAgents(s) \/ LoopStep(s) \/ KillSession(s)

Spec == Init /\ [][Next]_vars

\* The loop's coroutine is scheduled, and what it awaits answers.
LiveSpec == Spec /\ \A s \in Sessions : WF_vars(LoopStep(s))

-----------------------------------------------------------------------------
TypeOK ==
  /\ status \in [Deliverables -> Status]
  /\ retry \in [Deliverables -> Nat]
  /\ depends \in [Deliverables -> SUBSET Deliverables]
  /\ call \in [Calls -> Call]
  /\ pc \in [Sessions -> LoopPc \cup {"idle", "agents"}]
  /\ todo \in [Sessions -> SUBSET Deliverables]
  /\ cur \in [Sessions -> Row]
  /\ failed \in [Sessions -> BOOLEAN]
  /\ counter \in [Sessions -> 0..Threshold]
  /\ fresh \in [Sessions -> 0..Threshold]
  /\ resolve \in [Resolvers -> SUBSET Row]
  /\ disturbed \subseteq Sessions
  /\ raced \subseteq Deliverables
  /\ crossed \in BOOLEAN

(***************************************************************************)
(* The dependency graph stays acyclic: on a cycle no deliverable would     *)
(* ever be ready, and none is permanently failed, so that none is skipped  *)
(* and the taskgroup gate would stay shut (_detect_cycle).  It holds until *)
(* two calls of manage_dependencies are in flight at once, whatever other  *)
(* calls and sessions there are.                                           *)
(***************************************************************************)
Acyclic == \A d \in Deliverables : \A e \in depends[d] : ~Reaches(e, d)

NoDependencyCycle == crossed \/ Acyclic

(***************************************************************************)
(* The loop starts a deliverable only on finished dependencies, although   *)
(* it computes the batch once and works through it later.  Only a          *)
(* resolution or a session that overlaps the loop may take a dependency    *)
(* back.                                                                   *)
(***************************************************************************)
StartedInOrder ==
  \A s \in Sessions \ disturbed :
    pc[s] = "mark" => \A e \in depends[cur[s].of] : status[e] \in Satisfied

(***************************************************************************)
(* The loop itself never retries past deliverable_retry_limit, wherever    *)
(* the PM's own retries or a resolution have taken the count: the row it   *)
(* marks has a retry left, unless another writer has it in hand as well.   *)
(***************************************************************************)
RetryWithinLimit ==
  \A s \in Sessions :
    /\ pc[s] = "mark" /\ cur[s].st = "FAILED" /\ cur[s].of \notin raced
    => retry[cur[s].of] < RetryLimit

(***************************************************************************)
(* What is skipped could not have run: it waits, and depends through some  *)
(* chain on a deliverable that failed for good (D10: a failure does not    *)
(* block deliverables with no dependency path through it).                 *)
(***************************************************************************)
SkippedIsBlocked ==
  \A s \in Sessions \ disturbed :
    pc[s] = "skip" =>
      \A d \in todo[s] :
        /\ status[d] \in Waiting
        /\ \E e \in Deliverables : PermanentlyFailed(e) /\ Reaches(d, e)

(***************************************************************************)
(* When the loop ends because nothing is ready, and the stuck deliverables *)
(* are skipped, what still waits waits on one that may yet finish: never   *)
(* on a permanent failure, never on skipped ones only.                     *)
(***************************************************************************)
NothingForgotten ==
  \A s \in Sessions \ disturbed :
    pc[s] = "skip_read" =>
      \A d \in Deliverables \ Stuck :
        status[d] \in Waiting =>
          /\ \A e \in depends[d] : ~PermanentlyFailed(e) /\ e \notin Stuck
          /\ \E e \in depends[d] : status[e] \notin Satisfied

(***************************************************************************)
(* Finished work stays finished: nothing runs a COMPLETED deliverable      *)
(* again, and nothing takes back SKIPPED, whatever sessions, calls and     *)
(* resolutions overlap and die, unless two of them have this very row in   *)
(* hand at the same time: a resolution that read it while it was FAILED, a *)
(* batch computed before another session finished it, two tool calls.      *)
(***************************************************************************)
FinishedIsFinal ==
  [][\A d \in Deliverables \ raced :
       status[d] \in Satisfied => status'[d] = status[d]]_vars

(***************************************************************************)
(* A suspension is earned: since the last clean batch of the loop at least *)
(* Threshold failures were committed.  A failure is never counted twice,   *)
(* though the loop only looks at rows that others write.                   *)
(***************************************************************************)
SuspensionIsEarned ==
  \A s \in Sessions : pc[s] = "suspend" => fresh[s] >= Threshold

(***************************************************************************)
(* Liveness.  A loop comes to its end, unless the agents of another        *)
(* session, or resolutions, keep giving it work.                           *)
(***************************************************************************)
LoopEnds ==
  \A s \in Sessions :
    pc[s] \in LoopPc ~> \/ pc[s] \notin LoopPc
                        \/ \E t \in Sessions : pc[t] = "agents"
                        \/ \E r \in Resolvers : resolve[r] # {}
=============================================================================
