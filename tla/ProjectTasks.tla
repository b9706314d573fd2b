----------------------------- MODULE ProjectTasks -----------------------------
(***************************************************************************)
(* The lists of things to do that agents keep: project_tasks rows, shared  *)
(* by the agents of all sessions (task_create, task_update, task_query),   *)
(* and the todos in the state of one session (todo_write and its readers). *)
(*                                                                         *)
(* A call of task_update reads the row, changes its copy and commits the   *)
(* columns that differ from what it has read; then it reads the row again  *)
(* for its answer.  The calls of one model response run side by side on    *)
(* the same session state, and the last delta of the list is kept.         *)
(***************************************************************************)
EXTENDS Naturals, FiniteSets

CONSTANTS Callers,     \* tool calls in flight
          Tasks,       \* keys of project_tasks
          Todos,       \* ids of todos
          MaxNotes     \* notes appended, which also numbers them

TaskAssumption == MaxNotes \in Nat

VARIABLES row,         \* project_tasks
          call,        \* of each caller: the step, its task, its wish, its copy
          used,        \* notes handed out
          told,        \* history: note -> task, of updates answered with success
          raced,       \* history: tasks that two updates have had at once
          todos,       \* state["todos"]
          completed    \* history: listed todos whose COMPLETE was answered
                       \* with success

list == <<todos, completed>>
vars == <<row, call, used, told, raced, list>>

Status == {"OPEN", "DONE"}               \* BLOCKED, IN_PROGRESS are like OPEN
NoRow == [status |-> "none", notes |-> {}]
Keep == "keep"                           \* the argument is None
NoNote == 0
Idle(t) == [at |-> "idle", task |-> t, status |-> Keep, note |-> NoNote,
            copy |-> NoRow]
AnyTask == CHOOSE t \in Tasks : TRUE

Init == /\ row = [t \in Tasks |-> NoRow]
        /\ call = [c \in Callers |-> Idle(AnyTask)]
        /\ used = 0 /\ told = {} /\ raced = {}
        /\ todos = [i \in Todos |-> "none"] /\ completed = {}

-----------------------------------------------------------------------------
(***************************************************************************)
(* Tasks.                                                                  *)
(***************************************************************************)
Create(t) ==
  /\ row[t] = NoRow
  /\ row' = [row EXCEPT ![t] = [status |-> "OPEN", notes |-> {}]]
  /\ UNCHANGED <<call, used, told, raced, list>>

\* A task that does not exist, a status or an id that is none: no session step.
ReadTask(c) ==
  /\ call[c].at = "idle"
  /\ \E t \in Tasks, s \in Status \cup {Keep}, n \in {NoNote, used + 1} :
       /\ row[t] # NoRow
       /\ s # Keep \/ n # NoNote
       /\ n <= MaxNotes
       /\ call' = [call EXCEPT ![c] = [at |-> "read", task |-> t, status |-> s,
                                       note |-> n, copy |-> row[t]]]
       /\ used' = IF n = NoNote THEN used ELSE n
       /\ raced' = IF \E b \in Callers \ {c} :
                        call[b].at = "read" /\ call[b].task = t
                     THEN raced \cup {t} ELSE raced
  /\ UNCHANGED <<row, told, list>>

\* The copy with what the caller asked for.
Wanted(k) == [status |-> IF k.status = Keep THEN k.copy.status ELSE k.status,
              notes |-> k.copy.notes \cup ({k.note} \ {NoNote})]

\* Mutant: the whole copy is written.
FlushWhole(k, r) == Wanted(k)

\* The UPDATE has the columns whose value is not the one that was read.
Flush(k, r) ==
  [status |-> IF Wanted(k).status = k.copy.status THEN r.status ELSE k.status,
   notes |-> IF k.note = NoNote THEN r.notes ELSE Wanted(k).notes]

CommitTask(c) ==
  /\ call[c].at = "read"
  /\ LET k == call[c]
     IN  /\ row' = [row EXCEPT ![k.task] = Flush(k, @)]
         /\ told' = IF k.note = NoNote THEN told ELSE told \cup {<<k.note, k.task>>}
         /\ call' = [call EXCEPT ![c] = Idle(AnyTask)]
  /\ UNCHANGED <<used, raced, list>>

\* The connection is lost, or the worker dies: nothing is written.
AbandonTask(c) ==
  /\ call[c].at = "read"
  /\ call' = [call EXCEPT ![c] = Idle(AnyTask)]
  /\ UNCHANGED <<row, used, told, raced, list>>

-----------------------------------------------------------------------------
(***************************************************************************)
(* Todos.                                                                  *)
(***************************************************************************)
Listed == {i \in Todos : todos[i] # "none"}

\* What one call would leave on the list, or the list as it was when the call
\* is refused (no such todo).
After(action, i) == CASE action = "ADD"    -> Listed \cup {i}
                      [] action = "REMOVE" -> Listed \ {i}
                      [] OTHER             -> Listed

Writes(action, i) == action = "ADD" \/ i \in Listed

\* What the calls a of i and b of j complete.
Finished(a, i, b, j) ==
  {k \in Listed : (a = "COMPLETE" /\ k = i) \/ (b = "COMPLETE" /\ k = j)}

\* Mutant: COMPLETE changes a copy too, so that the last call's list counts.
DoneInCopy(a, i, b, j) == Finished(IF Writes(b, j) THEN "none" ELSE a, i, b, j)

\* COMPLETE changes the item itself, which all copies of the list share.
Done(a, i, b, j) == Finished(a, i, b, j)

\* Two calls of one response, of which the last that writes leaves its list.
WriteTodos ==
  /\ \E a, b \in {"ADD", "COMPLETE", "REMOVE", "UPDATE"}, i, j \in Todos :
       /\ a = "ADD" => i \notin Listed         \* a new id
       /\ b = "ADD" => j \notin Listed /\ (a = "ADD" => i # j)
       /\ LET left == IF Writes(b, j) THEN After(b, j)
                      ELSE IF Writes(a, i) THEN After(a, i) ELSE Listed
          IN  /\ todos' = [k \in Todos |->
                             IF k \notin left THEN "none"
                             ELSE IF k \in Done(a, i, b, j) THEN "DONE"
                             ELSE IF k \in Listed THEN todos[k] ELSE "PENDING"]
              /\ completed' = (completed \cup Finished(a, i, b, j)) \cap left
  /\ UNCHANGED <<row, call, used, told, raced>>

Next == \/ \E t \in Tasks : Create(t)
        \/ \E c \in Callers : ReadTask(c) \/ CommitTask(c) \/ AbandonTask(c)
        \/ WriteTodos

Spec == Init /\ [][Next]_vars

-----------------------------------------------------------------------------
Row == [status: Status, notes: SUBSET (1..MaxNotes)]
Call == [at: {"read"}, task: Tasks, status: Status \cup {Keep},
         note: 0..MaxNotes, copy: Row]

(***************************************************************************)
(* Rows and copies have a status and numbers of notes, calls their task.   *)
(***************************************************************************)
TypeOK == /\ row \in [Tasks -> {NoRow} \cup Row]
          /\ call \in [Callers -> {Idle(AnyTask)} \cup Call]
          /\ used \in 0..MaxNotes
          /\ told \subseteq (1..MaxNotes) \X Tasks
          /\ raced \subseteq Tasks
          /\ todos \in [Todos -> {"none", "PENDING", "DONE"}]
          /\ completed \subseteq Listed

\* A copy is of a row that exists; while no second update has had its task, it
\* is that row, and no other caller has one.
CopyIsFresh ==
  \A c \in Callers : call[c].at = "read" =>
    /\ row[call[c].task] # NoRow
    /\ call[c].task \notin raced =>
         /\ call[c].copy = row[call[c].task]
         /\ \A b \in Callers : call[b].at = "read" /\ call[b].task = call[c].task
                               => b = c

(***************************************************************************)
(* A note whose update was answered with success is in the task's notes,   *)
(* unless two updates have had the task at once (task_update reads the     *)
(* notes, appends and writes them without a lock).                         *)
(***************************************************************************)
NotesKept == \A p \in told : p[2] \in raced \/ p[1] \in row[p[2]].notes

(***************************************************************************)
(* A task's status changes only by a call that asks for that status and    *)
(* has read another: a caller that adds a note, or that asks for the       *)
(* status it has read, never puts back an old one, however old its copy of *)
(* the row is.                                                             *)
(***************************************************************************)
StatusStep ==
  \A t \in Tasks : row[t] # NoRow /\ row'[t].status # row[t].status =>
    \E c \in Callers : /\ call[c].at = "read" /\ call[c].task = t
                       /\ call[c].status = row'[t].status
                       /\ call[c].copy.status # row'[t].status

StatusIsAskedFor == [][StatusStep]_vars

(***************************************************************************)
(* A todo whose completion was answered with success stays DONE while it   *)
(* is listed, also when another call of the same response writes its own   *)
(* copy of the list over it (todo_write changes the item in place).        *)
(***************************************************************************)
CompletionKept == \A i \in completed : todos[i] = "DONE"
=============================================================================
