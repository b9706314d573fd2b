---------------------------- MODULE DirectorScan ----------------------------
(***************************************************************************)
(* process_director_queue, the job that cron starts every minute.  It      *)
(* looks for a kind of escalation that two projects share and alerts the   *)
(* CEO once, then enqueues a Director turn for each project that has       *)
(* escalations and no work session.                                        *)
(*                                                                         *)
(* Its queries, its insert and each Redis call are separate steps.  A scan *)
(* that takes longer than a minute overlaps the next one, items are added  *)
(* and decided meanwhile, sessions start and end, and the worker may die.  *)
(***************************************************************************)
EXTENDS Naturals, FiniteSets

CONSTANTS Projects,
          Types,         \* EscalationRequestType
          Scans,         \* jobs that cron has running
          Nothing,       \* no project, no type
          MaxQueued      \* bound: turns waiting for one project

ASSUME ScanAssumption == /\ Projects \cap Types = {}
                         /\ Nothing \notin Projects \cup Types
                         /\ MaxQueued \in Nat \ {0}

VARIABLES item,      \* PENDING rows of director_queue: project and type
          alert,     \* PENDING notifications of the CEO, by type
          paused,    \* director:paused
          session,   \* projects whose director:work_session key is up
          queue,     \* run_director_turn jobs waiting, by project
          scan,      \* each scan's place and local variables
          unheard,   \* history: items that no turn has read yet
          raced      \* history: types whose alert two scans looked for at once

vars == <<item, alert, paused, session, queue, scan, unheard, raced>>

Pending(p) == \E t \in Types : <<p, t>> \in item

NoScan == [at |-> "idle", types |-> {}, todo |-> {}, cur |-> Nothing]

Init == /\ item = {}
        /\ alert = [t \in Types |-> 0]
        /\ paused = FALSE
        /\ session = {}
        /\ queue = [p \in Projects |-> 0]
        /\ scan = [s \in Scans |-> NoScan]
        /\ unheard = {} /\ raced = {}

-----------------------------------------------------------------------------
(***************************************************************************)
(* What goes on around a scan.                                             *)
(***************************************************************************)
\* escalate_to_director, or the cost ceiling of the batch loop.
EscalateToDirector(p, t) ==
  /\ <<p, t>> \notin item
  /\ item' = item \cup {<<p, t>>}
  /\ unheard' = unheard \cup {<<p, t>>}
  /\ UNCHANGED <<alert, paused, session, queue, scan, raced>>

\* A request of the gateway resolves or forwards it.
DecideItem(p, t) ==
  /\ <<p, t>> \in item
  /\ item' = item \ {<<p, t>>}
  /\ unheard' = unheard \ {<<p, t>>}
  /\ UNCHANGED <<alert, paused, session, queue, scan, raced>>

\* The CEO resolves or dismisses an alert.
AcknowledgeAlert(t) ==
  /\ alert[t] > 0
  /\ alert' = [alert EXCEPT ![t] = @ - 1]
  /\ UNCHANGED <<item, paused, session, queue, scan, unheard, raced>>

\* pause_director and resume_director, whose sweeps of the projects are
\* in ProjectLifecycle.
SetDirectorPaused ==
  /\ paused' = ~paused
  /\ UNCHANGED <<item, alert, session, queue, scan, unheard, raced>>

\* A work session puts its key up, or takes it down.
ToggleSession(p) ==
  /\ session' = IF p \in session THEN session \ {p} ELSE session \cup {p}
  /\ UNCHANGED <<item, alert, paused, queue, scan, unheard, raced>>

\* run_director_turn in queue mode puts every pending item of the project into
\* its prompt; without one it is skipped.  It looks neither at the Director's
\* pause nor at the work session, and decides no item itself.
RunQueueTurn(p) ==
  /\ queue[p] > 0
  /\ queue' = [queue EXCEPT ![p] = @ - 1]
  /\ unheard' = unheard \ ({p} \X Types)
  /\ UNCHANGED <<item, alert, paused, session, scan, raced>>

-----------------------------------------------------------------------------
(***************************************************************************)
(* The scan.                                                               *)
(***************************************************************************)
\* Cron; a paused Director ends the job at once.
StartScan(s) ==
  /\ scan[s].at = "idle"
  /\ ~paused
  /\ scan' = [scan EXCEPT ![s].at = "detect"]
  /\ UNCHANGED <<item, alert, paused, session, queue, unheard, raced>>

\* The types that two projects share.  Which of their items are of the last
\* hour, and count, is left open.
DetectCrossProjectPatterns(s) ==
  /\ scan[s].at = "detect"
  /\ \E ts \in SUBSET {t \in Types :
                        \E p, q \in Projects : p # q /\ {<<p, t>>, <<q, t>>} \subseteq item} :
       scan' = [scan EXCEPT ![s].at = "count", ![s].types = ts]
  /\ UNCHANGED <<item, alert, paused, session, queue, unheard, raced>>

\* Mutant: an alert that is pending already is not looked for.
CountAlertsBlind(s) ==
  /\ scan[s].at = "count"
  /\ \E t \in scan[s].types :
       scan' = [scan EXCEPT ![s].at = "insert", ![s].types = @ \ {t}, ![s].cur = t]
  /\ UNCHANGED <<item, alert, paused, session, queue, unheard, raced>>

Inserting(t) == {s \in Scans : scan[s].at = "insert" /\ scan[s].cur = t}

\* _create_pattern_alert, of the patterns one by one: a pending alert of the
\* type is enough.
CountAlerts(s) ==
  /\ scan[s].at = "count"
  /\ \E t \in scan[s].types :
       \/ /\ alert[t] > 0
          /\ scan' = [scan EXCEPT ![s].types = @ \ {t}]
          /\ UNCHANGED raced
       \/ /\ alert[t] = 0
          /\ scan' = [scan EXCEPT ![s].at = "insert", ![s].types = @ \ {t},
                                  ![s].cur = t]
          /\ raced' = raced \cup {u \in {t} : Inserting(u) # {}}
  /\ UNCHANGED <<item, alert, paused, session, queue, unheard>>

InsertAlert(s) ==
  /\ scan[s].at = "insert"
  /\ alert' = [alert EXCEPT ![scan[s].cur] = @ + 1]
  /\ scan' = [scan EXCEPT ![s].at = "count", ![s].cur = Nothing]
  /\ UNCHANGED <<item, paused, session, queue, unheard, raced>>

\* No pattern is left; or a failure of any step so far, which is caught and
\* only logged.
EndAlerts(s) ==
  /\ \/ scan[s].at = "count" /\ scan[s].types = {}
     \/ scan[s].at \in {"detect", "count", "insert"}
  /\ scan' = [scan EXCEPT ![s] = [NoScan EXCEPT !.at = "select"]]
  /\ UNCHANGED <<item, alert, paused, session, queue, unheard, raced>>

\* The projects with a pending item of whatever age.
SelectProjects(s) ==
  /\ scan[s].at = "select"
  /\ scan' = [scan EXCEPT ![s].at = "check",
                          ![s].todo = {p \in Projects : Pending(p)}]
  /\ UNCHANGED <<item, alert, paused, session, queue, unheard, raced>>

\* Mutant: an active project ends the loop.
CheckSessionBreak(s) ==
  /\ scan[s].at = "check"
  /\ \E p \in scan[s].todo :
       \/ /\ p \in session
          /\ scan' = [scan EXCEPT ![s].todo = {}]
       \/ /\ p \notin session
          /\ scan' = [scan EXCEPT ![s].at = "enqueue", ![s].todo = @ \ {p},
                                  ![s].cur = p]
  /\ UNCHANGED <<item, alert, paused, session, queue, unheard, raced>>

\* A project with a work session is left to a later scan.
CheckSession(s) ==
  /\ scan[s].at = "check"
  /\ \E p \in scan[s].todo :
       \/ /\ p \in session
          /\ scan' = [scan EXCEPT ![s].todo = @ \ {p}]
       \/ /\ p \notin session
          /\ scan' = [scan EXCEPT ![s].at = "enqueue", ![s].todo = @ \ {p},
                                  ![s].cur = p]
  /\ UNCHANGED <<item, alert, paused, session, queue, unheard, raced>>

EnqueueTurn(s) ==
  /\ scan[s].at = "enqueue"
  /\ queue[scan[s].cur] < MaxQueued
  /\ queue' = [queue EXCEPT ![scan[s].cur] = @ + 1]
  /\ scan' = [scan EXCEPT ![s].at = "check", ![s].cur = Nothing]
  /\ UNCHANGED <<item, alert, paused, session, unheard, raced>>

EndScan(s) ==
  /\ scan[s].at = "check" /\ scan[s].todo = {}
  /\ scan' = [scan EXCEPT ![s] = NoScan]
  /\ UNCHANGED <<item, alert, paused, session, queue, unheard, raced>>

\* The worker dies, the job times out, or a call outside the try fails: the
\* rest of the scan is left to the next one.
KillScan(s) ==
  /\ scan[s].at # "idle" /\ (scan[s].at = "check" => scan[s].todo # {})
  /\ scan' = [scan EXCEPT ![s] = NoScan]
  /\ UNCHANGED <<item, alert, paused, session, queue, unheard, raced>>

ScanStep(s) ==
  \/ DetectCrossProjectPatterns(s) \/ CountAlerts(s) \/ InsertAlert(s)
  \/ EndAlerts(s) \/ SelectProjects(s) \/ CheckSession(s) \/ EnqueueTurn(s)
  \/ EndScan(s)

Next == \/ \E p \in Projects, t \in Types :
             EscalateToDirector(p, t) \/ DecideItem(p, t)
        \/ \E t \in Types : AcknowledgeAlert(t)
        \/ SetDirectorPaused
        \/ \E p \in Projects : ToggleSession(p) \/ RunQueueTurn(p)
        \/ \E s \in Scans : StartScan(s) \/ ScanStep(s) \/ KillScan(s)

Spec == Init /\ [][Next]_vars

\* Cron starts a scan every minute, a running scan goes on, and the worker
\* takes up the jobs it finds.
Fairness == /\ \A s \in Scans : WF_vars(StartScan(s)) /\ WF_vars(ScanStep(s))
            /\ \A p \in Projects : WF_vars(RunQueueTurn(p))

LiveSpec == Spec /\ Fairness

-----------------------------------------------------------------------------
TypeOK ==
  /\ item \subseteq Projects \X Types
  /\ alert \in [Types -> Nat]
  /\ paused \in BOOLEAN
  /\ session \subseteq Projects
  /\ queue \in [Projects -> 0..MaxQueued]
  /\ scan \in [Scans -> [at: {"idle", "detect", "count", "insert", "select",
                              "check", "enqueue"},
                         types: SUBSET Types, todo: SUBSET Projects,
                         cur: Projects \cup Types \cup {Nothing}]]
  /\ \A s \in Scans :
       /\ scan[s].at = "insert" => scan[s].cur \in Types
       /\ scan[s].at = "enqueue" => scan[s].cur \in Projects
  /\ unheard \subseteq item
  /\ raced \subseteq Types

(***************************************************************************)
(* The CEO has one alert of a kind of escalation at a time, however many   *)
(* scans see the pattern before it is answered and wherever they fail,     *)
(* unless two scans looked for the alert before either had inserted it.    *)
(***************************************************************************)
AlertOnce == \A t \in Types \ raced : alert[t] <= 1

(***************************************************************************)
(* An escalation that stays is put to the Director: once the Director is   *)
(* not paused and its project has no work session, and scans stop dying, a *)
(* turn reads it, whether or not it counts for a pattern, also when other  *)
(* projects are busy and the search for patterns fails.                    *)
(***************************************************************************)
EveryItemIsHeard ==
  \A p \in Projects, t \in Types :
    <>[](~paused /\ p \notin session) /\ <>[][\A s \in Scans : ~KillScan(s)]_vars
      => [](<<p, t>> \in unheard => <>(<<p, t>> \notin unheard))
=============================================================================
