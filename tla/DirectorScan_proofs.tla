-------------------------- MODULE DirectorScan_proofs --------------------------
(***************************************************************************)
(* Theorems about DirectorScan, for any sets of projects, types and scans: *)
(* its types, and that the CEO has one alert of a kind at a time unless    *)
(* two scans looked for it at once.                                        *)
(***************************************************************************)
EXTENDS DirectorScan, TLAPS

\* What a scan's record is.
Places == {"idle", "detect", "count", "insert", "select", "check", "enqueue"}

ScanRecords == [at: Places, types: SUBSET Types, todo: SUBSET Projects,
                cur: Projects \cup Types \cup {Nothing}]

Aimed(r) == /\ r.at = "insert" => r.cur \in Types
            /\ r.at = "enqueue" => r.cur \in Projects

\* Initially no scan runs.
LEMMA TypeInit == Init => TypeOK
<1> SUFFICES ASSUME Init PROVE TypeOK
  OBVIOUS
<1>1. queue \in [Projects -> 0..MaxQueued]
  BY ScanAssumption DEF Init, ScanAssumption
<1>2. NoScan \in ScanRecords /\ Aimed(NoScan)
  BY DEF NoScan, ScanRecords, Places, Aimed
<1> QED
  BY <1>1, <1>2 DEF Init, TypeOK, ScanRecords, Places, Aimed

\* The steps of the scan leave the types.
LEMMA TypeScan ==
  ASSUME TypeOK, NEW s \in Scans, StartScan(s) \/ ScanStep(s) \/ KillScan(s)
  PROVE  TypeOK'
<1>0. \A v \in Scans : scan[v] \in ScanRecords /\ Aimed(scan[v])
  BY DEF TypeOK, ScanRecords, Places, Aimed
<1>1. SUFFICES
        /\ alert' \in [Types -> Nat]
        /\ queue' \in [Projects -> 0..MaxQueued]
        /\ raced' \subseteq Types
        /\ scan' \in [Scans -> ScanRecords]
        /\ \A v \in Scans : Aimed(scan'[v])
  <2>1. UNCHANGED <<item, paused, session, unheard>>
    BY DEF StartScan, ScanStep, KillScan, DetectCrossProjectPatterns, CountAlerts,
           InsertAlert, EndAlerts, SelectProjects, CheckSession, EnqueueTurn, EndScan
  <2> QED
    BY <1>1, <2>1 DEF TypeOK, ScanRecords, Places, Aimed
<1> DEFINE Quiet == UNCHANGED <<alert, queue, raced>>
<1>q. Quiet => /\ alert' \in [Types -> Nat]
               /\ queue' \in [Projects -> 0..MaxQueued]
               /\ raced' \subseteq Types
  BY DEF TypeOK
<1>2. CASE StartScan(s)
  BY <1>0, <1>2, <1>q DEF StartScan, ScanRecords, Places, Aimed, TypeOK
<1>3. CASE DetectCrossProjectPatterns(s)
  <2>1. PICK ts \in SUBSET Types : scan' = [scan EXCEPT ![s].at = "count", ![s].types = ts]
    BY <1>3 DEF DetectCrossProjectPatterns
  <2>2. Quiet
    BY <1>3 DEF DetectCrossProjectPatterns
  <2>3. [scan[s] EXCEPT !.at = "count", !.types = ts] \in ScanRecords
    BY <1>0, <2>1 DEF ScanRecords, Places
  <2>4. scan' = [scan EXCEPT ![s] = [scan[s] EXCEPT !.at = "count", !.types = ts]]
    BY <2>1
  <2>5. scan' \in [Scans -> ScanRecords]
    BY <1>0, <2>3, <2>4 DEF TypeOK, ScanRecords, Places
  <2>6. \A v \in Scans : Aimed(scan'[v])
    BY <1>0, <2>1 DEF Aimed, TypeOK
  <2> QED
    BY <2>2, <2>5, <2>6, <1>q
<1>4. CASE CountAlerts(s)
  <2>1. PICK t \in scan[s].types :
          \/ scan' = [scan EXCEPT ![s].types = @ \ {t}] /\ UNCHANGED raced
          \/ /\ scan' = [scan EXCEPT ![s].at = "insert", ![s].types = @ \ {t}, ![s].cur = t]
             /\ raced' \subseteq raced \cup {t}
    BY <1>4 DEF CountAlerts
  <2>2. t \in Types /\ raced' \subseteq Types
    BY <2>1, <1>0 DEF ScanRecords, TypeOK
  <2>3. alert' \in [Types -> Nat] /\ queue' \in [Projects -> 0..MaxQueued]
    BY <1>4 DEF CountAlerts, TypeOK
  <2>4. scan[s].at = "count"
    BY <1>4 DEF CountAlerts
  <2> QED
    BY <1>0, <2>1, <2>2, <2>3, <2>4 DEF ScanRecords, Places, Aimed, TypeOK
<1>5. CASE InsertAlert(s)
  BY <1>0, <1>5, ScanAssumption
  DEF InsertAlert, ScanRecords, Places, Aimed, TypeOK, ScanAssumption
<1>6. CASE EndAlerts(s)
  BY <1>0, <1>6, <1>q DEF EndAlerts, NoScan, ScanRecords, Places, Aimed, TypeOK
<1>7. CASE SelectProjects(s)
  <2>1. PICK ps \in SUBSET Projects :
          scan' = [scan EXCEPT ![s].at = "check", ![s].todo = ps]
    BY <1>7 DEF SelectProjects
  <2>2. Quiet
    BY <1>7 DEF SelectProjects
  <2>3. [scan[s] EXCEPT !.at = "check", !.todo = ps] \in ScanRecords
    BY <1>0, <2>1 DEF ScanRecords, Places
  <2>4. scan' = [scan EXCEPT ![s] = [scan[s] EXCEPT !.at = "check", !.todo = ps]]
    BY <2>1
  <2>5. scan' \in [Scans -> ScanRecords]
    BY <1>0, <2>3, <2>4 DEF TypeOK, ScanRecords, Places
  <2>6. \A v \in Scans : Aimed(scan'[v])
    BY <1>0, <2>1 DEF Aimed, TypeOK
  <2> QED
    BY <2>2, <2>5, <2>6, <1>q
<1>8. CASE CheckSession(s)
  <2>1. PICK p \in scan[s].todo :
          \/ scan' = [scan EXCEPT ![s].todo = @ \ {p}]
          \/ scan' = [scan EXCEPT ![s].at = "enqueue", ![s].todo = @ \ {p}, ![s].cur = p]
    BY <1>8 DEF CheckSession
  <2>2. p \in Projects
    BY <2>1, <1>0 DEF ScanRecords
  <2> QED
    BY <1>0, <1>8, <2>1, <2>2, <1>q DEF CheckSession, ScanRecords, Places, Aimed, TypeOK
<1>9. CASE EnqueueTurn(s)
  BY <1>0, <1>9, ScanAssumption
  DEF EnqueueTurn, ScanRecords, Places, Aimed, TypeOK, ScanAssumption
<1>10. CASE EndScan(s)
  BY <1>0, <1>10, <1>q DEF EndScan, NoScan, ScanRecords, Places, Aimed, TypeOK
<1>11. CASE KillScan(s)
  BY <1>0, <1>11, <1>q DEF KillScan, NoScan, ScanRecords, Places, Aimed, TypeOK
<1> QED
  BY <1>2, <1>3, <1>4, <1>5, <1>6, <1>7, <1>8, <1>9, <1>10, <1>11 DEF ScanStep

\* So do the steps around it.
LEMMA TypeStep == TypeOK /\ [Next]_vars => TypeOK'
<1> SUFFICES ASSUME TypeOK, [Next]_vars PROVE TypeOK'
  OBVIOUS
<1>1. ASSUME NEW p \in Projects, NEW t \in Types,
             EscalateToDirector(p, t) \/ DecideItem(p, t)
      PROVE  TypeOK'
  BY <1>1 DEF EscalateToDirector, DecideItem, TypeOK
<1>2. ASSUME NEW t \in Types, AcknowledgeAlert(t) PROVE TypeOK'
  BY <1>2 DEF AcknowledgeAlert, TypeOK
<1>3. CASE SetDirectorPaused
  BY <1>3 DEF SetDirectorPaused, TypeOK
<1>4. ASSUME NEW p \in Projects, ToggleSession(p) PROVE TypeOK'
  BY <1>4 DEF ToggleSession, TypeOK
<1>5. ASSUME NEW p \in Projects, RunQueueTurn(p) PROVE TypeOK'
  BY <1>5, ScanAssumption DEF RunQueueTurn, TypeOK, ScanAssumption
<1>6. ASSUME NEW s \in Scans, StartScan(s) \/ ScanStep(s) \/ KillScan(s) PROVE TypeOK'
  BY <1>6, TypeScan
<1>7. CASE UNCHANGED vars
  BY <1>7 DEF vars, TypeOK
<1> QED
  BY <1>1, <1>2, <1>3, <1>4, <1>5, <1>6, <1>7 DEF Next

(***************************************************************************)
(* Every state of process_director_queue and of what it looks at has its   *)
(* type: a scan that inserts an alert has a type for it, one that enqueues *)
(* a turn has a project, and an item no turn has read is pending.          *)
(***************************************************************************)
THEOREM TypeCorrect == Spec => []TypeOK
<1> QED
  BY TypeInit, TypeStep, PTL DEF Spec

-----------------------------------------------------------------------------
\* The strengthening: of a type that is not raced one scan at most is about to
\* insert an alert, and then there is none.
OneInserter == \A t \in Types \ raced : \A s \in Scans :
                 scan[s].at = "insert" /\ scan[s].cur = t
                 => /\ alert[t] = 0
                    /\ \A v \in Scans : scan[v].at = "insert" /\ scan[v].cur = t => v = s

AlertInv == AlertOnce /\ OneInserter

\* What each step may do to the alert of a type that is not raced and to the
\* scans that are about to insert it.
LEMMA AlertStep == TypeOK /\ AlertInv /\ [Next]_vars => AlertInv'
<1> SUFFICES ASSUME TypeOK, AlertInv, [Next]_vars PROVE AlertInv'
  OBVIOUS
<1> DEFINE Keeps == /\ UNCHANGED <<alert, raced>>
                    /\ \A v \in Scans : scan'[v].at = "insert" =>
                         scan[v].at = "insert" /\ scan[v].cur = scan'[v].cur
<1>k. ASSUME Keeps PROVE AlertInv'
  BY <1>k DEF AlertInv, AlertOnce, OneInserter
<1>1. ASSUME NEW p \in Projects, NEW t \in Types,
             EscalateToDirector(p, t) \/ DecideItem(p, t)
      PROVE  AlertInv'
  BY <1>1, <1>k DEF EscalateToDirector, DecideItem
<1>2. ASSUME NEW t \in Types, AcknowledgeAlert(t) PROVE AlertInv'
  BY <1>2 DEF AcknowledgeAlert, TypeOK, AlertInv, AlertOnce, OneInserter
<1>3. CASE SetDirectorPaused
  BY <1>3, <1>k DEF SetDirectorPaused
<1>4. ASSUME NEW p \in Projects, ToggleSession(p) \/ RunQueueTurn(p) PROVE AlertInv'
  BY <1>4, <1>k DEF ToggleSession, RunQueueTurn
<1>5. ASSUME NEW s \in Scans, CountAlerts(s) PROVE AlertInv'
  <2>1. PICK t \in scan[s].types :
          \/ scan' = [scan EXCEPT ![s].types = @ \ {t}] /\ UNCHANGED raced
          \/ /\ alert[t] = 0
             /\ scan' = [scan EXCEPT ![s].at = "insert", ![s].types = @ \ {t}, ![s].cur = t]
             /\ raced' = raced \cup {u \in {t} : Inserting(u) # {}}
    BY <1>5 DEF CountAlerts
  <2>2. t \in Types /\ UNCHANGED alert /\ scan[s].at = "count"
    BY <1>5 DEF CountAlerts, TypeOK
  <2>3. CASE scan' = [scan EXCEPT ![s].types = @ \ {t}] /\ UNCHANGED raced
    BY <2>2, <2>3, <1>k DEF TypeOK
  <2>4. CASE /\ alert[t] = 0
             /\ scan' = [scan EXCEPT ![s].at = "insert", ![s].types = @ \ {t}, ![s].cur = t]
             /\ raced' = raced \cup {u \in {t} : Inserting(u) # {}}
    <3>1. t \notin raced' => \A v \in Scans : ~(scan[v].at = "insert" /\ scan[v].cur = t)
      BY <2>4 DEF Inserting
    <3>2. raced \subseteq raced'
      BY <2>4
    <3>3. /\ scan'[s].at = "insert" /\ scan'[s].cur = t
          /\ \A v \in Scans \ {s} : scan'[v] = scan[v]
      BY <2>4 DEF TypeOK
    <3>4. OneInserter'
      <4> SUFFICES ASSUME NEW x \in Types \ raced', NEW v \in Scans,
                          scan'[v].at = "insert", scan'[v].cur = x
                   PROVE  /\ alert[x] = 0
                          /\ \A z \in Scans :
                               scan'[z].at = "insert" /\ scan'[z].cur = x => z = v
        BY <2>2 DEF OneInserter
      <4>1. CASE x = t
        BY <4>1, <2>4, <3>1, <3>3
      <4>2. CASE x # t
        BY <4>2, <3>2, <3>3 DEF AlertInv, OneInserter
      <4> QED
        BY <4>1, <4>2
    <3>5. AlertOnce'
      BY <2>2, <3>2 DEF AlertInv, AlertOnce
    <3> QED
      BY <3>4, <3>5 DEF AlertInv
  <2> QED
    BY <2>1, <2>3, <2>4
<1>6. ASSUME NEW s \in Scans, InsertAlert(s) PROVE AlertInv'
  <2>1. PICK t \in Types : t = scan[s].cur
    BY <1>6 DEF InsertAlert, TypeOK
  <2>2. /\ scan[s].at = "insert" /\ UNCHANGED raced
        /\ alert' = [alert EXCEPT ![t] = @ + 1]
        /\ scan'[s].at = "count"
        /\ \A v \in Scans \ {s} : scan'[v] = scan[v]
    BY <1>6, <2>1 DEF InsertAlert, TypeOK
  <2>3. AlertOnce'
    BY <2>1, <2>2 DEF AlertInv, AlertOnce, OneInserter, TypeOK
  <2>4. OneInserter'
    BY <2>1, <2>2 DEF AlertInv, OneInserter, TypeOK
  <2> QED
    BY <2>3, <2>4 DEF AlertInv
<1>7. ASSUME NEW s \in Scans,
             \/ StartScan(s) \/ KillScan(s) \/ DetectCrossProjectPatterns(s)
             \/ EndAlerts(s) \/ SelectProjects(s) \/ EnqueueTurn(s) \/ EndScan(s)
      PROVE  AlertInv'
  <2>1. UNCHANGED <<alert, raced>>
    BY <1>7 DEF StartScan, KillScan, DetectCrossProjectPatterns, EndAlerts,
                SelectProjects, EnqueueTurn, EndScan
  <2>2. (\A v \in Scans \ {s} : scan'[v] = scan[v]) /\ scan'[s].at # "insert"
    BY <1>7 DEF StartScan, KillScan, DetectCrossProjectPatterns, EndAlerts,
                SelectProjects, EnqueueTurn, EndScan, NoScan, TypeOK
  <2> QED
    BY <2>1, <2>2, <1>k
<1>8. ASSUME NEW s \in Scans, CheckSession(s) PROVE AlertInv'
  <2>1. (\A v \in Scans \ {s} : scan'[v] = scan[v]) /\ scan'[s].at # "insert"
    BY <1>8 DEF CheckSession, TypeOK
  <2> QED
    BY <1>8, <2>1, <1>k DEF CheckSession
<1>9. CASE UNCHANGED vars
  BY <1>9, <1>k DEF vars
<1> QED
  BY <1>1, <1>2, <1>3, <1>4, <1>5, <1>6, <1>7, <1>8, <1>9 DEF Next, ScanStep

(***************************************************************************)
(* One alert at a time of each kind of escalation, for any number of       *)
(* projects, kinds and overlapping runs of process_director_queue, unless  *)
(* two of them counted the alerts before either had inserted its own.      *)
(***************************************************************************)
THEOREM AlertOnceHolds == Spec => []AlertOnce
<1>1. Init => AlertInv
  BY DEF Init, AlertInv, AlertOnce, OneInserter, NoScan
<1>2. AlertInv => AlertOnce
  BY DEF AlertInv
<1> QED
  BY <1>1, <1>2, TypeCorrect, AlertStep, PTL DEF Spec
=============================================================================
