----------------------------- MODULE Escalations -----------------------------
(***************************************************************************)
(* The two queues of escalations and the gateway requests that decide      *)
(* their items.  A PM escalates to the Director's queue.  An item there is *)
(* resolved or forwarded, as a new item of the CEO's queue, where the      *)
(* Director and failing work sessions put theirs as well.  An item of the  *)
(* CEO's queue is resolved or dismissed, and a resolution is sent back to  *)
(* its project as a job.                                                   *)
(*                                                                         *)
(* A request reads its item, commits the decision, and sends the job, with *)
(* an await between each two of them and no lock on the item: requests on  *)
(* one item may overlap, and each may die in between.                      *)
(***************************************************************************)
EXTENDS Naturals

CONSTANTS Projects,
          DirectorItems, CeoItems,  \* keys of the two tables (they bound them)
          Requests,                 \* PATCH requests of the gateway
          Nothing                   \* no project, no item

ASSUME ItemAssumption ==
  /\ DirectorItems \cap CeoItems = {}
  /\ Nothing \notin Projects \cup DirectorItems \cup CeoItems

VARIABLES ditem, citem,     \* director_queue, ceo_queue
          req,              \* each request's place, item and action
          sent,             \* the jobs enqueued for each item of the CEO
          contested, lost   \* history: requests on the item have overlapped,
                            \* one has died before it sent its job

vars == <<ditem, citem, req, sent, contested, lost>>

\* A row that does not exist has the status "NONE".  IN_PROGRESS and SEEN are
\* declared in the code and never written.
DirectorStatus == {"NONE", "PENDING", "RESOLVED", "FORWARDED_TO_CEO"}
CeoStatus == {"NONE", "PENDING", "RESOLVED", "DISMISSED"}
CeoType == {"NOTIFICATION", "APPROVAL", "ESCALATION", "TASK"}
Items == DirectorItems \cup CeoItems
NoDirectorItem == [status |-> "NONE", project |-> Nothing]
NoCeoItem == [status |-> "NONE", type |-> "NOTIFICATION", project |-> Nothing,
              from |-> Nothing]
NoRequest == [at |-> "idle", item |-> Nothing, action |-> "RESOLVE"]

StatusOf(i) == IF i \in DirectorItems THEN ditem[i].status ELSE citem[i].status

\* What resolving the item sends to its project.
Resumes(c) == /\ citem[c].type \in {"APPROVAL", "ESCALATION"}
              /\ citem[c].project # Nothing

Init == /\ ditem = [d \in DirectorItems |-> NoDirectorItem]
        /\ citem = [c \in CeoItems |-> NoCeoItem]
        /\ req = [q \in Requests |-> NoRequest]
        /\ sent = [c \in CeoItems |-> 0]
        /\ contested = {} /\ lost = {}

-----------------------------------------------------------------------------
(***************************************************************************)
(* New items.                                                              *)
(***************************************************************************)
\* escalate_to_director (whose session may name no project) and the cost
\* ceiling of the batch loop escalate; override_pm records what is done already.
NewDirectorItem(d) ==
  /\ ditem[d].status = "NONE"
  /\ \E p \in Projects \cup {Nothing}, st \in {"PENDING", "RESOLVED"} :
       /\ st = "RESOLVED" => p # Nothing
       /\ ditem' = [ditem EXCEPT ![d] = [status |-> st, project |-> p]]
  /\ UNCHANGED <<citem, req, sent, contested, lost>>

\* escalate_to_ceo and the alerts of process_director_queue name no project.
EscalateToCeo(c) ==
  /\ citem[c].status = "NONE"
  /\ \E t \in CeoType :
       citem' = [citem EXCEPT ![c] = [status |-> "PENDING", type |-> t,
                                      project |-> Nothing, from |-> Nothing]]
  /\ UNCHANGED <<ditem, req, sent, contested, lost>>

\* The exception handler of a work session names its project.
SessionFails(c) ==
  /\ citem[c].status = "NONE"
  /\ \E p \in Projects :
       citem' = [citem EXCEPT ![c] = [status |-> "PENDING", type |-> "ESCALATION",
                                      project |-> p, from |-> Nothing]]
  /\ UNCHANGED <<ditem, req, sent, contested, lost>>

-----------------------------------------------------------------------------
(***************************************************************************)
(* The requests.                                                           *)
(***************************************************************************)
Actions(i) == IF i \in DirectorItems THEN {"RESOLVE", "FORWARD_TO_CEO"}
                                     ELSE {"RESOLVE", "DISMISS"}

\* Mutant: the conflict is not looked for.
ReadItemDecided(q) ==
  /\ req[q].at = "idle"
  /\ \E i \in {j \in Items : StatusOf(j) # "NONE"} :
     \E a \in Actions(i) :
       /\ req' = [req EXCEPT ![q] = [at |-> "commit", item |-> i, action |-> a]]
       /\ contested' = contested \cup
            {j \in {i} : \E r \in Requests : req[r].at = "commit" /\ req[r].item = j}
  /\ UNCHANGED <<ditem, citem, sent, lost>>

\* A decided item is a conflict; the request ends.
ReadItem(q) ==
  /\ req[q].at = "idle"
  /\ \E i \in {j \in Items : StatusOf(j) = "PENDING"} :
     \E a \in Actions(i) :
       /\ req' = [req EXCEPT ![q] = [at |-> "commit", item |-> i, action |-> a]]
       /\ contested' = contested \cup
            {j \in {i} : \E r \in Requests : req[r].at = "commit" /\ req[r].item = j}
  /\ UNCHANGED <<ditem, citem, sent, lost>>

ResolveDirectorItem(q) ==
  /\ req[q].at = "commit" /\ req[q].item \in DirectorItems
  /\ req[q].action = "RESOLVE"
  /\ ditem' = [ditem EXCEPT ![req[q].item].status = "RESOLVED"]
  /\ req' = [req EXCEPT ![q] = NoRequest]
  /\ UNCHANGED <<citem, sent, contested, lost>>

\* Mutant: the new item is inserted and the old one stays as it is.
ForwardCopy(q) ==
  /\ req[q].at = "commit" /\ req[q].item \in DirectorItems
  /\ req[q].action = "FORWARD_TO_CEO"
  /\ \E c \in CeoItems :
       /\ citem[c].status = "NONE"
       /\ citem' = [citem EXCEPT ![c] =
                      [status |-> "PENDING", type |-> "ESCALATION",
                       project |-> ditem[req[q].item].project,
                       from |-> req[q].item]]
  /\ req' = [req EXCEPT ![q] = NoRequest]
  /\ UNCHANGED <<ditem, sent, contested, lost>>

\* One transaction inserts the CEO's item and marks the Director's.
ForwardToCeo(q) ==
  /\ req[q].at = "commit" /\ req[q].item \in DirectorItems
  /\ req[q].action = "FORWARD_TO_CEO"
  /\ \E c \in CeoItems :
       /\ citem[c].status = "NONE"
       /\ citem' = [citem EXCEPT ![c] =
                      [status |-> "PENDING", type |-> "ESCALATION",
                       project |-> ditem[req[q].item].project,
                       from |-> req[q].item]]
  /\ ditem' = [ditem EXCEPT ![req[q].item].status = "FORWARDED_TO_CEO"]
  /\ req' = [req EXCEPT ![q] = NoRequest]
  /\ UNCHANGED <<sent, contested, lost>>

\* A resolution may still have its job to send; a dismissal is over.
DecideCeoItem(q) ==
  /\ req[q].at = "commit" /\ req[q].item \in CeoItems
  /\ \/ /\ req[q].action = "RESOLVE"
        /\ citem' = [citem EXCEPT ![req[q].item].status = "RESOLVED"]
        /\ IF Resumes(req[q].item)
             THEN req' = [req EXCEPT ![q].at = "enqueue"]
             ELSE req' = [req EXCEPT ![q] = NoRequest]
     \/ /\ req[q].action = "DISMISS"
        /\ citem' = [citem EXCEPT ![req[q].item].status = "DISMISSED"]
        /\ req' = [req EXCEPT ![q] = NoRequest]
  /\ UNCHANGED <<ditem, sent, contested, lost>>

\* run_work_session for an approval, apply_resolution for an escalation.
SendResolution(q) ==
  /\ req[q].at = "enqueue"
  /\ sent' = [sent EXCEPT ![req[q].item] = @ + 1]
  /\ req' = [req EXCEPT ![q] = NoRequest]
  /\ UNCHANGED <<ditem, citem, contested, lost>>

\* The gateway dies, the client's connection does, or a step raises.
KillRequest(q) ==
  /\ req[q].at # "idle"
  /\ lost' = lost \cup {i \in {req[q].item} : req[q].at = "enqueue"}
  /\ req' = [req EXCEPT ![q] = NoRequest]
  /\ UNCHANGED <<ditem, citem, sent, contested>>

Request(q) ==
  \/ ReadItem(q) \/ ResolveDirectorItem(q) \/ ForwardToCeo(q)
  \/ DecideCeoItem(q) \/ SendResolution(q) \/ KillRequest(q)

Next == \/ \E d \in DirectorItems : NewDirectorItem(d)
        \/ \E c \in CeoItems : EscalateToCeo(c) \/ SessionFails(c)
        \/ \E q \in Requests : Request(q)

Spec == Init /\ [][Next]_vars

-----------------------------------------------------------------------------
TypeOK ==
  /\ ditem \in [DirectorItems -> [status: DirectorStatus,
                                  project: Projects \cup {Nothing}]]
  /\ citem \in [CeoItems -> [status: CeoStatus, type: CeoType,
                             project: Projects \cup {Nothing},
                             from: DirectorItems \cup {Nothing}]]
  /\ req \in [Requests -> [at: {"idle", "commit", "enqueue"},
                           item: Items \cup {Nothing},
                           action: {"RESOLVE", "DISMISS", "FORWARD_TO_CEO"}]]
  /\ sent \in [CeoItems -> Nat]
  /\ contested \subseteq Items /\ lost \subseteq CeoItems

(***************************************************************************)
(* A resolution reaches its project exactly once, and a dismissal never,   *)
(* whatever happens to requests on other items, unless two requests        *)
(* overlapped on the item, or the one died between its commit and its job. *)
(***************************************************************************)
Sending(c) == \E q \in Requests : req[q].at = "enqueue" /\ req[q].item = c

ResolutionSentOnce ==
  \A c \in CeoItems \ contested :
    /\ sent[c] = IF /\ citem[c].status = "RESOLVED" /\ Resumes(c)
                    /\ ~Sending(c) /\ c \notin lost
                   THEN 1 ELSE 0
    /\ Sending(c) => citem[c].status = "RESOLVED"

(***************************************************************************)
(* An item of the Director has an heir in the CEO's queue just when it was *)
(* forwarded, one only, and for the same project, so that the escalation   *)
(* is neither dropped nor asked twice; again unless requests overlapped.   *)
(***************************************************************************)
Heirs(d) == {c \in CeoItems : citem[c].from = d}

ForwardedHasHeir ==
  \A d \in DirectorItems \ contested :
    /\ (Heirs(d) # {}) <=> (ditem[d].status = "FORWARDED_TO_CEO")
    /\ \A b, c \in Heirs(d) : b = c
    /\ \A c \in Heirs(d) : citem[c].project = ditem[d].project

(***************************************************************************)
(* A decision stands: what was resolved, forwarded or dismissed is not     *)
(* decided again, as a second request is refused, unless both overlapped.  *)
(***************************************************************************)
DecisionStands ==
  [][\A i \in Items \ contested :
       StatusOf(i) \notin {"NONE", "PENDING"} => StatusOf(i)' = StatusOf(i)]_vars
=============================================================================
