-------------------------- MODULE Escalations_proofs --------------------------
(***************************************************************************)
(* Theorems about Escalations, for any sets of projects, items and         *)
(* requests: its types, and that an item on which no two requests overlap  *)
(* is decided once, keeps its decision, and is passed on once.             *)
(***************************************************************************)
EXTENDS Escalations, TLAPS

-----------------------------------------------------------------------------
\* A request has an item just while it is busy, and only an item of the CEO
\* has a resolution to send.
Aimed == \A q \in Requests :
           /\ req[q].at = "idle" => req[q].item = Nothing
           /\ req[q].at = "commit" => req[q].item \in Items
           /\ req[q].at = "enqueue" => req[q].item \in CeoItems

TypeInv == TypeOK /\ Aimed

NewRequest(q, r) == req' = [req EXCEPT ![q] = r]

\* What a request's record may become.
LEMMA RequestType ==
  ASSUME TypeInv, NEW q \in Requests,
         NEW at \in {"idle", "commit", "enqueue"}, NEW i,
         NEW a \in {"RESOLVE", "DISMISS", "FORWARD_TO_CEO"},
         NewRequest(q, [at |-> at, item |-> i, action |-> a]),
         \/ at = "idle" /\ i = Nothing
         \/ at = "commit" /\ i \in Items
         \/ at = "enqueue" /\ i \in CeoItems
  PROVE  /\ req' \in [Requests -> [at: {"idle", "commit", "enqueue"},
                                   item: Items \cup {Nothing},
                                   action: {"RESOLVE", "DISMISS", "FORWARD_TO_CEO"}]]
         /\ Aimed'
<1>1. i \in Items \cup {Nothing}
  BY DEF Items
<1> QED
  BY <1>1 DEF NewRequest, TypeInv, TypeOK, Aimed

LEMMA EndType ==
  ASSUME TypeInv, NEW q \in Requests, req' = [req EXCEPT ![q] = NoRequest]
  PROVE  /\ req' \in [Requests -> [at: {"idle", "commit", "enqueue"},
                                   item: Items \cup {Nothing},
                                   action: {"RESOLVE", "DISMISS", "FORWARD_TO_CEO"}]]
         /\ Aimed'
BY RequestType DEF NewRequest, NoRequest

LEMMA TypeStep == TypeInv /\ [Next]_vars => TypeInv'
<1> SUFFICES ASSUME TypeInv, [Next]_vars PROVE TypeInv'
  OBVIOUS
<1>1. ASSUME NEW d \in DirectorItems, NewDirectorItem(d) PROVE TypeInv'
  BY <1>1 DEF NewDirectorItem, TypeInv, Aimed, TypeOK, DirectorStatus
<1>2. ASSUME NEW c \in CeoItems, EscalateToCeo(c) \/ SessionFails(c) PROVE TypeInv'
  BY <1>2 DEF EscalateToCeo, SessionFails, TypeInv, Aimed, TypeOK, CeoStatus, CeoType
<1>3. ASSUME NEW q \in Requests, ReadItem(q) PROVE TypeInv'
  <2>0. PICK i \in Items : \E a \in Actions(i) :
          /\ NewRequest(q, [at |-> "commit", item |-> i, action |-> a])
          /\ contested' \subseteq contested \cup {i}
    BY <1>3 DEF ReadItem, NewRequest
  <2>1. PICK a \in Actions(i) :
          /\ NewRequest(q, [at |-> "commit", item |-> i, action |-> a])
          /\ contested' \subseteq contested \cup {i}
    BY <2>0
  <2>2. a \in {"RESOLVE", "DISMISS", "FORWARD_TO_CEO"}
    BY DEF Actions
  <2>3. contested' \subseteq Items
    BY <2>1 DEF TypeInv, TypeOK
  <2>4. UNCHANGED <<ditem, citem, sent, lost>>
    BY <1>3 DEF ReadItem
  <2>5. Aimed' /\ req' \in [Requests -> [at: {"idle", "commit", "enqueue"},
                                        item: Items \cup {Nothing},
                                        action: {"RESOLVE", "DISMISS", "FORWARD_TO_CEO"}]]
    BY <2>1, <2>2, RequestType
  <2> QED
    BY <2>3, <2>4, <2>5 DEF TypeInv, TypeOK
<1>4. ASSUME NEW q \in Requests, ResolveDirectorItem(q) PROVE TypeInv'
  <2>0. "RESOLVED" \in DirectorStatus
    BY DEF DirectorStatus
  <2>1. ditem' \in [DirectorItems -> [status: DirectorStatus,
                                      project: Projects \cup {Nothing}]]
    BY <1>4, <2>0 DEF ResolveDirectorItem, TypeInv, TypeOK
  <2> QED
    BY <1>4, <2>1, EndType DEF ResolveDirectorItem, TypeInv, TypeOK
<1>5. ASSUME NEW q \in Requests, ForwardToCeo(q) PROVE TypeInv'
  <2>1. req[q].item \in DirectorItems
    BY <1>5 DEF ForwardToCeo
  <2>2. PICK c \in CeoItems :
          citem' = [citem EXCEPT ![c] = [status |-> "PENDING",
                                         type |-> "ESCALATION",
                                         project |-> ditem[req[q].item].project,
                                         from |-> req[q].item]]
    BY <1>5 DEF ForwardToCeo
  <2>3. ditem[req[q].item].project \in Projects \cup {Nothing}
    BY <2>1 DEF TypeInv, TypeOK
  <2>4. citem' \in [CeoItems -> [status: CeoStatus, type: CeoType,
                                 project: Projects \cup {Nothing},
                                 from: DirectorItems \cup {Nothing}]]
    BY <2>1, <2>2, <2>3 DEF TypeInv, TypeOK, CeoStatus, CeoType
  <2>5. ditem' \in [DirectorItems -> [status: DirectorStatus,
                                      project: Projects \cup {Nothing}]]
    BY <1>5 DEF ForwardToCeo, TypeInv, TypeOK, DirectorStatus
  <2> QED
    BY <1>5, <2>4, <2>5, EndType DEF ForwardToCeo, TypeInv, TypeOK
<1>6. ASSUME NEW q \in Requests, DecideCeoItem(q) PROVE TypeInv'
  <2>1. PICK st \in CeoStatus : citem' = [citem EXCEPT ![req[q].item].status = st]
    BY <1>6 DEF DecideCeoItem, CeoStatus
  <2>2. citem' \in [CeoItems -> [status: CeoStatus, type: CeoType,
                                 project: Projects \cup {Nothing},
                                 from: DirectorItems \cup {Nothing}]]
    <3> DEFINE CeoRows == [status: CeoStatus, type: CeoType,
                           project: Projects \cup {Nothing},
                           from: DirectorItems \cup {Nothing}]
    <3>1. citem \in [CeoItems -> CeoRows]
      BY DEF TypeInv, TypeOK
    <3>2. \A i \in CeoRows : [i EXCEPT !.status = st] \in CeoRows
      BY <2>1
    <3> HIDE DEF CeoRows
    <3>3. citem' \in [CeoItems -> CeoRows]
      BY <2>1, <3>1, <3>2
    <3> QED
      BY <3>3 DEF CeoRows
  <2>3. \/ req' = [req EXCEPT ![q] = NoRequest]
        \/ NewRequest(q, [at |-> "enqueue", item |-> req[q].item,
                          action |-> req[q].action])
    <3>1. [req[q] EXCEPT !.at = "enqueue"] =
            [at |-> "enqueue", item |-> req[q].item, action |-> req[q].action]
      BY DEF TypeInv, TypeOK
    <3>2. CASE req' = [req EXCEPT ![q].at = "enqueue"]
      BY <3>1, <3>2 DEF NewRequest
    <3> QED
      BY <1>6, <3>2 DEF DecideCeoItem
  <2>4. /\ req[q].item \in CeoItems
        /\ req[q].action \in {"RESOLVE", "DISMISS", "FORWARD_TO_CEO"}
    BY <1>6 DEF DecideCeoItem, TypeInv, TypeOK
  <2>5. Aimed' /\ req' \in [Requests -> [at: {"idle", "commit", "enqueue"},
                                        item: Items \cup {Nothing},
                                        action: {"RESOLVE", "DISMISS", "FORWARD_TO_CEO"}]]
    <3>1. CASE req' = [req EXCEPT ![q] = NoRequest]
      BY <3>1, EndType
    <3>2. CASE NewRequest(q, [at |-> "enqueue", item |-> req[q].item,
                              action |-> req[q].action])
      BY <3>2, <2>4, RequestType
    <3> QED
      BY <2>3, <3>1, <3>2
  <2>6. UNCHANGED <<ditem, sent, contested, lost>>
    BY <1>6 DEF DecideCeoItem
  <2> QED
    BY <2>2, <2>5, <2>6 DEF TypeInv, TypeOK
<1>7. ASSUME NEW q \in Requests, SendResolution(q) PROVE TypeInv'
  <2>1. sent' \in [CeoItems -> Nat]
    BY <1>7 DEF SendResolution, TypeInv, TypeOK, Aimed
  <2> QED
    BY <1>7, <2>1, EndType DEF SendResolution, TypeInv, TypeOK
<1>8. ASSUME NEW q \in Requests, KillRequest(q) PROVE TypeInv'
  <2>1. lost' \subseteq CeoItems
    BY <1>8 DEF KillRequest, TypeInv, TypeOK, Aimed
  <2> QED
    BY <1>8, <2>1, EndType DEF KillRequest, TypeInv, TypeOK
<1>9. CASE UNCHANGED vars
  BY <1>9 DEF vars, TypeInv, Aimed, TypeOK
<1> QED
  BY <1>1, <1>2, <1>3, <1>4, <1>5, <1>6, <1>7, <1>8, <1>9 DEF Next, Request

LEMMA TypeInit == Init => TypeInv
BY DEF Init, TypeInv, Aimed, TypeOK, NoDirectorItem, NoCeoItem, NoRequest,
       DirectorStatus, CeoStatus, CeoType

LEMMA TypeInvHolds == Spec => []TypeInv
  BY TypeInit, TypeStep, PTL DEF Spec

\* TypeOK: items and requests have their types in every reachable state.
THEOREM TypeCorrect == Spec => []TypeOK
  BY TypeInvHolds, PTL DEF TypeInv

-----------------------------------------------------------------------------
(***************************************************************************)
(* As long as no two requests have overlapped on an item, one at most is   *)
(* busy with it, and the item is as that request has left it.              *)
(***************************************************************************)
Sole(i) == \A q, r \in Requests : req[q].item = i /\ req[r].item = i => q = r

\* A busy request has found the item there; a request to send has decided it.
Found(q) == req[q].at # "idle" => StatusOf(req[q].item) # "NONE"

Held(i) == \A q \in Requests : req[q].item = i =>
             /\ req[q].at = "commit" => StatusOf(i) = "PENDING"
             /\ req[q].at = "enqueue" =>
                  citem[i].status = "RESOLVED" /\ Resumes(i) /\ i \notin lost

LostDecided(i) == i \in lost => citem[i].status = "RESOLVED"

ItemInv == /\ \A q \in Requests : Found(q)
           /\ \A i \in Items \ contested : Sole(i) /\ Held(i) /\ LostDecided(i)

\* No row is filled twice, and no decision taken back, without overlap.
LEMMA StatusKept ==
  ASSUME TypeInv, ItemInv, [Next]_vars, NEW i \in Items
  PROVE  /\ StatusOf(i) # "NONE" => StatusOf(i)' # "NONE"
         /\ \/ StatusOf(i)' = StatusOf(i)
            \/ StatusOf(i) = "NONE"
            \/ \E q \in Requests : req[q].item = i /\ req[q].at = "commit"
<1>0. DirectorItems \cap CeoItems = {}
  BY ItemAssumption
<1>1. ASSUME NEW d \in DirectorItems, NewDirectorItem(d)
      PROVE  StatusOf(i)' = StatusOf(i) \/ (StatusOf(i) = "NONE" /\ i = d)
  BY <1>0, <1>1 DEF NewDirectorItem, StatusOf, TypeInv, TypeOK
<1>2. ASSUME NEW c \in CeoItems, EscalateToCeo(c) \/ SessionFails(c)
      PROVE  StatusOf(i)' = StatusOf(i) \/ (StatusOf(i) = "NONE" /\ i = c)
  BY <1>0, <1>2 DEF EscalateToCeo, SessionFails, StatusOf, TypeInv, TypeOK, Items
<1>3. ASSUME NEW q \in Requests, Request(q),
             StatusOf(i)' # StatusOf(i), StatusOf(i) # "NONE"
      PROVE  req[q].item = i /\ req[q].at = "commit" /\ StatusOf(i)' # "NONE"
  <2>1. CASE ResolveDirectorItem(q)
    BY <1>0, <1>3, <2>1 DEF ResolveDirectorItem, StatusOf, TypeInv, TypeOK, Items
  <2>2. CASE ForwardToCeo(q)
    <3>1. PICK c \in CeoItems :
            /\ citem[c].status = "NONE"
            /\ citem' = [citem EXCEPT ![c] = [status |-> "PENDING",
                                              type |-> "ESCALATION",
                                              project |-> ditem[req[q].item].project,
                                              from |-> req[q].item]]
      BY <2>2 DEF ForwardToCeo
    <3> QED
      BY <1>0, <1>3, <2>2, <3>1 DEF ForwardToCeo, StatusOf, TypeInv, TypeOK, Items
  <2>3. CASE DecideCeoItem(q)
    <3>1. PICK st \in {"RESOLVED", "DISMISSED"} :
            citem' = [citem EXCEPT ![req[q].item].status = st]
      BY <2>3 DEF DecideCeoItem
    <3> QED
      BY <1>0, <1>3, <2>3, <3>1 DEF DecideCeoItem, StatusOf, TypeInv, TypeOK, Items
  <2>4. CASE ReadItem(q) \/ SendResolution(q) \/ KillRequest(q)
    BY <1>3, <2>4 DEF ReadItem, SendResolution, KillRequest, StatusOf
  <2> QED
    BY <1>3, <2>1, <2>2, <2>3, <2>4 DEF Request
<1>4. CASE UNCHANGED vars
  BY <1>4 DEF vars, StatusOf
<1>5. ASSUME NEW d \in DirectorItems, NewDirectorItem(d), StatusOf(i) # "NONE"
      PROVE  StatusOf(i)' # "NONE"
  BY <1>1, <1>5
<1> QED
  BY <1>1, <1>2, <1>3, <1>4 DEF Next

-----------------------------------------------------------------------------
\* What a decision on an item of the CEO leaves alone, and what it ends.
LEMMA DecideFacts ==
  ASSUME TypeInv, NEW q \in Requests, DecideCeoItem(q)
  PROVE  /\ \A c \in CeoItems :
              /\ citem'[c].type = citem[c].type
              /\ citem'[c].project = citem[c].project
              /\ citem'[c].from = citem[c].from
              /\ c # req[q].item => citem'[c] = citem[c]
         /\ citem'[req[q].item].status \in {"RESOLVED", "DISMISSED"}
         /\ \A r \in Requests : r # q => req'[r] = req[r]
         /\ \/ req'[q] = NoRequest /\ ~( /\ citem'[req[q].item].status = "RESOLVED"
                                         /\ Resumes(req[q].item))
            \/ /\ req'[q].at = "enqueue" /\ req'[q].item = req[q].item
               /\ citem'[req[q].item].status = "RESOLVED" /\ Resumes(req[q].item)
<1>1. CASE /\ req[q].action = "RESOLVE" /\ Resumes(req[q].item)
           /\ citem' = [citem EXCEPT ![req[q].item].status = "RESOLVED"]
           /\ req' = [req EXCEPT ![q].at = "enqueue"]
  BY <1>1 DEF DecideCeoItem, TypeInv, TypeOK
<1>2. CASE /\ req[q].action = "RESOLVE" /\ ~Resumes(req[q].item)
           /\ citem' = [citem EXCEPT ![req[q].item].status = "RESOLVED"]
           /\ req' = [req EXCEPT ![q] = NoRequest]
  BY <1>2 DEF DecideCeoItem, TypeInv, TypeOK
<1>3. CASE /\ req[q].action = "DISMISS"
           /\ citem' = [citem EXCEPT ![req[q].item].status = "DISMISSED"]
           /\ req' = [req EXCEPT ![q] = NoRequest]
  BY <1>3 DEF DecideCeoItem, TypeInv, TypeOK
<1> QED
  BY <1>1, <1>2, <1>3 DEF DecideCeoItem

\* What a forward does to the two tables.
LEMMA ForwardFacts ==
  ASSUME TypeInv, NEW q \in Requests, ForwardToCeo(q)
  PROVE  /\ \E c \in CeoItems :
              /\ citem[c].status = "NONE"
              /\ citem'[c] = [status |-> "PENDING", type |-> "ESCALATION",
                              project |-> ditem[req[q].item].project,
                              from |-> req[q].item]
              /\ \A b \in CeoItems : b # c => citem'[b] = citem[b]
         /\ \A d \in DirectorItems :
              /\ ditem'[d].project = ditem[d].project
              /\ d # req[q].item => ditem'[d] = ditem[d]
         /\ ditem'[req[q].item].status = "FORWARDED_TO_CEO"
         /\ \A r \in Requests : r # q => req'[r] = req[r]
         /\ req'[q] = NoRequest
<1>1. ditem' = [ditem EXCEPT ![req[q].item].status = "FORWARDED_TO_CEO"]
  BY DEF ForwardToCeo
<1>2. req[q].item \in DirectorItems /\ req' = [req EXCEPT ![q] = NoRequest]
  BY DEF ForwardToCeo
<1>3. PICK c \in CeoItems :
        /\ citem[c].status = "NONE"
        /\ citem' = [citem EXCEPT ![c] = [status |-> "PENDING", type |-> "ESCALATION",
                                          project |-> ditem[req[q].item].project,
                                          from |-> req[q].item]]
  BY DEF ForwardToCeo
<1> QED
  BY <1>1, <1>2, <1>3 DEF TypeInv, TypeOK


\* Other rows and requests are no concern of an action on one item.
LEMMA ItemStep == TypeInv /\ TypeInv' /\ ItemInv /\ [Next]_vars => ItemInv'
<1> SUFFICES ASSUME TypeInv, TypeInv', ItemInv, [Next]_vars PROVE ItemInv'
  OBVIOUS
<1>0. /\ DirectorItems \cap CeoItems = {} /\ Nothing \notin Items
      /\ \A q \in Requests : req[q].at # "idle" => req[q].item \in Items
      /\ \A q \in Requests : req[q].at = "idle" => req[q].item = Nothing
  BY ItemAssumption DEF Items, TypeInv, TypeOK, Aimed
<1>1. ASSUME NEW d \in DirectorItems, NewDirectorItem(d) PROVE ItemInv'
  <2>1. \A q \in Requests : req[q].item # d
    BY <1>0, <1>1 DEF NewDirectorItem, ItemInv, Found, StatusOf, Items
  <2>2. \A i \in Items : i # d => StatusOf(i)' = StatusOf(i)
    BY <1>1 DEF NewDirectorItem, StatusOf, TypeInv, TypeOK
  <2>3. UNCHANGED <<citem, req, lost, contested>>
    BY <1>1 DEF NewDirectorItem
  <2> QED
    BY <1>0, <2>1, <2>2, <2>3 DEF ItemInv, Found, Sole, Held, LostDecided, Resumes
<1>2. ASSUME NEW c \in CeoItems, EscalateToCeo(c) \/ SessionFails(c) PROVE ItemInv'
  <2>1. \A q \in Requests : req[q].item # c
    BY <1>0, <1>2 DEF EscalateToCeo, SessionFails, ItemInv, Found, StatusOf, Items
  <2>2. \A i \in CeoItems : i # c => citem'[i] = citem[i]
    BY <1>2 DEF EscalateToCeo, SessionFails, TypeInv, TypeOK
  <2>3. UNCHANGED <<ditem, req, lost, contested>>
    BY <1>2 DEF EscalateToCeo, SessionFails
  <2>4. \A i \in Items : i # c => StatusOf(i)' = StatusOf(i)
    BY <2>2, <2>3 DEF StatusOf, Items
  <2>5. citem[c].status = "NONE"
    BY <1>2 DEF EscalateToCeo, SessionFails
  <2> QED
    BY <1>0, <2>1, <2>2, <2>3, <2>4, <2>5
    DEF ItemInv, Found, Sole, Held, LostDecided, Resumes, TypeInv, TypeOK, Aimed
<1>3. ASSUME NEW q \in Requests, ReadItem(q) PROVE ItemInv'
  <2>1. PICK i \in Items :
          /\ StatusOf(i) = "PENDING"
          /\ \A r \in Requests : r # q => req'[r] = req[r]
          /\ req'[q].at = "commit" /\ req'[q].item = i
          /\ contested' = contested \cup
               {j \in {i} : \E r \in Requests : req[r].at = "commit" /\ req[r].item = j}
    BY <1>3 DEF ReadItem, TypeInv, TypeOK
  <2>2. UNCHANGED <<ditem, citem, lost>> /\ req[q].at = "idle"
    BY <1>3 DEF ReadItem
  <2>3. \A j \in Items : StatusOf(j)' = StatusOf(j)
    BY <2>2 DEF StatusOf
  <2>4. i \notin contested' => \A r \in Requests : req[r].item # i
    BY <1>0, <2>1 DEF ItemInv, Held, StatusOf, TypeInv, TypeOK, Aimed
  <2>5. \A r \in Requests : Found(r)'
    BY <1>0, <2>1, <2>2, <2>3 DEF ItemInv, Found
  <2>6. \A j \in Items \ contested' : Sole(j)'
    BY <1>0, <2>1, <2>4 DEF ItemInv, Sole
  <2>7. \A j \in Items \ contested' : Held(j)' /\ LostDecided(j)'
    BY <1>0, <2>1, <2>2, <2>3, <2>4 DEF ItemInv, Held, LostDecided, Resumes
  <2> QED
    BY <2>5, <2>6, <2>7 DEF ItemInv
<1>4. ASSUME NEW q \in Requests, ResolveDirectorItem(q) PROVE ItemInv'
  <2>1. /\ \A d \in DirectorItems : d # req[q].item => ditem'[d] = ditem[d]
        /\ ditem'[req[q].item].status = "RESOLVED"
        /\ req[q].item \in DirectorItems
        /\ \A r \in Requests : r # q => req'[r] = req[r]
        /\ req'[q] = NoRequest
        /\ UNCHANGED <<citem, lost, contested>>
    BY <1>4 DEF ResolveDirectorItem, TypeInv, TypeOK
  <2> QED
    BY <1>0, <2>1 DEF ItemInv, Found, Sole, Held, LostDecided, Resumes, StatusOf, NoRequest, Items
<1>5. ASSUME NEW q \in Requests, ForwardToCeo(q) PROVE ItemInv'
  <2>0. PICK c \in CeoItems :
          /\ citem[c].status = "NONE"
          /\ citem'[c] = [status |-> "PENDING", type |-> "ESCALATION",
                          project |-> ditem[req[q].item].project,
                          from |-> req[q].item]
          /\ \A b \in CeoItems : b # c => citem'[b] = citem[b]
    BY <1>5, ForwardFacts
  <2>1. /\ citem[c].status = "NONE" /\ citem'[c].status = "PENDING"
        /\ \A b \in CeoItems : b # c => citem'[b] = citem[b]
    BY <2>0
  <2>2. /\ \A d \in DirectorItems : d # req[q].item => ditem'[d] = ditem[d]
        /\ ditem'[req[q].item].status = "FORWARDED_TO_CEO"
        /\ \A r \in Requests : r # q => req'[r] = req[r]
        /\ req'[q] = NoRequest
    BY <1>5, ForwardFacts
  <2>3. req[q].item \in DirectorItems /\ UNCHANGED <<lost, contested>>
    BY <1>5 DEF ForwardToCeo
  <2>4. \A r \in Requests : req[r].item # c
    BY <1>0, <2>1 DEF ItemInv, Found, StatusOf, Items
  <2>5. \A i \in Items : i # c /\ i # req[q].item => StatusOf(i)' = StatusOf(i)
    BY <1>0, <2>1, <2>2 DEF StatusOf, Items
  <2>6. \A i \in Items : i = req[q].item => StatusOf(i)' # "NONE"
    BY <2>2, <2>3 DEF StatusOf
  <2>7. \A r \in Requests : Found(r)'
    BY <1>0, <2>2, <2>4, <2>5, <2>6 DEF ItemInv, Found, NoRequest
  <2>8. \A i \in Items \ contested' : Sole(i)'
    BY <1>0, <2>2, <2>3 DEF ItemInv, Sole, NoRequest
  <2>9. \A b \in CeoItems : b # c => Resumes(b)' = Resumes(b)
    BY <2>1 DEF Resumes
  <2>10. \A i \in Items \ contested' : Held(i)'
    BY <1>0, <2>1, <2>2, <2>3, <2>4, <2>5, <2>9
    DEF ItemInv, Sole, Held, NoRequest, Items, TypeInv, Aimed
  <2>11. \A i \in Items \ contested' : LostDecided(i)'
    BY <1>0, <2>1, <2>3 DEF ItemInv, LostDecided, TypeInv, TypeOK
  <2> QED
    BY <2>7, <2>8, <2>10, <2>11 DEF ItemInv
<1>6. ASSUME NEW q \in Requests, DecideCeoItem(q) PROVE ItemInv'
  <2>1. /\ req[q].item \in CeoItems /\ req[q].at = "commit"
        /\ UNCHANGED <<ditem, lost, contested>>
    BY <1>6 DEF DecideCeoItem
  <2>2. \A c \in CeoItems : Resumes(c)' = Resumes(c)
    BY <1>6, DecideFacts DEF Resumes
  <2>3. \A r \in Requests : req'[r].item = req[r].item \/ req'[r] = NoRequest
    BY <1>6, DecideFacts
  <2>4. \A r \in Requests : Found(r)'
    BY <1>0, <1>6, <2>1, DecideFacts DEF ItemInv, Found, StatusOf, NoRequest, Items
  <2>5. \A i \in Items \ contested' : Sole(i)'
    BY <1>0, <2>1, <2>3 DEF ItemInv, Sole, NoRequest
  <2>6. ASSUME NEW i \in Items \ contested' PROVE Held(i)' /\ LostDecided(i)'
    <3>0. i \in Items \ contested /\ Sole(i) /\ Held(i) /\ LostDecided(i)
      BY <2>1, <2>6 DEF ItemInv
    <3>1. CASE i = req[q].item
      <4>1. i \in CeoItems /\ i \notin lost
        BY <1>0, <2>1, <3>0, <3>1 DEF Held, LostDecided, StatusOf
      <4>2. \A r \in Requests : req'[r].item = i => r = q /\ req'[q].at = "enqueue"
        BY <1>0, <1>6, <2>3, <3>0, <3>1, DecideFacts DEF Sole, NoRequest
      <4> QED
        BY <1>0, <1>6, <2>1, <2>2, <3>1, <4>1, <4>2, DecideFacts
        DEF Held, LostDecided, NoRequest
    <3>2. CASE i # req[q].item
      <4>1. StatusOf(i)' = StatusOf(i) /\ (i \in CeoItems => citem'[i] = citem[i])
        BY <1>6, <2>1, <3>2, DecideFacts DEF StatusOf, Items
      <4>2. \A r \in Requests : req'[r].item = i => req'[r] = req[r]
        BY <1>0, <1>6, <3>2, DecideFacts DEF NoRequest
      <4> QED
        BY <2>1, <2>2, <3>0, <4>1, <4>2 DEF Held, LostDecided, TypeInv, TypeOK, Aimed
    <3> QED
      BY <3>1, <3>2
  <2> QED
    BY <2>4, <2>5, <2>6 DEF ItemInv
<1>7. ASSUME NEW q \in Requests, SendResolution(q) \/ KillRequest(q) PROVE ItemInv'
  <2>1. /\ \A r \in Requests : r # q => req'[r] = req[r]
        /\ req'[q] = NoRequest
        /\ req[q].at # "idle"
        /\ UNCHANGED <<ditem, citem, contested>>
        /\ lost' = lost \/ (req[q].at = "enqueue" /\ lost' = lost \cup {req[q].item})
    BY <1>7 DEF SendResolution, KillRequest, TypeInv, TypeOK
  <2> QED
    BY <1>0, <2>1 DEF ItemInv, Found, Sole, Held, LostDecided, Resumes, StatusOf, NoRequest, Items
<1>8. CASE UNCHANGED vars
  BY <1>8 DEF vars, ItemInv, Found, Sole, Held, LostDecided, Resumes, StatusOf
<1> QED
  BY <1>1, <1>2, <1>3, <1>4, <1>5, <1>6, <1>7, <1>8 DEF Next, Request


LEMMA ItemInit == Init => ItemInv
BY ItemAssumption
DEF Init, ItemInv, Found, Sole, Held, LostDecided, NoRequest, Items

LEMMA ItemInvHolds == Spec => []ItemInv
<1>1. Init => ItemInv
  BY ItemInit
<1>2. TypeInv /\ TypeInv' /\ ItemInv /\ [Next]_vars => ItemInv'
  BY ItemStep
<1> QED
  BY <1>1, <1>2, TypeInvHolds, PTL DEF Spec

\* DecisionStands: PATCH answers a second decision with a conflict.
THEOREM DecisionStandsHolds == Spec => DecisionStands
<1>1. ASSUME TypeInv, ItemInv, [Next]_vars, NEW i \in Items \ contested,
             StatusOf(i) \notin {"NONE", "PENDING"}
      PROVE  StatusOf(i)' = StatusOf(i)
  <2>1. \A q \in Requests : ~(req[q].item = i /\ req[q].at = "commit")
    BY <1>1 DEF ItemInv, Held
  <2> QED
    BY <1>1, <2>1, StatusKept
<1>2. TypeInv /\ ItemInv /\ [Next]_vars =>
        [\A i \in Items \ contested :
           StatusOf(i) \notin {"NONE", "PENDING"} => StatusOf(i)' = StatusOf(i)]_vars
  BY <1>1
<1> QED
  BY <1>2, TypeInvHolds, ItemInvHolds, PTL DEF Spec, DecisionStands

-----------------------------------------------------------------------------
(***************************************************************************)
(* The job of a resolution.                                                *)
(***************************************************************************)
Owed(c) == /\ citem[c].status = "RESOLVED" /\ Resumes(c)
           /\ ~Sending(c) /\ c \notin lost

SentInv == \A c \in CeoItems \ contested : sent[c] = IF Owed(c) THEN 1 ELSE 0

\* Whatever leaves the row and its requests as they are leaves Owed.
LEMMA OwedKept ==
  ASSUME NEW c \in CeoItems, citem'[c] = citem[c],
         c \in lost' <=> c \in lost, Sending(c)' <=> Sending(c)
  PROVE  Owed(c)' <=> Owed(c)
BY DEF Owed, Resumes

LEMMA SentStep == TypeInv /\ ItemInv /\ SentInv /\ [Next]_vars => SentInv'
<1> SUFFICES ASSUME TypeInv, ItemInv, SentInv, [Next]_vars,
                    NEW c \in CeoItems \ contested'
             PROVE  sent'[c] = IF Owed(c)' THEN 1 ELSE 0
  BY DEF SentInv
<1>0. /\ DirectorItems \cap CeoItems = {} /\ Nothing \notin Items
      /\ \A q \in Requests : req[q].at = "idle" => req[q].item = Nothing
      /\ c \in Items /\ c # Nothing
  BY ItemAssumption DEF Items, TypeInv, Aimed
<1>1. ASSUME NEW d \in DirectorItems, NewDirectorItem(d)
      PROVE  sent'[c] = IF Owed(c)' THEN 1 ELSE 0
  BY <1>1 DEF NewDirectorItem, SentInv, Owed, Resumes, Sending
<1>2. ASSUME NEW b \in CeoItems, EscalateToCeo(b) \/ SessionFails(b)
      PROVE  sent'[c] = IF Owed(c)' THEN 1 ELSE 0
  <2>1. /\ c # b => citem'[c] = citem[c]
        /\ citem[b].status = "NONE" /\ citem'[b].status = "PENDING"
        /\ UNCHANGED <<req, sent, lost, contested>>
    BY <1>2 DEF EscalateToCeo, SessionFails, TypeInv, TypeOK
  <2> QED
    BY <2>1 DEF SentInv, Owed, Resumes, Sending
<1>3. ASSUME NEW q \in Requests, ReadItem(q)
      PROVE  sent'[c] = IF Owed(c)' THEN 1 ELSE 0
  <2>1. /\ \A r \in Requests : r # q => req'[r] = req[r]
        /\ req[q].at = "idle" /\ req'[q].at = "commit"
        /\ UNCHANGED <<citem, sent, lost>>
        /\ contested \subseteq contested'
    BY <1>3 DEF ReadItem, TypeInv, TypeOK
  <2>2. Sending(c)' <=> Sending(c)
    BY <2>1 DEF Sending
  <2> QED
    BY <2>1, <2>2, OwedKept DEF SentInv
<1>4. ASSUME NEW q \in Requests, ResolveDirectorItem(q)
      PROVE  sent'[c] = IF Owed(c)' THEN 1 ELSE 0
  <2>1. /\ \A r \in Requests : r # q => req'[r] = req[r]
        /\ req[q].at = "commit" /\ req'[q] = NoRequest
        /\ UNCHANGED <<citem, sent, lost, contested>>
    BY <1>4 DEF ResolveDirectorItem, TypeInv, TypeOK
  <2>2. Sending(c)' <=> Sending(c)
    BY <2>1 DEF Sending, NoRequest
  <2> QED
    BY <2>1, <2>2, OwedKept DEF SentInv
<1>5. ASSUME NEW q \in Requests, ForwardToCeo(q)
      PROVE  sent'[c] = IF Owed(c)' THEN 1 ELSE 0
  <2>1. PICK b \in CeoItems :
          /\ citem[b].status = "NONE"
          /\ citem'[b] = [status |-> "PENDING", type |-> "ESCALATION",
                          project |-> ditem[req[q].item].project,
                          from |-> req[q].item]
          /\ \A j \in CeoItems : j # b => citem'[j] = citem[j]
    BY <1>5, ForwardFacts
  <2>2. /\ \A r \in Requests : r # q => req'[r] = req[r]
        /\ req'[q] = NoRequest
    BY <1>5, ForwardFacts
  <2>3. req[q].at = "commit" /\ UNCHANGED <<sent, lost, contested>>
    BY <1>5 DEF ForwardToCeo
  <2>4. Sending(c)' <=> Sending(c)
    BY <2>2, <2>3 DEF Sending, NoRequest
  <2>5. CASE c = b
    BY <2>1, <2>3, <2>5 DEF SentInv, Owed
  <2>6. CASE c # b
    BY <2>1, <2>3, <2>4, <2>6, OwedKept DEF SentInv
  <2> QED
    BY <2>5, <2>6
<1>6. ASSUME NEW q \in Requests, DecideCeoItem(q)
      PROVE  sent'[c] = IF Owed(c)' THEN 1 ELSE 0
  <2>1. /\ req[q].item \in CeoItems /\ req[q].at = "commit"
        /\ UNCHANGED <<sent, lost, contested>>
    BY <1>6 DEF DecideCeoItem
  <2>2. CASE c = req[q].item
    <3>1. citem[c].status = "PENDING" /\ sent[c] = 0
      BY <1>0, <2>1, <2>2 DEF ItemInv, Held, StatusOf, SentInv, Owed
    <3>2. ~Owed(c)'
      <4>1. CASE req'[q].at = "enqueue" /\ req'[q].item = c
        BY <4>1 DEF Owed, Sending
      <4>2. CASE ~(citem'[c].status = "RESOLVED" /\ Resumes(c))
        BY <1>6, <4>2, DecideFacts DEF Owed, Resumes
      <4> QED
        BY <1>6, <2>2, <4>1, <4>2, DecideFacts
    <3> QED
      BY <2>1, <3>1, <3>2
  <2>3. CASE c # req[q].item
    <3>1. Sending(c)' <=> Sending(c)
      BY <1>0, <1>6, <2>1, <2>3, DecideFacts DEF Sending, NoRequest
    <3> QED
      BY <1>6, <2>1, <2>3, <3>1, DecideFacts, OwedKept DEF SentInv
  <2> QED
    BY <2>2, <2>3
<1>7. ASSUME NEW q \in Requests, SendResolution(q)
      PROVE  sent'[c] = IF Owed(c)' THEN 1 ELSE 0
  <2>1. /\ \A r \in Requests : r # q => req'[r] = req[r]
        /\ req'[q] = NoRequest /\ req[q].at = "enqueue"
        /\ UNCHANGED <<citem, lost, contested>>
        /\ c # req[q].item => sent'[c] = sent[c]
        /\ c = req[q].item => sent'[c] = sent[c] + 1
    BY <1>7 DEF SendResolution, TypeInv, TypeOK
  <2>2. CASE c = req[q].item
    <3>1. citem[c].status = "RESOLVED" /\ Resumes(c) /\ c \notin lost /\ Sole(c)
      BY <1>0, <2>1, <2>2 DEF ItemInv, Held
    <3>2. sent[c] = 0
      BY <2>1, <2>2 DEF SentInv, Owed, Sending
    <3>3. ~Sending(c)'
      BY <1>0, <2>1, <2>2, <3>1 DEF Sending, Sole, NoRequest
    <3>4. Owed(c)'
      BY <2>1, <3>1, <3>3 DEF Owed, Resumes
    <3> QED
      BY <2>1, <2>2, <3>2, <3>4
  <2>3. CASE c # req[q].item
    <3>1. Sending(c)' <=> Sending(c)
      BY <2>1, <2>3 DEF Sending, NoRequest
    <3> QED
      BY <2>1, <2>3, <3>1, OwedKept DEF SentInv
  <2> QED
    BY <2>2, <2>3
<1>8. ASSUME NEW q \in Requests, KillRequest(q)
      PROVE  sent'[c] = IF Owed(c)' THEN 1 ELSE 0
  <2>1. /\ \A r \in Requests : r # q => req'[r] = req[r]
        /\ req'[q] = NoRequest
        /\ UNCHANGED <<citem, sent, contested>>
        /\ c \in lost' <=> c \in lost \/ (req[q].at = "enqueue" /\ req[q].item = c)
    BY <1>8 DEF KillRequest, TypeInv, TypeOK
  <2>2. CASE req[q].at = "enqueue" /\ req[q].item = c
    BY <2>1, <2>2 DEF SentInv, Owed, Sending
  <2>3. CASE ~(req[q].at = "enqueue" /\ req[q].item = c)
    <3>1. Sending(c)' <=> Sending(c)
      BY <2>1, <2>3 DEF Sending, NoRequest
    <3> QED
      BY <2>1, <2>3, <3>1, OwedKept DEF SentInv
  <2> QED
    BY <2>2, <2>3
<1>9. CASE UNCHANGED vars
  BY <1>9 DEF vars, SentInv, Owed, Resumes, Sending
<1> QED
  BY <1>1, <1>2, <1>3, <1>4, <1>5, <1>6, <1>7, <1>8, <1>9 DEF Next, Request

\* ResolutionSentOnce: the request whose commit resolved the item is the one
\* that sends its job, and it sends it last.
THEOREM ResolutionSentOnceHolds == Spec => []ResolutionSentOnce
<1>1. Init => SentInv
  BY DEF Init, SentInv, Owed, NoCeoItem
<1>2. ItemInv /\ SentInv => ResolutionSentOnce
  <2>1. ASSUME ItemInv, NEW c \in CeoItems \ contested, Sending(c)
        PROVE  citem[c].status = "RESOLVED"
    BY <2>1 DEF Sending, ItemInv, Held, Items
  <2> QED
    BY <2>1 DEF SentInv, Owed, ResolutionSentOnce
<1> QED
  BY <1>1, <1>2, SentStep, TypeInvHolds, ItemInvHolds, PTL DEF Spec

-----------------------------------------------------------------------------
(***************************************************************************)
(* The heir of a forwarded item.                                           *)
(***************************************************************************)
\* A row that is still to be filled is nobody's heir.
Unborn == \A c \in CeoItems : citem[c].status = "NONE" => citem[c].from = Nothing

HeirOf(d) == /\ (\E c \in CeoItems : citem[c].from = d)
                  <=> ditem[d].status = "FORWARDED_TO_CEO"
             /\ \A b, c \in CeoItems : citem[b].from = d /\ citem[c].from = d => b = c
             /\ \A c \in CeoItems : citem[c].from = d =>
                                      citem[c].project = ditem[d].project

HeirInv == Unborn /\ \A d \in DirectorItems \ contested : HeirOf(d)

\* An action that keeps from, project and the Director's row keeps the heir.
LEMMA HeirKept ==
  ASSUME TypeInv, HeirInv, contested \subseteq contested',
         NEW d \in DirectorItems \ contested',
         ditem'[d].status = "FORWARDED_TO_CEO" <=> ditem[d].status = "FORWARDED_TO_CEO",
         HeirOf(d) => \/ ditem'[d].project = ditem[d].project
                      \/ ditem[d].status # "FORWARDED_TO_CEO",
         \A c \in CeoItems : /\ citem'[c].from = d <=> citem[c].from = d
                             /\ citem[c].from = d => citem'[c].project = citem[c].project
  PROVE  HeirOf(d)'
<1>1. HeirOf(d)
  BY DEF HeirInv
<1> QED
  BY <1>1 DEF HeirOf

LEMMA HeirStep == TypeInv /\ ItemInv /\ HeirInv /\ [Next]_vars => HeirInv'
<1> SUFFICES ASSUME TypeInv, ItemInv, HeirInv, [Next]_vars PROVE HeirInv'
  OBVIOUS
<1>0. /\ DirectorItems \cap CeoItems = {} /\ Nothing \notin Items
      /\ Nothing \notin DirectorItems /\ DirectorItems \subseteq Items
  BY ItemAssumption DEF Items
<1>1. ASSUME NEW d \in DirectorItems, NewDirectorItem(d) PROVE HeirInv'
  <2>1. /\ UNCHANGED <<citem, contested>>
        /\ ditem[d].status = "NONE" /\ ditem'[d].status # "FORWARDED_TO_CEO"
        /\ \A e \in DirectorItems : e # d => ditem'[e] = ditem[e]
    BY <1>1 DEF NewDirectorItem, TypeInv, TypeOK
  <2>2. \A e \in DirectorItems \ contested' : HeirOf(e)'
    BY <2>1, HeirKept
  <2> QED
    BY <2>1, <2>2 DEF HeirInv, Unborn
<1>2. ASSUME NEW c \in CeoItems, EscalateToCeo(c) \/ SessionFails(c) PROVE HeirInv'
  <2>1. /\ UNCHANGED <<ditem, contested>>
        /\ citem[c].status = "NONE" /\ citem'[c].from = Nothing
        /\ \A b \in CeoItems : b # c => citem'[b] = citem[b]
    BY <1>2 DEF EscalateToCeo, SessionFails, TypeInv, TypeOK
  <2>2. citem[c].from = Nothing
    BY <2>1 DEF HeirInv, Unborn
  <2>3. \A d \in DirectorItems \ contested' : HeirOf(d)'
    BY <1>0, <2>1, <2>2, HeirKept
  <2> QED
    BY <2>1, <2>3 DEF HeirInv, Unborn
<1>3. ASSUME NEW q \in Requests, ResolveDirectorItem(q) PROVE HeirInv'
  <2>1. /\ UNCHANGED <<citem, contested>>
        /\ req[q].item \in DirectorItems /\ req[q].at = "commit"
        /\ \A d \in DirectorItems : /\ d # req[q].item => ditem'[d] = ditem[d]
                                    /\ ditem'[d].project = ditem[d].project
        /\ ditem'[req[q].item].status = "RESOLVED"
    BY <1>3 DEF ResolveDirectorItem, TypeInv, TypeOK
  <2>2. req[q].item \notin contested => ditem[req[q].item].status = "PENDING"
    BY <1>0, <2>1 DEF ItemInv, Held, StatusOf
  <2>3. \A d \in DirectorItems \ contested' : HeirOf(d)'
    BY <2>1, <2>2, HeirKept
  <2> QED
    BY <2>1, <2>3 DEF HeirInv, Unborn
<1>4. ASSUME NEW q \in Requests, ForwardToCeo(q) PROVE HeirInv'
  <2>1. PICK c \in CeoItems :
          /\ citem[c].status = "NONE"
          /\ citem'[c] = [status |-> "PENDING", type |-> "ESCALATION",
                          project |-> ditem[req[q].item].project,
                          from |-> req[q].item]
          /\ \A b \in CeoItems : b # c => citem'[b] = citem[b]
    BY <1>4, ForwardFacts
  <2>2. /\ \A d \in DirectorItems : /\ ditem'[d].project = ditem[d].project
                                    /\ d # req[q].item => ditem'[d] = ditem[d]
        /\ ditem'[req[q].item].status = "FORWARDED_TO_CEO"
    BY <1>4, ForwardFacts
  <2>3. /\ req[q].item \in DirectorItems /\ req[q].at = "commit"
        /\ UNCHANGED contested
    BY <1>4 DEF ForwardToCeo
  <2>4. citem[c].from = Nothing
    BY <2>1 DEF HeirInv, Unborn
  <2>5. ASSUME NEW d \in DirectorItems \ contested' PROVE HeirOf(d)'
    <3>1. CASE d = req[q].item
      <4>1. ditem[d].status = "PENDING"
        BY <1>0, <2>3, <3>1 DEF ItemInv, Held, StatusOf
      <4>2. \A b \in CeoItems : citem[b].from # d
        BY <2>3, <4>1 DEF HeirInv, HeirOf
      <4> QED
        BY <2>1, <2>2, <3>1, <4>2 DEF HeirOf
    <3>2. CASE d # req[q].item
      <4>1. \A b \in CeoItems :
              /\ citem'[b].from = d <=> citem[b].from = d
              /\ citem[b].from = d => citem'[b].project = citem[b].project
        BY <1>0, <2>1, <2>4, <3>2
      <4> QED
        BY <2>2, <2>3, <3>2, <4>1, HeirKept
    <3> QED
      BY <3>1, <3>2
  <2>6. Unborn'
    BY <2>1 DEF HeirInv, Unborn
  <2> QED
    BY <2>5, <2>6 DEF HeirInv
<1>5. ASSUME NEW q \in Requests, DecideCeoItem(q) PROVE HeirInv'
  <2>1. UNCHANGED <<ditem, contested>>
    BY <1>5 DEF DecideCeoItem
  <2>2. \A d \in DirectorItems \ contested' : HeirOf(d)'
    BY <1>5, <2>1, DecideFacts, HeirKept
  <2>3. Unborn'
    BY <1>5, DecideFacts DEF HeirInv, Unborn
  <2> QED
    BY <2>2, <2>3 DEF HeirInv
<1>6. ASSUME NEW q \in Requests, ReadItem(q) \/ SendResolution(q) \/ KillRequest(q)
      PROVE  HeirInv'
  <2>1. UNCHANGED <<ditem, citem>> /\ contested \subseteq contested'
    BY <1>6 DEF ReadItem, SendResolution, KillRequest
  <2>2. \A d \in DirectorItems \ contested' : HeirOf(d)'
    BY <2>1, HeirKept
  <2> QED
    BY <2>1, <2>2 DEF HeirInv, Unborn
<1>7. CASE UNCHANGED vars
  BY <1>7 DEF vars, HeirInv, Unborn, HeirOf
<1> QED
  BY <1>1, <1>2, <1>3, <1>4, <1>5, <1>6, <1>7 DEF Next, Request

\* ForwardedHasHeir: the two rows of a forward change in one transaction.
THEOREM ForwardedHasHeirHolds == Spec => []ForwardedHasHeir
<1>1. Init => HeirInv
  BY ItemAssumption DEF Init, HeirInv, Unborn, HeirOf, NoCeoItem, NoDirectorItem
<1>2. HeirInv => ForwardedHasHeir
  BY DEF HeirInv, HeirOf, ForwardedHasHeir, Heirs
<1> QED
  BY <1>1, <1>2, HeirStep, TypeInvHolds, ItemInvHolds, PTL DEF Spec
=============================================================================
