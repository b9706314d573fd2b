---------------------------- MODULE SkillCatalog ----------------------------
(***************************************************************************)
(* SkillLibrary: the index of skills that the gateway and the worker each  *)
(* hold in memory, and the copy of it in Redis.                            *)
(*                                                                         *)
(* A process that starts takes the copy, and scans the files only when     *)
(* there is none; what it scanned becomes the copy, which never expires.   *)
(* POST /skills/cache/invalidate deletes the copy, scans and saves, in the *)
(* gateway only.  Building an agent matches the index against a context,   *)
(* follows the cascades and reads the bodies from the files.               *)
(***************************************************************************)
EXTENDS Naturals, Sequences, FiniteSets, TLC, SequencesExt

CONSTANTS Count,            \* number of places for a SKILL.md, in scan order
          ScopeAt,          \* scope of each: 1 global, 2 workflow, 3 project
          Names,            \* names of skills, and of what a cascade refers to
          Skills,           \* what a file can hold
          Disks,            \* what the files hold at first
          Contexts,         \* what is matched: a trigger the context meets
          Requests,         \* invalidations in flight
          MaxEdits,         \* bound: changes of a file
          Absent            \* no file

Files == 1..Count

\* A skill whose frontmatter does not parse has parses FALSE.  A trigger stands
\* for a type and a value of it: the context that meets it, or "always".
CatalogAssumption ==
  /\ Count \in Nat /\ MaxEdits \in Nat
  /\ ScopeAt \in [Files -> 1..3]
  /\ \A f, g \in Files : f < g => ScopeAt[f] <= ScopeAt[g]
  /\ \A s \in Skills : /\ s.name \in Names /\ s.parses \in BOOLEAN /\ s.priority \in Nat
                         /\ s.triggers \subseteq Contexts \cup {"always"}
                         /\ s.described \subseteq Contexts
                         /\ s.cascades \in Seq(Names)
  /\ Disks \subseteq [Files -> Skills \cup {Absent}]

VARIABLES disk,       \* the files
          edits,      \* number of changes of the files so far
          copy,       \* the copy in Redis: none, or an index and its scan's edits
          process,    \* each process: down, saving what it scanned, or up
          index,      \* the index each process holds, and its scan's edits
          request,    \* each invalidation: idle, deleted or saving
          pending,    \* what each will save
          loaded,     \* the last agent's skills: context, names and bodies
          asked,      \* history: changes before each invalidation began
          settled,    \* history: the same of the last one that was saved
          raced       \* history: a save was in flight while another scanned

vars == <<disk, edits, copy, process, index, request, pending, loaded, asked, settled, raced>>

Processes == {"gateway", "worker"}
NoCopy == [at |-> 0, of |-> {}]
Nowhere == 0

-----------------------------------------------------------------------------
(***************************************************************************)
(* Scan, match and cascade.                                                *)
(***************************************************************************)
\* parse_skill_frontmatter gives an entry, or None with a warning.
Parses(d, f) == d[f] # Absent /\ d[f].parses

\* Mutant: a duplicate in the same scope wins.
ScanLast(d) ==
  LET Upto[f \in 0..Count] ==
        IF f = 0 THEN [n \in Names |-> Nowhere]
        ELSE LET ix == Upto[f - 1]
             IN  IF Parses(d, f) THEN [ix EXCEPT ![d[f].name] = f] ELSE ix
  IN  Upto[Count]

\* The files in scan order: a name's first file in a scope stays, a later scope
\* takes the name over.
Scan(d) ==
  LET Keeps(ix, f) == ix[d[f].name] # Nowhere /\ ScopeAt[ix[d[f].name]] = ScopeAt[f]
      Upto[f \in 0..Count] ==
        IF f = 0 THEN [n \in Names |-> Nowhere]
        ELSE LET ix == Upto[f - 1]
             IN  IF Parses(d, f) /\ ~Keeps(ix, f) THEN [ix EXCEPT ![d[f].name] = f] ELSE ix
  IN  Upto[Count]

\* An index: the entries as they were when it was scanned, by name.
IndexOf(d) == LET at == Scan(d)
              IN  {[file |-> at[n], entry |-> d[at[n]]] : n \in {m \in Names : at[m] # Nowhere}}

\* match_triggers, and match_description_keywords for a skill without triggers.
Matches(entry, c) == IF entry.triggers # {} THEN {c, "always"} \cap entry.triggers # {}
                     ELSE c \in entry.described

\* SkillLibrary.match, by priority; among equals by name, which is left open.
Matched(ix, c) ==
  LET hits == {i \in ix : Matches(i.entry, c)}
  IN  CHOOSE s \in SetToSeqs({i.entry : i \in hits}) :
        \A j, k \in DOMAIN s : j < k => s[j].priority >= s[k].priority

\* What waits in a worklist and has not been visited.
Unvisited(w) == {i \in DOMAIN w.todo : w.todo[i] \notin w.visited}

\* The next round of resolve_cascades: the first name that has not been visited;
\* one that is not in the index is skipped.
Visit(ix, w) ==
  LET next == CHOOSE i \in Unvisited(w) : \A j \in Unvisited(w) : i <= j
      name == w.todo[next]
      seen == w.visited \cup {name}
      rest == SubSeq(w.todo, next + 1, Len(w.todo))
      found == {i.entry : i \in {j \in ix : j.entry.name = name}}
      e == CHOOSE e \in found : TRUE
  IN  IF found = {} THEN [result |-> w.result, visited |-> seen, todo |-> rest]
      ELSE [result |-> Append(w.result, e), visited |-> seen, todo |-> rest \o e.cascades]

\* What the skills of an index refer to: each round visits one of these names.
Referenced(ix) == UNION {ToSet(i.entry.cascades) : i \in ix}

\* resolve_cascades: a worklist of names, each visited once.
Cascade(ix, entries) ==
  LET start == [result |-> entries, visited |-> {entries[i].name : i \in DOMAIN entries},
                todo |-> FlattenSeq([i \in DOMAIN entries |-> entries[i].cascades])]
      Run[k \in 0..Cardinality(Referenced(ix))] ==
        IF k = 0 THEN start
        ELSE IF Unvisited(Run[k - 1]) = {} THEN Run[k - 1] ELSE Visit(ix, Run[k - 1])
  IN  Run[Cardinality(Referenced(ix))].result

\* The body comes from the file as it is now; an unreadable one is empty.
Body(ix, e) == LET f == (CHOOSE i \in ix : i.entry = e).file
               IN  disk[f]

-----------------------------------------------------------------------------
Init == /\ disk \in Disks
        /\ edits = 0
        /\ copy = NoCopy
        /\ process = [p \in Processes |-> "down"]
        /\ index = [p \in Processes |-> NoCopy]
        /\ request = [r \in Requests |-> "idle"]
        /\ pending = [r \in Requests |-> NoCopy]
        /\ loaded = <<>>
        /\ asked = [r \in Requests |-> 0]
        /\ settled = 0
        /\ raced = FALSE

\* `at` counts from one: zero is the copy that does not exist.
Snapshot == [at |-> edits + 1, of |-> IndexOf(disk)]

Saving == (\E p \in Processes : process[p] = "saving")
          \/ (\E r \in Requests : request[r] = "saving")

\* Somebody writes or deletes a SKILL.md.
Edit(f) ==
  /\ edits < MaxEdits
  /\ \E s \in Skills \cup {Absent} : s # disk[f] /\ disk' = [disk EXCEPT ![f] = s]
  /\ edits' = edits + 1
  /\ UNCHANGED <<copy, process, index, request, pending, loaded, asked, settled, raced>>

\* startup and lifespan: the copy, or a scan when there is none or Redis fails.
Start(p) ==
  /\ process[p] = "down"
  /\ \/ /\ copy # NoCopy
        /\ index' = [index EXCEPT ![p] = copy]
        /\ process' = [process EXCEPT ![p] = "up"]
        /\ UNCHANGED raced
     \/ /\ index' = [index EXCEPT ![p] = Snapshot]
        /\ process' = [process EXCEPT ![p] = "saving"]
        /\ raced' = (raced \/ Saving)
  /\ UNCHANGED <<disk, edits, copy, request, pending, loaded, asked, settled>>

\* save_to_cache swallows what goes wrong.
SaveAtStart(p) ==
  /\ process[p] = "saving"
  /\ process' = [process EXCEPT ![p] = "up"]
  /\ copy' = index[p] \/ copy' = copy
  /\ UNCHANGED <<disk, edits, index, request, pending, loaded, asked, settled, raced>>

\* Each process may end at any moment, and with the gateway its requests.
Stop(p) ==
  /\ process[p] # "down"
  /\ process' = [process EXCEPT ![p] = "down"]
  /\ request' = IF p = "gateway" THEN [r \in Requests |-> "idle"] ELSE request
  /\ UNCHANGED <<disk, edits, copy, index, pending, loaded, asked, settled, raced>>

\* The endpoint deletes the copy; a failure is swallowed.
Invalidate(r) ==
  /\ process["gateway"] = "up" /\ request[r] = "idle"
  /\ request' = [request EXCEPT ![r] = "deleted"]
  /\ asked' = [asked EXCEPT ![r] = edits + 1]
  /\ copy' = NoCopy \/ copy' = copy
  /\ UNCHANGED <<disk, edits, process, index, pending, loaded, settled, raced>>

\* Mutant: it saves what it already holds.
RescanNot(r) ==
  /\ request[r] = "deleted"
  /\ request' = [request EXCEPT ![r] = "saving"]
  /\ pending' = [pending EXCEPT ![r] = index["gateway"]]
  /\ raced' = (raced \/ Saving)
  /\ UNCHANGED <<disk, edits, copy, process, index, loaded, asked, settled>>

\* Then it scans and turns the index into what it will save.
Rescan(r) ==
  /\ request[r] = "deleted"
  /\ request' = [request EXCEPT ![r] = "saving"]
  /\ index' = [index EXCEPT !["gateway"] = Snapshot]
  /\ pending' = [pending EXCEPT ![r] = Snapshot]
  /\ raced' = (raced \/ Saving)
  /\ UNCHANGED <<disk, edits, copy, process, loaded, asked, settled>>

\* The save that succeeds settles the copy.
Save(r) ==
  /\ request[r] = "saving"
  /\ request' = [request EXCEPT ![r] = "idle"]
  /\ \/ copy' = pending[r] /\ settled' = asked[r]
     \/ UNCHANGED <<copy, settled>>
  /\ UNCHANGED <<disk, edits, process, index, pending, loaded, asked, raced>>

\* _resolve_skills_for_agent and SkillLoaderAgent, in the worker.
LoadSkills(c) ==
  /\ process["worker"] = "up"
  /\ LET ix == index["worker"].of
         entries == Cascade(ix, Matched(ix, c))
     IN  loaded' = [i \in DOMAIN entries |->
                      [skill |-> entries[i], body |-> Body(ix, entries[i]),
                       for |-> c, at |-> index["worker"].at]]
  /\ UNCHANGED <<disk, edits, copy, process, index, request, pending, asked, settled, raced>>

Next == \/ \E f \in Files : Edit(f)
        \/ \E p \in Processes : Start(p) \/ SaveAtStart(p) \/ Stop(p)
        \/ \E r \in Requests : Invalidate(r) \/ Rescan(r) \/ Save(r)
        \/ \E c \in Contexts : LoadSkills(c)

Spec == Init /\ [][Next]_vars

-----------------------------------------------------------------------------
Indexes == SUBSET [file: Files, entry: Skills]
Snapshots == [at: Nat, of: Indexes]

(***************************************************************************)
(* The types of all but what an agent has loaded.                          *)
(***************************************************************************)
TypeOK ==
  /\ disk \in [Files -> Skills \cup {Absent}] /\ edits \in Nat
  /\ copy \in Snapshots
  /\ process \in [Processes -> {"down", "saving", "up"}]
  /\ index \in [Processes -> Snapshots] /\ pending \in [Requests -> Snapshots]
  /\ request \in [Requests -> {"idle", "deleted", "saving"}]
  /\ asked \in [Requests -> Nat] /\ settled \in Nat /\ raced \in BOOLEAN

\* An index that is as new as the files is what they hold.
IsOfDisk(x) == x.at <= edits + 1 /\ (x.at = edits + 1 => x.of = IndexOf(disk))
IndexIsOfDisk == /\ IsOfDisk(copy)
                 /\ \A p \in Processes : IsOfDisk(index[p])
                 /\ \A r \in Requests : IsOfDisk(pending[r])

\* What is asked of an invalidation is not newer than the files, and what it
\* will save is not older than that; the gateway that serves it is up.
RequestsAreGrounded ==
  /\ settled <= edits + 1
  /\ \A r \in Requests : /\ asked[r] <= edits + 1
                         /\ request[r] # "idle" => process["gateway"] = "up"
                         /\ request[r] = "saving" => pending[r].at >= asked[r]

\* Without a race one scan at a time is on its way to the copy, and it is not
\* older than the invalidation that the copy is settled for.
OneSaves ==
  ~raced =>
    /\ \A p \in Processes : process[p] = "saving" =>
         /\ \A q \in Processes \ {p} : process[q] # "saving"
         /\ \A r \in Requests : request[r] # "saving"
         /\ index[p].at >= settled
    /\ \A r \in Requests : request[r] = "saving" =>
         /\ \A q \in Requests \ {r} : request[q] # "saving"
         /\ index["gateway"].at >= asked[r]

(***************************************************************************)
(* After an invalidation whose save succeeded neither the copy nor a       *)
(* process that takes it is older than the invalidation's scan, unless     *)
(* another save was in flight while it scanned: that one may overwrite the *)
(* copy with what it had read before.                                      *)
(***************************************************************************)
InvalidationHolds ==
  ~raced => /\ copy # NoCopy => copy.at >= settled
            /\ settled > 0 /\ process["gateway"] = "up" => index["gateway"].at >= settled

(***************************************************************************)
(* The index of a process that has just scanned has, for every name of a   *)
(* readable skill, the first file of the last scope that has the name.     *)
(***************************************************************************)
ScanKeepsFirst ==
  \A p \in Processes : process[p] = "saving" /\ index[p].at = edits + 1 =>
    \A f \in Files :
      Parses(disk, f) =>
        LET rivals == {g \in Files : Parses(disk, g) /\ disk[g].name = disk[f].name}
            wins == /\ \A g \in rivals : ScopeAt[g] <= ScopeAt[f]
                    /\ \A g \in rivals : ScopeAt[g] = ScopeAt[f] => f <= g
        IN  ([file |-> f, entry |-> disk[f]] \in index[p].of) <=> wins

(***************************************************************************)
(* Such is the index; and an agent gets each skill once, first those that  *)
(* match by priority, then all that can be reached from them by cascades,  *)
(* through cycles and past missing ones.                                   *)
(***************************************************************************)
LoadedIsClosed ==
  LET skills == {loaded[i].skill : i \in DOMAIN loaded}
      ix == {i.entry : i \in index["worker"].of}
      c == loaded[1].for
      Direct(i) == Matches(loaded[i].skill, c)
  IN  /\ loaded # <<>> /\ loaded[1].at = index["worker"].at =>
           /\ Cardinality(skills) = Len(loaded)
           /\ {e \in ix : Matches(e, c)} \subseteq skills
           /\ \A e \in ix : (\E s \in skills : e.name \in ToSet(s.cascades)) => e \in skills
           /\ \A i \in DOMAIN loaded :
                \/ Direct(i) /\ \A j \in 1..(i-1) : Direct(j)
                                  /\ loaded[j].skill.priority >= loaded[i].skill.priority
                \/ \E j \in 1..(i-1) : loaded[i].skill.name \in ToSet(loaded[j].skill.cascades)
      /\ ScanKeepsFirst
=============================================================================
