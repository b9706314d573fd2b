--------------------------- MODULE Services_proofs ---------------------------
(***************************************************************************)
(* Theorems about the services, for all values of their constants.         *)
(***************************************************************************)
EXTENDS Services, FiniteSetTheorems, SequenceTheorems, WellFoundedInduction, TLAPS

\* A step leaves the part alone and is a step of that part's module.
LEMMA StepOfPart ==
  ASSUME [Next]_vars
  PROVE  /\ part' = part
         /\ part = "skills" => [Skill!Next]_(Skill!vars)
         /\ part = "workflows" => [Catalog!Next]_(Catalog!vars)
         /\ part = "agents" => [Assembly!Next]_(Assembly!vars)
         /\ part = "order" => [Graph!Next]_(Graph!vars)
         /\ part = "files" => [File!Next]_(File!vars)
         /\ part = "verdicts" => [Verdict!Next]_(Verdict!vars)
         /\ part = "tasks" => [Task!Next]_(Task!vars)
         /\ part = "recreation" => [Context!Next]_(Context!vars)
         /\ part = "events" => [Event!Next]_(Event!vars)
BY DEF Next, vars, Verdict!vars, Verdict!world, Task!vars, Task!list, Event!vars,
       Context!vars, Skill!vars, Catalog!vars, Assembly!vars, Graph!vars, File!vars

-----------------------------------------------------------------------------
(***************************************************************************)
(* Induction and recursion over 0 .. N.                                    *)
(***************************************************************************)
Below == {p \in Nat \X Nat : p[1] < p[2]}

\* A set with zero, and with each number its successor, has all numbers.
LEMMA Induction ==
  ASSUME NEW N \in Nat, NEW T, 0 \in T, \A n \in 0..(N - 1) : n \in T => n + 1 \in T
  PROVE  \A n \in 0..N : n \in T
<1> DEFINE Out == {n \in 0..N : n \notin T}
<1>1. IsWellFoundedOn(Below, Nat)
  BY NatLessThanWellFounded DEF OpToRel, Below
<1>2. SUFFICES ASSUME Out # {} PROVE FALSE
  OBVIOUS
<1>3. Out \subseteq Nat
  OBVIOUS
<1> HIDE DEF Out
<1>4. PICK x \in Out : \A y \in Out : ~ (<<y, x>> \in Below)
  BY <1>1, <1>2, <1>3, WFMin
<1> USE DEF Out
<1>5. x \in 0..N /\ x \notin T /\ x # 0
  OBVIOUS
<1>6. x - 1 \in 0..(N - 1) /\ x - 1 \in 0..N /\ x - 1 + 1 = x
  BY <1>5
<1>7. <<x - 1, x>> \in Below
  BY <1>5, <1>6 DEF Below
<1>8. x - 1 \in T
  BY <1>4, <1>6, <1>7
<1> QED
  BY <1>5, <1>6, <1>8

\* A set of numbers has a least one.
LEMMA Least ==
  ASSUME NEW S \in SUBSET Nat, S # {}
  PROVE  \E i \in S : \A j \in S : i <= j
<1>1. IsWellFoundedOn(Below, Nat)
  BY NatLessThanWellFounded DEF OpToRel, Below
<1>2. PICK i \in S : \A j \in S : ~ (<<j, i>> \in Below)
  BY <1>1, WFMin
<1>3. \A j \in S : i <= j
  <2>1. ASSUME NEW j \in S PROVE i <= j
    <3>1. i \in Nat /\ j \in Nat /\ ~ (j < i)
      BY <1>2 DEF Below
    <3> QED
      BY <3>1
  <2> QED
    BY <2>1
<1> QED
  BY <1>3

\* A function on 0 .. N that starts with v and goes on with step.
IsRecursion(g, N, V, v, step) ==
  /\ g \in [0..N -> V] /\ g[0] = v
  /\ \A f \in 1..N : g[f] = step[f][g[f - 1]]

\* There is one.
LEMMA Recursion ==
  ASSUME NEW N \in Nat, NEW V, NEW v \in V, NEW step \in [1..N -> [V -> V]]
  PROVE  \E g : IsRecursion(g, N, V, v, step)
<1> DEFINE Is(g, n) == /\ g \in [0..n -> V] /\ g[0] = v
                       /\ \A f \in 1..n : g[f] = step[f][g[f - 1]]
           Good == {n \in 0..N : \E g : Is(g, n)}
<1>1. 0 \in Good
  <2>1. Is([f \in 0..0 |-> v], 0)
    OBVIOUS
  <2> HIDE DEF Is
  <2> QED
    BY <2>1
<1>2. ASSUME NEW n \in 0..(N - 1), n \in Good
      PROVE  n + 1 \in Good
  <2>1. PICK g : Is(g, n)
    BY <1>2
  <2> DEFINE h == [f \in 0..(n + 1) |-> IF f = n + 1 THEN step[n + 1][g[n]] ELSE g[f]]
  <2>2. g[n] \in V /\ n + 1 \in 1..N
    BY <2>1
  <2>3. step[n + 1][g[n]] \in V
    BY <2>2
  <2>4. h \in [0..(n + 1) -> V]
    BY <2>1, <2>3
  <2>5. h[0] = v /\ h[n + 1] = step[n + 1][h[n]]
    BY <2>1
  <2>6. \A f \in 1..n : h[f] = step[f][h[f - 1]]
    BY <2>1
  <2>7. \A f \in 1..(n + 1) : f = n + 1 \/ f \in 1..n
    OBVIOUS
  <2> HIDE DEF h
  <2>8. Is(h, n + 1)
    <3>1. \A f \in 1..(n + 1) : h[f] = step[f][h[f - 1]]
      BY <2>5, <2>6, <2>7
    <3> QED
      BY <2>4, <2>5, <3>1
  <2>9. n + 1 \in 0..N
    OBVIOUS
  <2> HIDE DEF Is
  <2> QED
    BY <2>8, <2>9
<1> HIDE DEF Good
<1>3. N \in Good
  <2>1. \A n \in 0..(N - 1) : n \in Good => n + 1 \in Good
    BY <1>2
  <2>2. \A n \in 0..N : n \in Good
    BY <1>1, <2>1, Induction
  <2> QED
    BY <2>2
<1>4. PICK g : Is(g, N)
  BY <1>3 DEF Good
<1>5. IsRecursion(g, N, V, v, step)
  BY <1>4 DEF IsRecursion
<1> QED
  BY <1>5

LEMMA Between == \A x, y, z \in Nat : x <= y /\ y <= z /\ y # z => x <= z /\ x # z
  OBVIOUS

(***************************************************************************)
(* A scan goes through the files 1 .. N, whose scopes do not fall, and a   *)
(* file of P takes its name over unless the scope that has the name is its *)
(* own.  Then each name has the first file of its last scope.              *)
(***************************************************************************)
IsScan(g, N, NM, P, nm, sc) ==
  /\ g \in [0..N -> [NM -> 0..N]] /\ \A n \in NM : g[0][n] = 0
  /\ \A f \in 1..N :
       g[f] = IF f \in P /\ (g[f - 1][nm[f]] = 0 \/ sc[g[f - 1][nm[f]]] # sc[f])
                THEN [g[f - 1] EXCEPT ![nm[f]] = f] ELSE g[f - 1]

IsPick(k, n, P, nm, sc) ==
  IF \A f \in P : nm[f] # n THEN k = 0
  ELSE /\ k \in P /\ nm[k] = n
       /\ \A j \in P : nm[j] = n => sc[j] <= sc[k] /\ (sc[j] = sc[k] => k <= j)

\* A scan goes as far as the files.
LEMMA ScanExists ==
  ASSUME NEW N \in Nat, NEW NM, NEW P \in SUBSET (1..N), NEW nm \in [P -> NM],
         NEW sc \in [1..N -> Nat]
  PROVE  \E g : IsScan(g, N, NM, P, nm, sc)
<1> DEFINE V == [NM -> 0..N]
           v == [n \in NM |-> 0]
           Takes(ix, f) == f \in P /\ (ix[nm[f]] = 0 \/ sc[ix[nm[f]]] # sc[f])
           step == [f \in 1..N |-> [ix \in V |->
                      IF Takes(ix, f) THEN [ix EXCEPT ![nm[f]] = f] ELSE ix]]
<1>1. v \in V /\ \A n \in NM : v[n] = 0
  OBVIOUS
<1>2. step \in [1..N -> [V -> V]]
  <2>1. ASSUME NEW f \in 1..N, NEW ix \in V
        PROVE  (IF Takes(ix, f) THEN [ix EXCEPT ![nm[f]] = f] ELSE ix) \in V
    OBVIOUS
  <2> QED
    BY <2>1
<1> HIDE DEF V, v, step
<1>3. PICK g : IsRecursion(g, N, V, v, step)
  BY <1>1, <1>2, Recursion
<1>4. g \in [0..N -> V] /\ g[0] = v /\ \A f \in 1..N : g[f] = step[f][g[f - 1]]
  BY <1>3 DEF IsRecursion
<1>5. \A f \in 1..N : g[f - 1] \in V
  BY <1>4
<1>6. \A f \in 1..N :
        g[f] = IF Takes(g[f - 1], f) THEN [g[f - 1] EXCEPT ![nm[f]] = f] ELSE g[f - 1]
  BY <1>4, <1>5 DEF step
<1>7. g \in [0..N -> [NM -> 0..N]] /\ \A n \in NM : g[0][n] = 0
  BY <1>1, <1>4 DEF V
<1>8. IsScan(g, N, NM, P, nm, sc)
  BY <1>6, <1>7 DEF IsScan
<1> QED
  BY <1>8

\* Two functions that start alike and go on alike are alike.
LEMMA SameScan ==
  ASSUME NEW N \in Nat, NEW g, NEW u, u[0] = g[0],
         \A f \in 1..N : u[f - 1] = g[f - 1] => u[f] = g[f]
  PROVE  u[N] = g[N]
<1> DEFINE Same == {f \in 0..N : u[f] = g[f]}
<1>1. 0 \in Same
  OBVIOUS
<1>2. ASSUME NEW f \in 0..(N - 1), f \in Same
      PROVE  f + 1 \in Same
  <2>1. f + 1 \in 1..N /\ f + 1 - 1 = f /\ f + 1 \in 0..N
    OBVIOUS
  <2> QED
    BY <1>2, <2>1
<1>3. \A f \in 0..(N - 1) : f \in Same => f + 1 \in Same
  BY <1>2
<1> HIDE DEF Same
<1>4. \A f \in 0..N : f \in Same
  BY <1>1, <1>3, Induction
<1> QED
  BY <1>4 DEF Same

LEMMA ScanPicks ==
  ASSUME NEW N \in Nat, NEW NM, NEW P \in SUBSET (1..N), NEW nm \in [P -> NM],
         NEW sc \in [1..N -> Nat], \A i, j \in 1..N : i < j => sc[i] <= sc[j],
         NEW g, IsScan(g, N, NM, P, nm, sc)
  PROVE  \A n \in NM : IsPick(g[N][n], n, P, nm, sc)
<1> USE DEF IsScan
<1> DEFINE Right(f, n, k) ==
             /\ k = 0 => \A j \in P : j <= f => nm[j] # n
             /\ k # 0 =>
                  /\ k \in P /\ k <= f /\ nm[k] = n
                  /\ \A j \in P : j <= f /\ nm[j] = n =>
                       sc[j] <= sc[k] /\ (sc[j] = sc[k] => k <= j)
           Good == {f \in 0..N : \A n \in NM : Right(f, n, g[f][n])}
<1>1. 0 \in Good
  <2>1. ASSUME NEW n \in NM PROVE Right(0, n, g[0][n])
    OBVIOUS
  <2> HIDE DEF Right
  <2> QED
    BY <2>1
<1>2. ASSUME NEW f \in 0..(N - 1), f \in Good
      PROVE  f + 1 \in Good
  <2> DEFINE h == f + 1
             takes == h \in P /\ (g[f][nm[h]] = 0 \/ sc[g[f][nm[h]]] # sc[h])
  <2>1. h \in 1..N /\ h - 1 = f /\ h \in 0..N /\ f \in 0..N
    OBVIOUS
  <2>2. g[h] = IF takes THEN [g[f] EXCEPT ![nm[h]] = h] ELSE g[f]
    BY <2>1
  <2>3. g[f] \in [NM -> 0..N]
    BY <2>1
  <2>4. ASSUME NEW n \in NM
        PROVE  Right(h, n, g[h][n])
    <3>0. Right(f, n, g[f][n]) /\ g[f][n] \in 0..N
      BY <1>2, <2>3
    <3>a. \A j \in P : j <= h => j <= f \/ j = h
      BY <2>1
    <3>1. CASE h \in P /\ nm[h] = n /\ takes
      <4>1. g[h][n] = h
        BY <2>2, <2>3, <3>1
      <4>2. ASSUME NEW j \in P, j <= h, nm[j] = n
            PROVE  sc[j] <= sc[h] /\ (sc[j] = sc[h] => h <= j)
        <5>1. CASE j = h
          BY <5>1, <2>1
        <5>2. CASE j # h
          <6>1. j <= f /\ j \in 1..N /\ j < h
            BY <3>a, <4>2, <5>2, <2>1
          <6>2. sc[j] <= sc[h]
            BY <6>1, <2>1
          <6> DEFINE k == g[f][n]
          <6>k. k # 0
            BY <3>0, <4>2, <6>1
          <6>3. k \in P /\ k <= f /\ sc[k] # sc[h] /\ sc[j] <= sc[k]
            BY <3>0, <3>1, <4>2, <6>1, <6>k
          <6> HIDE DEF k
          <6>r. k \in 1..N
            BY <6>3
          <6>s. k < h
            BY <6>r, <6>3, <2>1
          <6>4. sc[k] <= sc[h] /\ sc[k] \in Nat /\ sc[h] \in Nat /\ sc[j] \in Nat
            BY <6>r, <6>s, <6>1, <2>1
          <6> HIDE DEF h
          <6>6. sc[j] <= sc[h] /\ sc[j] # sc[h]
            BY <6>3, <6>4, Between
          <6> QED
            BY <6>6
        <5> QED
          BY <5>1, <5>2
      <4> QED
        BY <4>1, <4>2, <3>1, <2>1
    <3>2. CASE h \in P /\ nm[h] = n /\ ~takes
      <4>1. g[h][n] = g[f][n] /\ g[f][n] # 0 /\ sc[g[f][n]] = sc[h]
        BY <2>2, <3>2
      <4>2. g[f][n] <= f /\ g[f][n] <= h /\ g[f][n] \in P /\ nm[g[f][n]] = n
        BY <3>0, <4>1, <2>1
      <4>3. ASSUME NEW j \in P, j <= h, nm[j] = n
            PROVE  sc[j] <= sc[g[f][n]] /\ (sc[j] = sc[g[f][n]] => g[f][n] <= j)
        BY <3>0, <3>a, <4>1, <4>2, <4>3, <2>1
      <4> QED
        BY <4>1, <4>2, <4>3
    <3>3. CASE h \notin P \/ nm[h] # n
      <4>1. g[h][n] = g[f][n]
        BY <2>2, <2>3, <3>3
      <4>2. \A j \in P : j <= h /\ nm[j] = n => j <= f
        BY <3>3, <3>a
      <4> QED
        BY <3>0, <4>1, <4>2, <2>1
    <3> QED
      BY <3>1, <3>2, <3>3
  <2> HIDE DEF Right
  <2> QED
    BY <2>1, <2>4
<1>3. N \in Good
  <2>1. \A f \in 0..(N - 1) : f \in Good => f + 1 \in Good
    BY <1>2
  <2> HIDE DEF Good
  <2>2. \A f \in 0..N : f \in Good
    BY <1>1, <2>1, Induction
  <2> QED
    BY <2>2
<1>4. ASSUME NEW n \in NM
      PROVE  IsPick(g[N][n], n, P, nm, sc)
  <2>1. Right(N, n, g[N][n])
    BY <1>3
  <2>2. \A j \in P : j <= N /\ j # 0
    OBVIOUS
  <2> QED
    BY <2>1, <2>2 DEF IsPick
<1> QED
  BY <1>4

-----------------------------------------------------------------------------
(***************************************************************************)
(* ProjectTasks.                                                           *)
(***************************************************************************)
LEMMA TaskTypeInit == Task!Init => Task!TypeOK
BY ServicesAssumption
   DEF Task!Init, Task!TypeOK, Task!Idle, Task!NoRow, Task!TaskAssumption

\* A call's list of todos has states for them, and of the completed ones those
\* that are still listed; these are DONE.
LEMMA WriteTodosKeeps ==
  ASSUME Task!TypeOK, Task!WriteTodos
  PROVE  /\ v6' \in [Todos -> {"none", "PENDING", "DONE"}]
         /\ v7' \subseteq Task!Listed'
         /\ Task!CompletionKept => Task!CompletionKept'
<1> DEFINE todos == v6  completed == v7
<1>1. PICK a, b \in {"ADD", "COMPLETE", "REMOVE", "UPDATE"}, i, j \in Todos :
        /\ a = "ADD" => i \notin Task!Listed
        /\ b = "ADD" => j \notin Task!Listed /\ (a = "ADD" => i # j)
        /\ LET left == IF Task!Writes(b, j) THEN Task!After(b, j)
                       ELSE IF Task!Writes(a, i) THEN Task!After(a, i) ELSE Task!Listed
           IN  /\ todos' = [k \in Todos |->
                              IF k \notin left THEN "none"
                              ELSE IF k \in Task!Done(a, i, b, j) THEN "DONE"
                              ELSE IF k \in Task!Listed THEN todos[k] ELSE "PENDING"]
               /\ completed' = (completed \cup Task!Finished(a, i, b, j)) \cap left
  BY DEF Task!WriteTodos
<1> DEFINE left == IF Task!Writes(b, j) THEN Task!After(b, j)
                   ELSE IF Task!Writes(a, i) THEN Task!After(a, i) ELSE Task!Listed
           finished == Task!Finished(a, i, b, j)
<1>2. /\ todos \in [Todos -> {"none", "PENDING", "DONE"}]
      /\ completed \subseteq Task!Listed
      /\ Task!Listed = {k \in Todos : todos[k] # "none"}
      /\ Task!Listed' = {k \in Todos : todos'[k] # "none"}
      /\ finished \subseteq Task!Listed /\ Task!Done(a, i, b, j) = finished
  BY DEF Task!TypeOK, Task!Listed, Task!Done, Task!Finished
<1>3. left \subseteq Todos
  BY DEF Task!After, Task!Listed
<1>4. /\ todos' = [k \in Todos |->
                     IF k \notin left THEN "none"
                     ELSE IF k \in finished THEN "DONE"
                     ELSE IF k \in Task!Listed THEN todos[k] ELSE "PENDING"]
      /\ completed' = (completed \cup finished) \cap left
  BY <1>1, <1>2
<1> HIDE DEF left, finished
<1>5. todos' \in [Todos -> {"none", "PENDING", "DONE"}]
  BY <1>2, <1>4
<1>6. Task!Listed' = left
  BY <1>2, <1>3, <1>4
<1>7. Task!CompletionKept => Task!CompletionKept'
  <2>1. ASSUME Task!CompletionKept, NEW k \in completed' PROVE todos'[k] = "DONE"
    BY <1>2, <1>3, <1>4, <2>1 DEF Task!CompletionKept
  <2> QED
    BY <2>1 DEF Task!CompletionKept
<1> QED
  BY <1>4, <1>5, <1>6, <1>7

LEMMA TaskTypeStep ==
  ASSUME Task!TypeOK, Task!CopyIsFresh, [Task!Next]_(Task!vars)
  PROVE  Task!TypeOK'
<1> DEFINE row == v1  call == v2  used == v3  told == v4  raced == v5  todos == v6
<1>0. MaxNotes \in Nat
  BY ServicesAssumption DEF Task!TaskAssumption
<1>1. ASSUME NEW t \in Tasks, Task!Create(t) PROVE Task!TypeOK'
  BY <1>1 DEF Task!Create, Task!list, Task!TypeOK, Task!Row, Task!Status, Task!Listed
<1>2. ASSUME NEW c \in Callers, Task!ReadTask(c) PROVE Task!TypeOK'
  <2>1. PICK t \in Tasks, s \in Task!Status \cup {Task!Keep},
             n \in {Task!NoNote, used + 1} :
          /\ row[t] # Task!NoRow
          /\ n <= MaxNotes
          /\ call' = [call EXCEPT ![c] = [at |-> "read", task |-> t, status |-> s,
                                          note |-> n, copy |-> row[t]]]
          /\ used' = IF n = Task!NoNote THEN used ELSE n
    BY <1>2 DEF Task!ReadTask
  <2>2. n \in 0..MaxNotes
    BY <2>1, <1>0 DEF Task!TypeOK, Task!NoNote
  <2>3. [at |-> "read", task |-> t, status |-> s, note |-> n, copy |-> row[t]]
          \in Task!Call
    BY <2>1, <2>2 DEF Task!Call, Task!TypeOK
  <2>4. call' \in [Callers -> {Task!Idle(Task!AnyTask)} \cup Task!Call]
    BY <2>1, <2>3 DEF Task!TypeOK
  <2>5. used' \in 0..MaxNotes
    BY <2>1, <2>2 DEF Task!TypeOK
  <2>6. raced' \subseteq Tasks
    BY <1>2 DEF Task!ReadTask, Task!list, Task!TypeOK
  <2> QED
    BY <1>2, <2>4, <2>5, <2>6 DEF Task!ReadTask, Task!list, Task!TypeOK, Task!Listed
<1>3. ASSUME NEW c \in Callers, Task!CommitTask(c) PROVE Task!TypeOK'
  <2> DEFINE k == call[c]
  <2>1. k \in Task!Call
    BY <1>3 DEF Task!CommitTask, Task!TypeOK, Task!Idle
  <2>2. PICK r \in {Task!NoRow} \cup Task!Row : r = row[k.task]
    BY <2>1 DEF Task!Call, Task!TypeOK
  <2>3. /\ Task!Wanted(k).status \in Task!Status
        /\ Task!Wanted(k).notes \subseteq 1..MaxNotes
    BY <2>1, <1>0 DEF Task!Wanted, Task!Call, Task!Row, Task!NoNote
  <2>4. CASE r \in Task!Row
    <3>1. Task!Flush(k, r) \in Task!Row
      BY <2>1, <2>3, <2>4 DEF Task!Flush, Task!Call, Task!Row, Task!Wanted
    <3>2. row' = [row EXCEPT ![k.task] = Task!Flush(k, r)]
      BY <1>3, <2>2 DEF Task!CommitTask
    <3>3. k.note # Task!NoNote => <<k.note, k.task>> \in (1..MaxNotes) \X Tasks
      BY <2>1, <1>0 DEF Task!Call, Task!NoNote
    <3> QED
      <4>1. row' \in [Tasks -> {Task!NoRow} \cup Task!Row]
        BY <3>1, <3>2 DEF Task!TypeOK
      <4>2. call' \in [Callers -> {Task!Idle(Task!AnyTask)} \cup Task!Call]
        BY <1>3 DEF Task!CommitTask, Task!TypeOK
      <4>3. /\ used' \in 0..MaxNotes /\ told' \subseteq (1..MaxNotes) \X Tasks
            /\ raced' \subseteq Tasks /\ UNCHANGED <<v6, v7>>
        BY <1>3, <3>3 DEF Task!CommitTask, Task!list, Task!TypeOK
      <4> QED
        BY <4>1, <4>2, <4>3 DEF Task!TypeOK, Task!Listed
  <2>5. CASE r = Task!NoRow
    BY <1>3, <2>2, <2>5 DEF Task!CommitTask, Task!CopyIsFresh
  <2> QED
    BY <2>2, <2>4, <2>5
<1>4. ASSUME NEW c \in Callers, Task!AbandonTask(c) PROVE Task!TypeOK'
  BY <1>4 DEF Task!AbandonTask, Task!list, Task!TypeOK, Task!Listed
<1>5. CASE Task!WriteTodos
  BY <1>5, WriteTodosKeeps DEF Task!WriteTodos, Task!TypeOK
<1>6. CASE UNCHANGED Task!vars
  BY <1>6 DEF Task!vars, Task!list, Task!TypeOK, Task!Listed
<1> QED
  BY <1>1, <1>2, <1>3, <1>4, <1>5, <1>6 DEF Task!Next

LEMMA CopyIsFreshStep ==
  ASSUME Task!TypeOK, Task!CopyIsFresh, [Task!Next]_(Task!vars)
  PROVE  Task!CopyIsFresh'
<1> DEFINE row == v1  call == v2  used == v3  raced == v5
<1>1. ASSUME NEW t \in Tasks, Task!Create(t) PROVE Task!CopyIsFresh'
  <2>1. ASSUME NEW c \in Callers, call[c].at = "read"
        PROVE  call[c].task \in Tasks /\ call[c].task # t
    BY <1>1, <2>1 DEF Task!Create, Task!list, Task!CopyIsFresh, Task!TypeOK, Task!Idle, Task!Call
  <2>2. row'[t] # Task!NoRow /\ \A s \in Tasks \ {t} : row'[s] = row[s]
    BY <1>1 DEF Task!Create, Task!list, Task!TypeOK, Task!NoRow
  <2>3. call' = call /\ raced' = raced
    BY <1>1 DEF Task!Create
  <2> QED
    BY <2>1, <2>2, <2>3 DEF Task!CopyIsFresh
<1>2. ASSUME NEW c \in Callers, Task!ReadTask(c) PROVE Task!CopyIsFresh'
  <2>1. PICK t \in Tasks, s \in Task!Status \cup {Task!Keep},
             n \in {Task!NoNote, used + 1} :
          /\ row[t] # Task!NoRow
          /\ call' = [call EXCEPT ![c] = [at |-> "read", task |-> t, status |-> s,
                                          note |-> n, copy |-> row[t]]]
          /\ raced' = IF \E b \in Callers \ {c} :
                           call[b].at = "read" /\ call[b].task = t
                        THEN raced \cup {t} ELSE raced
          /\ row' = row
    BY <1>2 DEF Task!ReadTask
  <2>2. /\ call'[c].at = "read" /\ call'[c].task = t /\ call'[c].copy = row[t]
        /\ \A b \in Callers \ {c} : call'[b] = call[b]
    BY <2>1 DEF Task!TypeOK
  <2> QED
    BY <2>1, <2>2 DEF Task!CopyIsFresh, Task!TypeOK
<1>3. ASSUME NEW c \in Callers, Task!CommitTask(c) PROVE Task!CopyIsFresh'
  <2> DEFINE t == call[c].task
  <2>1. call[c] \in Task!Call /\ t \in Tasks /\ row[t] \in Task!Row
    BY <1>3 DEF Task!CommitTask, Task!TypeOK, Task!Idle, Task!Call, Task!CopyIsFresh
  <2>2. row'[t] # Task!NoRow /\ \A s \in Tasks \ {t} : row'[s] = row[s]
    <3>1. Task!Flush(call[c], row[t]).status \in Task!Status
      BY <2>1 DEF Task!Flush, Task!Wanted, Task!Call, Task!Row
    <3>2. row' = [row EXCEPT ![t] = Task!Flush(call[c], row[t])]
      BY <1>3 DEF Task!CommitTask
    <3>3. row'[t].status \in Task!Status
      BY <3>1, <3>2, <2>1 DEF Task!TypeOK
    <3>4. row'[t] # Task!NoRow
      BY <3>3 DEF Task!NoRow, Task!Status
    <3> QED
      BY <3>2, <3>4, <2>1 DEF Task!TypeOK
  <2>3. /\ call' = [call EXCEPT ![c] = Task!Idle(Task!AnyTask)] /\ raced' = raced
        /\ call[c].at = "read"
    BY <1>3 DEF Task!CommitTask
  <2>4. ASSUME NEW b \in Callers, call'[b].at = "read"
        PROVE  b # c /\ call'[b] = call[b]
    BY <2>3, <2>4 DEF Task!TypeOK, Task!Idle
  <2>5. ASSUME NEW b \in Callers, call[b].at = "read" PROVE call[b].task \in Tasks
    BY <2>5 DEF Task!TypeOK, Task!Idle, Task!Call
  <2>6. ASSUME NEW b \in Callers, call'[b].at = "read"
        PROVE  /\ row'[call'[b].task] # Task!NoRow
               /\ call'[b].task \notin raced' =>
                    /\ call'[b].copy = row'[call'[b].task]
                    /\ \A a \in Callers :
                         call'[a].at = "read" /\ call'[a].task = call'[b].task => a = b
    <3>1. call'[b] = call[b] /\ b # c /\ call[b].task \in Tasks
      BY <2>4, <2>5, <2>6
    <3>2. row'[call[b].task] # Task!NoRow
      BY <2>2, <3>1, <2>6 DEF Task!CopyIsFresh, Task!TypeOK
    <3>3. ASSUME call[b].task \notin raced
          PROVE  /\ call[b].task # t
                 /\ \A a \in Callers :
                      call'[a].at = "read" /\ call'[a].task = call[b].task => a = b
      BY <3>1, <3>3, <2>3, <2>4, <2>6 DEF Task!CopyIsFresh
    <3>4. call[b].task # t => row'[call[b].task] = row[call[b].task]
      BY <2>2, <3>1 DEF Task!TypeOK
    <3> QED
      BY <3>1, <3>2, <3>3, <3>4, <2>3, <2>6 DEF Task!CopyIsFresh
  <2> QED
    BY <2>6 DEF Task!CopyIsFresh
<1>4. ASSUME NEW c \in Callers, Task!AbandonTask(c) PROVE Task!CopyIsFresh'
  BY <1>4 DEF Task!AbandonTask, Task!list, Task!CopyIsFresh, Task!TypeOK, Task!Idle
<1>5. CASE Task!WriteTodos
  BY <1>5 DEF Task!WriteTodos, Task!CopyIsFresh
<1>6. CASE UNCHANGED Task!vars
  BY <1>6 DEF Task!vars, Task!list, Task!CopyIsFresh
<1> QED
  BY <1>1, <1>2, <1>3, <1>4, <1>5, <1>6 DEF Task!Next

LEMMA NotesKeptStep ==
  ASSUME Task!TypeOK, Task!CopyIsFresh, Task!NotesKept, [Task!Next]_(Task!vars)
  PROVE  Task!NotesKept'
<1> DEFINE row == v1  call == v2  told == v4  raced == v5
<1>1. ASSUME NEW t \in Tasks, Task!Create(t) PROVE Task!NotesKept'
  BY <1>1 DEF Task!Create, Task!list, Task!NotesKept, Task!TypeOK, Task!NoRow
<1>2. ASSUME NEW c \in Callers, Task!ReadTask(c) PROVE Task!NotesKept'
  BY <1>2 DEF Task!ReadTask, Task!list, Task!NotesKept
<1>3. ASSUME NEW c \in Callers, Task!CommitTask(c) PROVE Task!NotesKept'
  <2> DEFINE k == call[c]  t == k.task
  <2>1. k \in Task!Call
    BY <1>3 DEF Task!CommitTask, Task!TypeOK, Task!Idle
  <2>2. t \in raced \/ k.copy = row[t]
    BY <1>3 DEF Task!CommitTask, Task!CopyIsFresh
  <2>3. /\ row'[t] = Task!Flush(k, row[t])
        /\ \A s \in Tasks \ {t} : row'[s] = row[s]
        /\ raced' = raced
        /\ told' = IF k.note = Task!NoNote THEN told ELSE told \cup {<<k.note, t>>}
    BY <1>3, <2>1 DEF Task!CommitTask, Task!TypeOK, Task!Call
  <2>4. t \notin raced => row[t].notes \cup ({k.note} \ {Task!NoNote}) \subseteq row'[t].notes
    BY <2>2, <2>3 DEF Task!Flush, Task!Wanted
  <2>5. ASSUME NEW p \in told' PROVE p[2] \in raced' \/ p[1] \in row'[p[2]].notes
    <3>1. CASE p \in told
      <4>1. p[2] \in Tasks
        BY <3>1 DEF Task!TypeOK
      <4> QED
        BY <3>1, <4>1, <2>3, <2>4 DEF Task!NotesKept
    <3>2. CASE p \notin told
      BY <3>2, <2>3, <2>4, <2>5
    <3> QED
      BY <3>1, <3>2
  <2> QED
    BY <2>5 DEF Task!NotesKept
<1>4. ASSUME NEW c \in Callers, Task!AbandonTask(c) PROVE Task!NotesKept'
  BY <1>4 DEF Task!AbandonTask, Task!list, Task!NotesKept
<1>5. CASE Task!WriteTodos
  BY <1>5 DEF Task!WriteTodos, Task!NotesKept
<1>6. CASE UNCHANGED Task!vars
  BY <1>6 DEF Task!vars, Task!list, Task!NotesKept
<1> QED
  BY <1>1, <1>2, <1>3, <1>4, <1>5, <1>6 DEF Task!Next

LEMMA CompletionKeptStep ==
  ASSUME Task!TypeOK, Task!CompletionKept, [Task!Next]_(Task!vars)
  PROVE  Task!CompletionKept'
<1>1. CASE Task!WriteTodos
  BY <1>1, WriteTodosKeeps
<1>2. CASE UNCHANGED Task!list
  BY <1>2 DEF Task!list, Task!CompletionKept
<1> QED
  BY <1>1, <1>2 DEF Task!Next, Task!Create, Task!ReadTask, Task!CommitTask,
                    Task!AbandonTask, Task!vars

TaskInv == part = "tasks" =>
  Task!TypeOK /\ Task!CopyIsFresh /\ Task!NotesKept /\ Task!CompletionKept

LEMMA TaskInvHolds == Spec => []TaskInv
<1>1. Init => TaskInv
  <2>1. Task!Init => Task!CopyIsFresh /\ Task!NotesKept /\ Task!CompletionKept
    BY DEF Task!Init, Task!CopyIsFresh, Task!NotesKept, Task!CompletionKept, Task!Idle
  <2> QED
    BY <2>1, TaskTypeInit DEF Init, TaskInv
<1>2. TaskInv /\ [Next]_vars => TaskInv'
  BY StepOfPart, TaskTypeStep, CopyIsFreshStep, NotesKeptStep,
     CompletionKeptStep DEF TaskInv
<1> QED
  BY <1>1, <1>2, PTL DEF Spec

\* A note whose update was answered with success is kept, for any tasks and
\* callers, except on a task that two updates have had at once.
THEOREM NotesKeptHolds == Spec => []NotesKept
<1>1. TaskInv => NotesKept
  BY DEF TaskInv, NotesKept
<1> QED
  BY <1>1, TaskInvHolds, PTL

\* A todo that was completed stays DONE while it is listed, for any todos.
THEOREM CompletionKeptHolds == Spec => []CompletionKept
<1>1. TaskInv => CompletionKept
  BY DEF TaskInv, CompletionKept
<1> QED
  BY <1>1, TaskInvHolds, PTL

\* A task's status changes only to one that a call asks for which has read
\* another, however many calls have a copy of the row.
THEOREM StatusIsAskedForHolds == Spec => StatusIsAskedFor
<1>1. TaskInv /\ [Next]_vars => [part = "tasks" => Task!StatusStep]_vars
  <2> SUFFICES ASSUME TaskInv, [Next]_vars, part = "tasks"
               PROVE  Task!StatusStep
    BY DEF vars
  <2> DEFINE row == v1  call == v2
  <2>1. Task!TypeOK /\ Task!CopyIsFresh /\ [Task!Next]_(Task!vars)
    BY StepOfPart DEF TaskInv
  <2>2. ASSUME NEW t \in Tasks, Task!Create(t) PROVE Task!StatusStep
    BY <2>1, <2>2 DEF Task!Create, Task!list, Task!StatusStep, Task!TypeOK
  <2>3. ASSUME NEW c \in Callers, Task!CommitTask(c) PROVE Task!StatusStep
    <3> DEFINE k == call[c]
    <3>1. k \in Task!Call
      BY <2>1, <2>3 DEF Task!CommitTask, Task!TypeOK, Task!Idle
    <3>2. /\ row'[k.task] = Task!Flush(k, row[k.task])
          /\ \A s \in Tasks \ {k.task} : row'[s] = row[s]
      BY <2>1, <2>3, <3>1 DEF Task!CommitTask, Task!TypeOK, Task!Call
    <3>3. row'[k.task].status # row[k.task].status =>
            row'[k.task].status = k.status /\ k.copy.status # k.status
      BY <3>2 DEF Task!Flush, Task!Wanted
    <3> QED
      BY <2>3, <3>2, <3>3 DEF Task!CommitTask, Task!StatusStep
  <2>4. CASE \/ \E c \in Callers : Task!ReadTask(c) \/ Task!AbandonTask(c)
             \/ Task!WriteTodos \/ UNCHANGED Task!vars
    BY <2>4 DEF Task!ReadTask, Task!list, Task!AbandonTask, Task!WriteTodos, Task!vars, Task!list,
                Task!StatusStep
  <2> QED
    BY <2>1, <2>2, <2>3, <2>4 DEF Task!Next
<1> QED
  BY <1>1, TaskInvHolds, PTL DEF Spec, StatusIsAskedFor

-----------------------------------------------------------------------------
(***************************************************************************)
(* Verdicts.                                                               *)
(***************************************************************************)
\* What a round of validators that is given only these keys does.
LEMMA EvaluateMoves ==
  ASSUME Verdict!TypeOK, Verdict!RowsAreEarned, NEW s, NEW g,
         g.keys \cap {"approval", "llm_validator", "dependency_graph",
                     "dependency_order"} = {},
         Verdict!Evaluate(s, g)
  PROVE  /\ v7' \subseteq Verdict!Result /\ v8' \subseteq Verdict!Result
         /\ v11' \in BOOLEAN /\ (v11 => v11')
         /\ Verdict!RowsAreEarned'
<1> DEFINE manifest == v1  results == v7  rows == v8  observed == v11
           due == {v \in manifest : v.schedule = s}
           found == {[name |-> v.name, passed |-> Verdict!Passes(v, g)] : v \in due}
<1>1. results' = found /\ rows' \subseteq rows \cup found
  BY DEF Verdict!Evaluate
<1>2. observed' = (observed \/ ( /\ due # {}
                                /\ "deliverable_statuses" \in g.keys
                                /\ \A d \in DOMAIN g.statuses :
                                     g.statuses[d] = "COMPLETED"))
  BY DEF Verdict!Evaluate
<1>3. found \subseteq Verdict!Result
  <2>1. ASSUME NEW v \in due PROVE v \in Candidates /\ Verdict!Passes(v, g) \in BOOLEAN
    BY <2>1 DEF Verdict!TypeOK, Verdict!Passes
  <2> QED
    BY <2>1 DEF Verdict!Result
<1>4. ASSUME NEW v \in due, v.name \in Verdict!Layers.contract, Verdict!Passes(v, g)
      PROVE  observed'
  <2>1. Verdict!StatusCheck(g)
    BY <1>4 DEF Verdict!Passes, Verdict!StandardCheck, Verdict!Layers
  <2> QED
    BY <1>2, <2>1 DEF Verdict!StatusCheck
<1>5. Verdict!RowsAreEarned'
  <2>1. ASSUME NEW r \in rows', r.name \in Verdict!Layers.contract, r.passed
        PROVE  observed'
    <3>1. CASE r \in rows
      BY <2>1, <3>1, <1>2 DEF Verdict!RowsAreEarned
    <3>2. CASE r \in found
      <4>1. PICK v \in due : r = [name |-> v.name, passed |-> Verdict!Passes(v, g)]
        BY <3>2
      <4> QED
        BY <2>1, <4>1, <1>4
    <3> QED
      BY <3>1, <3>2, <1>1, <2>1
  <2> QED
    BY <2>1 DEF Verdict!RowsAreEarned, Verdict!Layers
<1> QED
  BY <1>1, <1>2, <1>3, <1>5 DEF Verdict!TypeOK

VerdictInv == part = "verdicts" =>
  Verdict!TypeOK /\ Verdict!RowsAreEarned /\ Verdict!ContractIsEarned

LEMMA VerdictInit ==
  Verdict!Init => Verdict!TypeOK /\ Verdict!RowsAreEarned /\ Verdict!ContractIsEarned
<1> SUFFICES ASSUME Verdict!Init
             PROVE  Verdict!TypeOK /\ Verdict!RowsAreEarned /\ Verdict!ContractIsEarned
  OBVIOUS
<1>1. v6.keys \subseteq Verdict!GateKeys /\ v6.statuses = Verdict!NoStatuses
  BY DEF Verdict!Init
<1>2. v9 \in [DOMAIN Verdict!Layers -> {"none", "unverified", "pass", "fail"}]
  BY DEF Verdict!Init
<1>3. v9.contract = "none"
  BY DEF Verdict!Init, Verdict!Layers
<1>4. Verdict!TypeOK
  BY <1>1, <1>2 DEF Verdict!Init, Verdict!TypeOK, Verdict!Statuses
<1> QED
  BY <1>3, <1>4 DEF Verdict!Init, Verdict!RowsAreEarned, Verdict!ContractIsEarned

LEMMA VerdictStep ==
  ASSUME Verdict!TypeOK, Verdict!RowsAreEarned, Verdict!ContractIsEarned,
         [Verdict!Next]_(Verdict!vars)
  PROVE  Verdict!TypeOK' /\ Verdict!RowsAreEarned' /\ Verdict!ContractIsEarned'
<1> DEFINE given == v6  layers == v9
<1>1. CASE Verdict!AfterDeliverable
  BY <1>1, EvaluateMoves
     DEF Verdict!AfterDeliverable, Verdict!Keys, Verdict!TypeOK, Verdict!world,
         Verdict!ContractIsEarned
<1>2. CASE Verdict!AfterBatch
  BY <1>2, EvaluateMoves
     DEF Verdict!AfterBatch, Verdict!Keys, Verdict!TypeOK, Verdict!world,
         Verdict!ContractIsEarned, Verdict!RegressionDue
<1>3. CASE Verdict!ReadTaskgroup \/ Verdict!ReadStage
  BY <1>3
     DEF Verdict!ReadTaskgroup, Verdict!ReadStage, Verdict!TypeOK, Verdict!world,
         Verdict!GateKeys, Verdict!RowsAreEarned, Verdict!ContractIsEarned
<1>4. CASE Verdict!AtTaskgroup \/ Verdict!AtStage
  BY <1>4, EvaluateMoves
     DEF Verdict!AtTaskgroup, Verdict!AtStage, Verdict!TypeOK, Verdict!GateKeys,
         Verdict!world, Verdict!ContractIsEarned
<1>5. CASE Verdict!TaskgroupGate \/ Verdict!VerifyStage
  BY <1>5
     DEF Verdict!TaskgroupGate, Verdict!VerifyStage, Verdict!TypeOK,
         Verdict!world, Verdict!RowsAreEarned, Verdict!ContractIsEarned
<1>9. CASE Verdict!Resume
  <2>1. /\ layers' = [l \in DOMAIN Verdict!Layers |-> "none"]
        /\ given'.keys = {} /\ given'.statuses = Verdict!NoStatuses
    BY <1>9 DEF Verdict!Resume, Verdict!Keys
  <2>2. layers' \in [DOMAIN Verdict!Layers -> {"none", "unverified", "pass", "fail"}]
    BY <2>1
  <2>3. layers'.contract = "none"
    BY <2>1 DEF Verdict!Layers
  <2>4. /\ v5' = "batch" /\ v7' = {} /\ v8' = {} /\ v11' = FALSE
        /\ UNCHANGED <<v1, v2, v3, v4, v10>>
    BY <1>9 DEF Verdict!Resume, Verdict!world
  <2>5. Verdict!TypeOK'
    BY <2>1, <2>2, <2>4 DEF Verdict!TypeOK
  <2>6. Verdict!RowsAreEarned'
    BY <2>4 DEF Verdict!RowsAreEarned
  <2> QED
    BY <2>3, <2>5, <2>6 DEF Verdict!ContractIsEarned
<1>6. CASE Verdict!BuildReport
  <2>1. \A l \in DOMAIN Verdict!Layers :
          Verdict!LayerStatus(l) \in {"unverified", "pass", "fail"}
    BY DEF Verdict!LayerStatus
  <2>2. "contract" \in DOMAIN Verdict!Layers
    BY DEF Verdict!Layers
  <2>3. Verdict!LayerStatus("contract") = "pass" => v11
    BY DEF Verdict!LayerStatus, Verdict!RowsOf, Verdict!RowsAreEarned, Verdict!Layers
  <2>4. /\ layers' = [l \in DOMAIN Verdict!Layers |-> Verdict!LayerStatus(l)]
        /\ v5' = "readstage"
        /\ UNCHANGED <<v1, v2, v3, v4, v6, v7, v8, v10, v11>>
    BY <1>6 DEF Verdict!BuildReport, Verdict!world
  <2>5. layers'.contract = Verdict!LayerStatus("contract")
    BY <2>2, <2>4
  <2> QED
    BY <2>1, <2>3, <2>4, <2>5
       DEF Verdict!TypeOK, Verdict!RowsAreEarned, Verdict!ContractIsEarned
<1>7. CASE Verdict!ChangeWorld
  BY <1>7 DEF Verdict!ChangeWorld, Verdict!TypeOK, Verdict!RowsAreEarned,
              Verdict!ContractIsEarned
<1>8. CASE UNCHANGED Verdict!vars
  BY <1>8 DEF Verdict!vars, Verdict!world, Verdict!TypeOK, Verdict!RowsAreEarned,
              Verdict!ContractIsEarned
<1> QED
  BY <1>1, <1>2, <1>3, <1>4, <1>5, <1>6, <1>7, <1>8, <1>9 DEF Verdict!Next

\* A contract layer passes only on a round that saw every deliverable COMPLETED,
\* for any validators and deliverables.
THEOREM ContractIsEarnedHolds == Spec => []ContractIsEarned
<1>1. Init => VerdictInv
  BY VerdictInit DEF Init, VerdictInv
<1>2. VerdictInv /\ [Next]_vars => VerdictInv'
  BY StepOfPart, VerdictStep DEF VerdictInv
<1>3. VerdictInv => ContractIsEarned
  BY DEF VerdictInv, ContractIsEarned
<1> QED
  BY <1>1, <1>2, <1>3, PTL DEF Spec

-----------------------------------------------------------------------------
(***************************************************************************)
(* EventStream.                                                            *)
(***************************************************************************)
\* The instance has a Cardinality of its own.
LEMMA SameCardinality == \A S : Event!Cardinality(S) = Cardinality(S)
  BY DEF Event!Cardinality, Cardinality

\* A stream has finitely many places.
LEMMA ReportedCount ==
  ASSUME NEW S, NEW s \in Seq(S)
  PROVE  /\ IsFiniteSet(Event!Reported(s))
         /\ Cardinality(Event!Reported(s)) \in Nat
<1>1. DOMAIN s = 1..Len(s) /\ Len(s) \in Nat
  OBVIOUS
<1>2. IsFiniteSet(1..Len(s))
  BY <1>1, FS_Interval
<1>3. IsFiniteSet(Event!Reported(s))
  BY <1>1, <1>2, FS_Subset DEF Event!Reported
<1> QED
  BY <1>3, FS_CardinalityType

\* An entry at the end adds its own place, if it is a violation, and no other.
LEMMA ReportedAppend ==
  ASSUME NEW S, NEW s \in Seq(S), NEW e \in S
  PROVE  Cardinality(Event!Reported(Append(s, e))) =
           IF e.type = "STATE_AUTH" THEN Cardinality(Event!Reported(s)) + 1
                                    ELSE Cardinality(Event!Reported(s))
<1>1. DOMAIN s = 1..Len(s) /\ Len(s) \in Nat
  OBVIOUS
<1>2. IsFiniteSet(Event!Reported(s))
  BY ReportedCount
<1>3. Len(s) + 1 \notin Event!Reported(s)
  BY <1>1 DEF Event!Reported
<1>4. Event!Reported(Append(s, e)) =
        Event!Reported(s) \cup (IF e.type = "STATE_AUTH" THEN {Len(s) + 1} ELSE {})
  BY <1>1 DEF Event!Reported
<1> QED
  BY <1>2, <1>3, <1>4, FS_AddElement, FS_CardinalityType

LEMMA EventTypeStep ==
  ASSUME Event!TypeOK, [Event!Next]_(Event!vars)
  PROVE  Event!TypeOK'
<1> DEFINE job == v1  state == v2  left == v3  seen == v4  waiting == v5
           sending == v6  stream == v7  found == v8
<1>1. CASE Event!Translate
  <2>1. CASE job = "turn"
    BY <1>1, <2>1, ServicesAssumption
       DEF Event!Translate, Event!TypeOK, Event!StreamAssumption
  <2>2. CASE job # "turn"
    <3>1. PICK a \in Authors, e \in Event!Shapes :
            LET type == Event!TypeOf(a, e)
                foul == type = "STATE_UPDATED" /\ Event!Unauthorized(a, e.keys) # {}
            IN  /\ Event!Publish(type, a)
                /\ seen' = Event!Seen(type, a)
                /\ waiting' = IF foul THEN Append(waiting, Event!Entry("STATE_AUTH", a))
                              ELSE waiting
                /\ found' = IF foul THEN found + 1 ELSE found
      BY <1>1, <2>2 DEF Event!Translate
    <3>2. Event!Entry("STATE_AUTH", a) \in Event!Violation
      BY DEF Event!Entry, Event!Violation
    <3>3. \/ Event!TypeOf(a, e) = "none"
          \/ Event!Entry(Event!TypeOf(a, e), a) \in Event!Published
      BY DEF Event!TypeOf, Event!Entry, Event!Published
    <3>4. stream' \in Seq(Event!Published)
      BY <3>1, <3>3 DEF Event!Publish, Event!TypeOK
    <3>5. waiting' \in Seq(Event!Violation) /\ found' \in Nat
      BY <3>1, <3>2 DEF Event!TypeOK
    <3>6. seen' \subseteq Authors
      BY <3>1 DEF Event!Seen, Event!TypeOK
    <3> QED
      BY <1>1, <3>4, <3>5, <3>6, ServicesAssumption
         DEF Event!Translate, Event!TypeOK, Event!StreamAssumption
  <2> QED
    BY <2>1, <2>2
<1>2. CASE Event!EndAgents
  <2>1. <<>> \in Seq(Event!Violation)
    OBVIOUS
  <2> QED
    BY <1>2, <2>1 DEF Event!EndAgents, Event!TypeOK
<1>3. CASE Event!Flush
  <2>1. CASE sending = <<>>
    BY <1>3, <2>1 DEF Event!Flush, Event!TypeOK
  <2>2. CASE sending # <<>>
    <3>1. Head(sending) \in Event!Violation /\ Tail(sending) \in Seq(Event!Violation)
      BY <2>2 DEF Event!TypeOK
    <3>2. Append(stream, Head(sending)) \in Seq(Event!Published)
      BY <3>1 DEF Event!TypeOK, Event!Published
    <3> QED
      BY <1>3, <2>2, <3>1, <3>2 DEF Event!Flush, Event!TypeOK
  <2> QED
    BY <2>1, <2>2
<1>4. CASE Event!Break \/ UNCHANGED Event!vars
  BY <1>4 DEF Event!Break, Event!vars, Event!TypeOK
<1> QED
  BY <1>1, <1>2, <1>3, <1>4 DEF Event!Next

LEMMA EachIsSomewhereStep ==
  ASSUME Event!TypeOK, Event!EachIsSomewhere, [Event!Next]_(Event!vars)
  PROVE  Event!EachIsSomewhere'
<1> DEFINE job == v1  state == v2  left == v3  seen == v4  waiting == v5
           sending == v6  stream == v7  found == v8
           Count(s) == Cardinality(Event!Reported(s))
<1>0. /\ Count(stream) \in Nat /\ found \in Nat
      /\ Len(waiting) \in Nat /\ Len(sending) \in Nat /\ Len(<<>>) = 0
  <2>1. Count(stream) \in Nat
    BY ReportedCount DEF Event!TypeOK
  <2>2. /\ waiting \in Seq(Event!Violation) /\ sending \in Seq(Event!Violation)
        /\ found \in Nat
    BY DEF Event!TypeOK
  <2> QED
    BY <2>1, <2>2, LenProperties, EmptySeq
<1>1. CASE Event!Translate
  <2>1. CASE job = "turn"
    BY <1>1, <2>1 DEF Event!Translate, Event!EachIsSomewhere
  <2>2. CASE job # "turn"
    <3>1. PICK a \in Authors, e \in Event!Shapes :
            LET type == Event!TypeOf(a, e)
                foul == type = "STATE_UPDATED" /\ Event!Unauthorized(a, e.keys) # {}
            IN  /\ Event!Publish(type, a)
                /\ waiting' = IF foul THEN Append(waiting, Event!Entry("STATE_AUTH", a))
                              ELSE waiting
                /\ found' = IF foul THEN found + 1 ELSE found
      BY <1>1, <2>2 DEF Event!Translate
    <3>2. Count(stream') = Count(stream)
      <4>1. CASE Event!TypeOf(a, e) = "none"
        BY <3>1, <4>1 DEF Event!Publish
      <4>2. CASE Event!TypeOf(a, e) # "none"
        <5> DEFINE new == Event!Entry(Event!TypeOf(a, e), a)
        <5>1. new \in Event!Published /\ new.type # "STATE_AUTH"
          BY <4>2 DEF Event!TypeOf, Event!Entry, Event!Published
        <5>2. stream' = Append(stream, new)
          BY <3>1, <4>2 DEF Event!Publish
        <5> QED
          BY <5>1, <5>2, ReportedAppend DEF Event!TypeOK
      <4> QED
        BY <4>1, <4>2
    <3>3. \/ waiting' = waiting /\ found' = found
          \/ Len(waiting') = Len(waiting) + 1 /\ found' = found + 1
      <4>1. Event!Entry("STATE_AUTH", a) \in Event!Violation
        BY DEF Event!Entry, Event!Violation
      <4>2. Len(Append(waiting, Event!Entry("STATE_AUTH", a))) = Len(waiting) + 1
        BY <4>1, AppendProperties DEF Event!TypeOK
      <4> QED
        BY <3>1, <4>2
    <3>4. state = "running" /\ state' = state /\ sending' = sending /\ job' = job
      BY <1>1 DEF Event!Translate
    <3> QED
      BY <1>0, <2>2, <3>2, <3>3, <3>4, SameCardinality DEF Event!EachIsSomewhere
  <2> QED
    BY <2>1, <2>2
<1>2. CASE Event!EndAgents
  BY <1>0, <1>2, SameCardinality DEF Event!EndAgents, Event!EachIsSomewhere
<1>3. CASE Event!Flush
  <2>1. CASE sending = <<>>
    BY <1>3, <2>1 DEF Event!Flush, Event!EachIsSomewhere
  <2>2. CASE sending # <<>>
    <3>1. /\ Head(sending) \in Event!Published
          /\ Head(sending).type = "STATE_AUTH"
          /\ Len(Tail(sending)) = Len(sending) - 1
      <4>1. sending \in Seq(Event!Violation)
        BY DEF Event!TypeOK
      <4>2. Head(sending) \in Event!Violation /\ Len(Tail(sending)) = Len(sending) - 1
        BY <2>2, <4>1, HeadTailProperties
      <4> QED
        BY <4>2 DEF Event!Published, Event!Violation
    <3>2. Count(stream') = Count(stream) + 1
      <4>1. stream \in Seq(Event!Published) /\ stream' = Append(stream, Head(sending))
        BY <1>3, <2>2 DEF Event!Flush, Event!TypeOK
      <4> QED
        BY <3>1, <4>1, ReportedAppend
    <3>3. /\ sending' = Tail(sending) /\ waiting' = waiting /\ found' = found
          /\ job' = job /\ state = "flushing" /\ state' = state
      BY <1>3, <2>2 DEF Event!Flush
    <3> QED
      BY <1>0, <3>1, <3>2, <3>3, SameCardinality DEF Event!EachIsSomewhere
  <2> QED
    BY <2>1, <2>2
<1>4. CASE Event!Break \/ UNCHANGED Event!vars
  BY <1>4 DEF Event!Break, Event!vars, Event!EachIsSomewhere
<1> QED
  BY <1>1, <1>2, <1>3, <1>4 DEF Event!Next

\* An entry at the end: an agent starts when it is not among those that have.
LEMMA StartedAppend ==
  ASSUME Event!TypeOK, Event!SeenHaveStarted, Event!StartedOnce,
         NEW x \in Event!Published, v7' = Append(v7, x),
         x.type = "AGENT_STARTED" => x.author \notin v4 /\ v4' = v4 \cup {x.author},
         x.type = "AGENT_COMPLETED" => v4' = v4 \ {x.author},
         x.type \notin {"AGENT_STARTED", "AGENT_COMPLETED"} => v4' = v4
  PROVE  Event!SeenHaveStarted' /\ Event!StartedOnce'
<1> DEFINE seen == v4  stream == v7  n == Len(stream)
<1>1. stream \in Seq(Event!Published) /\ n \in Nat /\ DOMAIN stream = 1..n
  BY DEF Event!TypeOK
<1>2. /\ DOMAIN stream' = 1..(n + 1) /\ stream'[n + 1] = x
      /\ \A k \in 1..n : stream'[k] = stream[k]
  BY <1>1
<1>3. x = Event!Entry(x.type, x.author)
  BY DEF Event!Published, Event!Violation, Event!Entry
<1>4. ASSUME NEW a \in Authors, NEW i \in DOMAIN stream',
             stream'[i] = Event!Entry("AGENT_STARTED", a), a \notin seen'
      PROVE  \E k \in DOMAIN stream' :
               k > i /\ stream'[k] = Event!Entry("AGENT_COMPLETED", a)
  <2>1. i \in 1..n
    BY <1>1, <1>2, <1>4 DEF Event!Entry
  <2>2. CASE a \in seen
    <3>1. x.type = "AGENT_COMPLETED" /\ a = x.author
      BY <1>4, <2>2
    <3> QED
      BY <1>1, <1>2, <1>3, <2>1, <3>1
  <2>3. CASE a \notin seen
    <3>1. PICK k \in DOMAIN stream :
            k > i /\ stream[k] = Event!Entry("AGENT_COMPLETED", a)
      BY <1>1, <1>2, <1>4, <2>1, <2>3 DEF Event!SeenHaveStarted
    <3> QED
      BY <1>1, <1>2, <3>1
  <2> QED
    BY <2>2, <2>3
<1>5. ASSUME NEW i \in DOMAIN stream', NEW j \in DOMAIN stream', i < j,
             stream'[i].type = "AGENT_STARTED", stream'[j] = stream'[i]
      PROVE  \E k \in DOMAIN stream' :
               /\ i < k /\ k < j
               /\ stream'[k] = Event!Entry("AGENT_COMPLETED", stream'[i].author)
  <2>1. i \in 1..n /\ stream'[i] = stream[i]
    BY <1>1, <1>2, <1>5
  <2>2. CASE j \in 1..n
    <3>1. PICK k \in DOMAIN stream :
            /\ i < k /\ k < j
            /\ stream[k] = Event!Entry("AGENT_COMPLETED", stream[i].author)
      BY <1>1, <1>2, <1>5, <2>1, <2>2 DEF Event!StartedOnce
    <3> QED
      BY <1>1, <1>2, <2>1, <3>1
  <2>3. CASE j = n + 1
    <3>1. stream[i] = x /\ x.author \in Authors /\ x.author \notin seen
      BY <1>2, <1>5, <2>1, <2>3 DEF Event!Published, Event!Violation
    <3>2. stream[i] = Event!Entry("AGENT_STARTED", x.author)
      BY <1>3, <1>5, <2>1, <3>1
    <3>3. PICK k \in DOMAIN stream :
            k > i /\ stream[k] = Event!Entry("AGENT_COMPLETED", x.author)
      BY <1>1, <2>1, <3>1, <3>2 DEF Event!SeenHaveStarted
    <3>4. k \in 1..n /\ i < k /\ k < j
      BY <1>1, <2>1, <2>3, <3>3
    <3> QED
      BY <1>1, <1>2, <2>1, <3>1, <3>3, <3>4
  <2> QED
    BY <1>1, <1>2, <2>2, <2>3
<1> QED
  BY <1>4, <1>5 DEF Event!SeenHaveStarted, Event!StartedOnce

LEMMA StartedStep ==
  ASSUME Event!TypeOK, Event!SeenHaveStarted, Event!StartedOnce,
         [Event!Next]_(Event!vars)
  PROVE  Event!SeenHaveStarted' /\ Event!StartedOnce'
<1> DEFINE job == v1  seen == v4  sending == v6  stream == v7
<1>1. CASE UNCHANGED <<seen, stream>>
  BY <1>1 DEF Event!SeenHaveStarted, Event!StartedOnce
<1>2. CASE Event!Translate /\ job # "turn"
  <2>1. PICK a \in Authors, e \in Event!Shapes :
          /\ Event!Publish(Event!TypeOf(a, e), a)
          /\ seen' = Event!Seen(Event!TypeOf(a, e), a)
    BY <1>2 DEF Event!Translate
  <2> DEFINE x == Event!Entry(Event!TypeOf(a, e), a)
  <2>2. CASE Event!TypeOf(a, e) = "none"
    BY <1>1, <2>1, <2>2 DEF Event!Publish, Event!Seen
  <2>3. CASE Event!TypeOf(a, e) # "none"
    <3>1. x.type = Event!TypeOf(a, e) /\ x.author = a
      BY DEF Event!Entry
    <3>2. x \in Event!Published
      BY <2>3 DEF Event!TypeOf, Event!Entry, Event!Published
    <3>3. stream' = Append(stream, x)
      BY <2>1, <2>3 DEF Event!Publish
    <3>4. Event!TypeOf(a, e) = "AGENT_STARTED" => a \notin seen
      BY DEF Event!TypeOf
    <3>5. /\ Event!TypeOf(a, e) = "AGENT_STARTED" => seen' = seen \cup {a}
          /\ Event!TypeOf(a, e) = "AGENT_COMPLETED" => seen' = seen \ {a}
          /\ Event!TypeOf(a, e) \notin {"AGENT_STARTED", "AGENT_COMPLETED"} =>
               seen' = seen
      BY <2>1 DEF Event!Seen
    <3> HIDE DEF x
    <3> QED
      BY <3>1, <3>2, <3>3, <3>4, <3>5, StartedAppend
  <2> QED
    BY <2>2, <2>3
<1>3. CASE Event!Flush /\ sending # <<>>
  <2>1. Head(sending) \in Event!Violation
    BY <1>3 DEF Event!TypeOK
  <2>2. Head(sending) \in Event!Published /\ Head(sending).type = "STATE_AUTH"
    BY <2>1 DEF Event!Published, Event!Violation
  <2>3. stream' = Append(stream, Head(sending)) /\ seen' = seen
    BY <1>3 DEF Event!Flush
  <2> QED
    BY <2>2, <2>3, StartedAppend
<1> QED
  BY <1>1, <1>2, <1>3
     DEF Event!Next, Event!Translate, Event!EndAgents, Event!Flush, Event!Break,
         Event!vars

EventInv == part = "events" =>
  /\ Event!TypeOK /\ Event!EachIsSomewhere
  /\ Event!SeenHaveStarted /\ Event!StartedOnce

LEMMA EventInvHolds == Spec => []EventInv
<1>1. Init => EventInv
  <2>1. ASSUME Event!Init
        PROVE  /\ Event!TypeOK /\ Event!EachIsSomewhere
               /\ Event!SeenHaveStarted /\ Event!StartedOnce
    <3>1. Event!Reported(v7) = {}
      BY <2>1 DEF Event!Init, Event!Reported
    <3>3. Cardinality({}) = 0 /\ Len(<<>>) = 0
      BY FS_EmptySet
    <3>2. Event!TypeOK
      BY <2>1, ServicesAssumption DEF Event!Init, Event!TypeOK, Event!StreamAssumption
    <3>4. Event!Cardinality(Event!Reported(v7)) = 0
      BY <3>1, <3>3, SameCardinality
    <3>5. Event!EachIsSomewhere
      BY <2>1, <3>3, <3>4 DEF Event!Init, Event!EachIsSomewhere
    <3> QED
      BY <2>1, <3>2, <3>5 DEF Event!Init, Event!SeenHaveStarted, Event!StartedOnce
  <2> QED
    BY <2>1 DEF Init, EventInv
<1>2. EventInv /\ [Next]_vars => EventInv'
  BY StepOfPart, EventTypeStep, EachIsSomewhereStep, StartedStep DEF EventInv
<1> QED
  BY <1>1, <1>2, PTL DEF Spec

\* Each violation found is in the stream once when a workflow or a session is
\* done, for any agents and any number of events.
THEOREM ViolationsPublishedHolds == Spec => []ViolationsPublished
<1>1. EventInv => ViolationsPublished
  <2> SUFFICES ASSUME Event!TypeOK, Event!EachIsSomewhere PROVE Event!ViolationsPublished
    BY DEF EventInv, ViolationsPublished
  <2>1. Cardinality(Event!Reported(v7)) \in Nat /\ v8 \in Nat
    BY ReportedCount DEF Event!TypeOK
  <2>2. Len(<<>>) = 0
    OBVIOUS
  <2> QED
    BY <2>1, <2>2, SameCardinality DEF Event!EachIsSomewhere, Event!ViolationsPublished
<1> QED
  BY <1>1, EventInvHolds, PTL

\* Between two starts of an agent the stream has an end of it, for any agents
\* and any number of events.
THEOREM StartedOnceHolds == Spec => []StartedOnce
<1>1. EventInv => StartedOnce
  BY DEF EventInv, StartedOnce
<1> QED
  BY <1>1, EventInvHolds, PTL

-----------------------------------------------------------------------------
(***************************************************************************)
(* ContextRecreation.  Its adk is v1, exists v2, writes v3, spent v4, job  *)
(* v5, fresh v6, current v7, groups v8, checkpoint v9, contexts v10 and    *)
(* overlapped v11.                                                         *)
(***************************************************************************)
\* The records of a job and the empty states are of their types.
LEMMA Records ==
  ASSUME Context!RecreationAssumption
  PROVE  /\ Context!Empty \in Context!States /\ Context!NoCheckpoint \in [Context!Shared -> Nat]
         /\ Context!StageCheckpoint \in [Context!Shared -> Nat]
         /\ Context!JobOK(Context!Idle) /\ Context!Idle.at = "idle"
<1>1. Context!Empty \in Context!States /\ Context!NoCheckpoint \in [Context!Shared -> Nat]
  BY DEF Context!Empty, Context!NoCheckpoint, Context!States
<1>2. Context!StageCheckpoint \in [Context!Shared -> Nat]
  BY <1>1 DEF Context!StageCheckpoint, Context!RecreationAssumption, Context!Shared
<1>3. Context!JobOK(Context!Idle) /\ Context!Idle.at = "idle"
  BY <1>1
     DEF Context!Idle, Context!JobOK, Context!JobRecords, Context!Places,
         Context!RecreationAssumption
<1> QED
  BY <1>1, <1>2, <1>3

\* A job's record is replaced by one that is of its type.
LEMMA JobType ==
  ASSUME Context!TypeOK, NEW j \in Jobs, NEW r, Context!JobOK(r),
         v5' = [v5 EXCEPT ![j] = r]
  PROVE  /\ v5' \in [Jobs -> Context!JobRecords]
         /\ \A i \in Jobs : Context!JobOK(v5'[i])
         /\ v5'[j] = r
         /\ \A i \in Jobs \ {j} : v5'[i] = v5[i]
<1>1. v5 \in [Jobs -> Context!JobRecords] /\ r \in Context!JobRecords
  BY DEF Context!TypeOK, Context!JobOK
<1>2. /\ v5' \in [Jobs -> Context!JobRecords] /\ v5'[j] = r
      /\ \A i \in Jobs \ {j} : v5'[i] = v5[i]
  BY <1>1
<1> QED
  BY <1>2 DEF Context!TypeOK

\* A job goes to another place.
LEMMA GoesType ==
  ASSUME Context!TypeOK, NEW j \in Jobs, NEW at \in Context!Places, Context!Goes(j, at),
         at \in {"state", "checkpoint", "batches"} => v5[j].group # 0
  PROVE  /\ v5' \in [Jobs -> Context!JobRecords]
         /\ \A i \in Jobs : Context!JobOK(v5'[i])
         /\ v5'[j] = [v5[j] EXCEPT !.at = at]
         /\ \A i \in Jobs \ {j} : v5'[i] = v5[i]
<1>1. Context!JobOK([v5[j] EXCEPT !.at = at])
  BY DEF Context!TypeOK, Context!JobOK, Context!JobRecords
<1>2. v5' = [v5 EXCEPT ![j] = [v5[j] EXCEPT !.at = at]]
  BY DEF Context!Goes
<1> QED
  BY <1>1, <1>2, JobType

\* The initial states have the types.
LEMMA ContextTypeInit ==
  ASSUME Context!RecreationAssumption, Context!Init
  PROVE  Context!TypeOK
<1>1. /\ v5 \in [Jobs -> Context!JobRecords] /\ \A j \in Jobs : Context!JobOK(v5[j])
      /\ v6 \in [Jobs -> Context!States]
  BY Records DEF Context!Init, Context!JobOK
<1>2. [saved |-> FALSE, of |-> Context!NoCheckpoint] \in Context!Checkpoints
  BY Records DEF Context!Checkpoints
<1>3. v9 \in [1..MaxGroups -> Context!Checkpoints]
  BY <1>2 DEF Context!Init
<1>4. v8 \in 0..MaxGroups /\ v7 \in 0..v8
  BY DEF Context!Init, Context!RecreationAssumption
<1> QED
  BY <1>1, <1>3, <1>4, Records DEF Context!Init, Context!TypeOK

\* Types after each action, and what it makes of its job.  Ends leaves it idle.
LEMMA EndsType ==
  ASSUME Context!RecreationAssumption, Context!TypeOK, NEW j \in Jobs, Context!Ends(j)
  PROVE  Context!TypeOK' /\ v5'[j] = Context!Idle /\ \A i \in Jobs \ {j} : v5'[i] = v5[i]
<1>1. /\ v5' \in [Jobs -> Context!JobRecords] /\ \A i \in Jobs : Context!JobOK(v5'[i])
      /\ v5'[j] = Context!Idle /\ \A i \in Jobs \ {j} : v5'[i] = v5[i]
  BY Records, JobType DEF Context!Ends
<1> QED
  BY <1>1 DEF Context!Ends, Context!TypeOK, Context!JobOK

\* Open: the job is among the agents, and the state has its limits.
LEMMA OpenType ==
  ASSUME Context!RecreationAssumption, Context!TypeOK, NEW j \in Jobs, Context!Open(j)
  PROVE  /\ Context!TypeOK'
         /\ v5'[j].at = "agents" /\ \A i \in Jobs \ {j} : v5'[i] = v5[i]
         /\ IF v2 THEN v1' = v1 ELSE v1'["project_config"] = v3 + 1
<1> DEFINE r == [Context!Idle EXCEPT !.at = "agents", !.id = "work"]
<1>1. Context!JobOK(r) /\ r.at = "agents"
  BY Records DEF Context!JobOK, Context!JobRecords, Context!Places
<1>2. v5' = [v5 EXCEPT ![j] = r]
  BY DEF Context!Open
<1> HIDE DEF r
<1>3. /\ v5' \in [Jobs -> Context!JobRecords] /\ \A i \in Jobs : Context!JobOK(v5'[i])
      /\ v5'[j] = r /\ \A i \in Jobs \ {j} : v5'[i] = v5[i]
  BY <1>1, <1>2, JobType
<1>4. /\ v3' \in Nat /\ v1' \in Context!States
      /\ IF v2 THEN v1' = v1 ELSE v1'["project_config"] = v3 + 1
  <2>1. CASE v2
    BY <2>1 DEF Context!Open, Context!TypeOK
  <2>2. CASE ~v2
    <3>1. /\ v3' = v3 + 1
          /\ v1' = [Context!Empty EXCEPT !["project_config"] = v3 + 1, !["workflow_id"] = v3 + 1]
      BY <2>2 DEF Context!Open
    <3>2. v3' \in Nat /\ v3 + 1 \in Nat
      BY <3>1 DEF Context!TypeOK
    <3>3. v1' \in Context!States /\ v1'["project_config"] = v3 + 1
      BY <3>1, <3>2, Records DEF Context!States, Context!Keys
    <3> QED
      BY <2>2, <3>2, <3>3
  <2> QED
    BY <2>1, <2>2
<1>5. v6' \in [Jobs -> Context!States] /\ v11' \subseteq Jobs /\ v2' \in BOOLEAN
  BY Records DEF Context!Open, Context!TypeOK, Context!Live
<1> QED
  BY <1>1, <1>3, <1>4, <1>5 DEF Context!Open, Context!TypeOK, Context!JobOK

\* WriteState moves no job and leaves the limits.
LEMMA WriteStateType ==
  ASSUME Context!TypeOK, NEW j \in Jobs, NEW k \in Context!Keys,
         Context!WriteState(j, k)
  PROVE  Context!TypeOK' /\ v5' = v5 /\ v1'["project_config"] = v1["project_config"]
<1>1. /\ v3' \in Nat /\ v1' \in Context!States /\ v4' \in Nat
      /\ v1'["project_config"] = v1["project_config"]
  BY DEF Context!WriteState, Context!TypeOK, Context!States, Context!Keys
<1> QED
  BY <1>1 DEF Context!WriteState, Context!TypeOK, Context!JobOK

\* BlockPm leaves the limits.
LEMMA BlockPmType ==
  ASSUME Context!TypeOK, NEW j \in Jobs, Context!BlockPm(j)
  PROVE  /\ Context!TypeOK' /\ v1'["project_config"] = v1["project_config"]
         /\ v5'[j].at = "stages" /\ \A i \in Jobs \ {j} : v5'[i] = v5[i]
<1>1. /\ v3' \in Nat /\ v1' \in Context!States /\ v1'["project_config"] = v1["project_config"]
  BY DEF Context!BlockPm, Context!TypeOK, Context!States, Context!Keys
<1>2. /\ v5' \in [Jobs -> Context!JobRecords] /\ \A i \in Jobs : Context!JobOK(v5'[i])
      /\ v5'[j] = [v5[j] EXCEPT !.at = "stages"] /\ \A i \in Jobs \ {j} : v5'[i] = v5[i]
  BY GoesType DEF Context!BlockPm, Context!Places
<1>3. v5'[j].at = "stages"
  BY <1>2 DEF Context!TypeOK, Context!JobRecords
<1> QED
  BY <1>1, <1>2, <1>3 DEF Context!BlockPm, Context!TypeOK, Context!JobOK

\* EndAgents goes to the stages or to the recreation.
LEMMA EndAgentsType ==
  ASSUME Context!TypeOK, NEW j \in Jobs, Context!EndAgents(j)
  PROVE  /\ Context!TypeOK'
         /\ v5'[j].at \in {"stages", "group"} /\ \A i \in Jobs \ {j} : v5'[i] = v5[i]
<1>1. PICK at \in {"stages", "group"} : Context!Goes(j, at)
  BY DEF Context!EndAgents
<1>2. /\ v5' \in [Jobs -> Context!JobRecords] /\ \A i \in Jobs : Context!JobOK(v5'[i])
      /\ v5'[j] = [v5[j] EXCEPT !.at = at] /\ \A i \in Jobs \ {j} : v5'[i] = v5[i]
  BY <1>1, GoesType DEF Context!Places
<1>3. v5'[j].at = at
  BY <1>2 DEF Context!TypeOK, Context!JobRecords
<1> QED
  BY <1>2, <1>3 DEF Context!EndAgents, Context!TypeOK, Context!JobOK

\* LoadGroup: without a taskgroup there is nothing to checkpoint.
LEMMA LoadGroupType ==
  ASSUME Context!RecreationAssumption, Context!TypeOK, NEW j \in Jobs,
         Context!LoadGroup(j)
  PROVE  /\ Context!TypeOK' /\ \A i \in Jobs \ {j} : v5'[i] = v5[i]
         /\ \/ v5'[j].at = "state"
            \/ v5'[j].at = "old" /\ v5'[j].group = 0
<1> DEFINE at == IF v7 = 0 THEN "old" ELSE "state"
           r == [v5[j] EXCEPT !.at = at, !.group = v7]
<1>1. v7 \in 0..MaxGroups
  BY DEF Context!TypeOK, Context!RecreationAssumption
<1>2. /\ at \in {"old", "state"}
      /\ at = "state" => v7 # 0
      /\ at = "old" => v7 = 0
  OBVIOUS
<1> HIDE DEF at
<1>3. r \in Context!JobRecords /\ r.at = at /\ r.group = v7
  BY <1>1, <1>2 DEF Context!TypeOK, Context!JobRecords, Context!Places
<1>4. Context!JobOK(r)
  BY <1>2, <1>3 DEF Context!JobOK
<1>5. v5' = [v5 EXCEPT ![j] = r]
  BY DEF Context!LoadGroup, at
<1> HIDE DEF r
<1>6. /\ v5' \in [Jobs -> Context!JobRecords] /\ \A i \in Jobs : Context!JobOK(v5'[i])
      /\ v5'[j] = r /\ \A i \in Jobs \ {j} : v5'[i] = v5[i]
  BY <1>4, <1>5, JobType
<1>7. Context!TypeOK'
  BY <1>6 DEF Context!LoadGroup, Context!TypeOK, Context!JobOK
<1> QED
  BY <1>2, <1>3, <1>6, <1>7

\* LoadState and LoadOld: the copy is the state.
LEMMA LoadStateType ==
  ASSUME Context!TypeOK, NEW j \in Jobs, Context!LoadState(j) \/ Context!LoadOld(j)
  PROVE  /\ Context!TypeOK' /\ \A i \in Jobs \ {j} : v5'[i] = v5[i]
         /\ v5'[j].copy = v1 /\ v5'[j].group = v5[j].group
         /\ v5'[j].at = IF v5[j].at = "state" THEN "checkpoint" ELSE "merge"
<1> DEFINE at == IF v5[j].at = "state" THEN "checkpoint" ELSE "merge"
           r == [v5[j] EXCEPT !.at = at, !.copy = v1]
<1>1. /\ at \in {"checkpoint", "merge"}
      /\ at = "checkpoint" => v5[j].at = "state"
  OBVIOUS
<1>2. v5' = [v5 EXCEPT ![j] = r]
  BY DEF Context!LoadState, Context!LoadOld
<1>3. v5[j] \in Context!JobRecords /\ Context!JobOK(v5[j]) /\ v1 \in Context!States
  BY DEF Context!TypeOK
<1>at. at = IF v5[j].at = "state" THEN "checkpoint" ELSE "merge"
  OBVIOUS
<1> HIDE DEF at
<1>4. /\ r \in Context!JobRecords /\ r.at = at /\ r.copy = v1 /\ r.group = v5[j].group
  BY <1>1, <1>3 DEF Context!JobRecords, Context!Places
<1>5. Context!JobOK(r)
  BY <1>1, <1>3, <1>4 DEF Context!JobOK
<1> HIDE DEF r
<1>6. /\ v5' \in [Jobs -> Context!JobRecords] /\ \A i \in Jobs : Context!JobOK(v5'[i])
      /\ v5'[j] = r /\ \A i \in Jobs \ {j} : v5'[i] = v5[i]
  BY <1>2, <1>5, JobType
<1>7. Context!TypeOK'
  BY <1>6 DEF Context!LoadState, Context!LoadOld, Context!TypeOK, Context!JobOK
<1> QED
  BY <1>4, <1>6, <1>7, <1>at

\* CheckpointTaskgroup: what is saved is the copy.
LEMMA CheckpointTaskgroupType ==
  ASSUME Context!TypeOK, NEW j \in Jobs, Context!CheckpointTaskgroup(j)
  PROVE  /\ Context!TypeOK' /\ \A i \in Jobs \ {j} : v5'[i] = v5[i]
         /\ v5'[j].at = "old" /\ v5'[j].group = v5[j].group
         /\ v9'[v5[j].group].saved
         /\ \A k \in Context!Shared : v9'[v5[j].group].of[k] = v5[j].copy[k]
<1> DEFINE g == v5[j].group
           c == [saved |-> TRUE, of |-> [k \in Context!Shared |-> v5[j].copy[k]]]
<1>1. v5[j] \in Context!JobRecords /\ Context!JobOK(v5[j])
  BY DEF Context!TypeOK
<1>2. g \in 1..MaxGroups /\ v5[j].copy \in Context!States
  BY <1>1 DEF Context!JobOK, Context!JobRecords, Context!CheckpointTaskgroup
<1>3. c \in Context!Checkpoints /\ c.saved /\ \A k \in Context!Shared : c.of[k] = v5[j].copy[k]
  BY <1>2 DEF Context!Checkpoints, Context!States, Context!Shared, Context!Keys
<1>4. v9' \in [1..MaxGroups -> Context!Checkpoints] /\ v9'[g] = c
  BY <1>2, <1>3 DEF Context!CheckpointTaskgroup, Context!TypeOK
<1>5. /\ v5' \in [Jobs -> Context!JobRecords] /\ \A i \in Jobs : Context!JobOK(v5'[i])
      /\ v5'[j] = [v5[j] EXCEPT !.at = "old"] /\ \A i \in Jobs \ {j} : v5'[i] = v5[i]
  BY GoesType DEF Context!CheckpointTaskgroup, Context!Places
<1>6. v5'[j].at = "old" /\ v5'[j].group = g
  BY <1>1, <1>5 DEF Context!JobRecords
<1>7. Context!TypeOK'
  BY <1>4, <1>5 DEF Context!CheckpointTaskgroup, Context!TypeOK, Context!JobOK
<1> QED
  BY <1>3, <1>4, <1>5, <1>6, <1>7

\* Merge: each value is the checkpoint's or the copy's.
LEMMA MergeType ==
  ASSUME Context!TypeOK, NEW j \in Jobs, Context!Merge(j)
  PROVE  /\ Context!TypeOK' /\ \A i \in Jobs \ {j} : v5'[i] = v5[i]
         /\ v5'[j].at = "create"
         /\ \A k \in Context!Keys :
              \/ v5'[j].copy[k] = v5[j].copy[k]
              \/ /\ k \in Context!Shared /\ v5[j].group # 0
                 /\ v5'[j].copy[k] = v9[v5[j].group].of[k]
<1> DEFINE g == v5[j].group
           ckpt == IF g # 0 /\ v9[g].saved THEN Context!Shared ELSE {}
           m == [k \in Context!Keys |-> IF k \in ckpt THEN v9[g].of[k] ELSE v5[j].copy[k]]
           r == [v5[j] EXCEPT !.at = "create", !.copy = m]
<1>1. v5[j] \in Context!JobRecords /\ g \in 0..MaxGroups /\ v5[j].copy \in Context!States
  BY DEF Context!TypeOK, Context!JobRecords
<1>2. ckpt \subseteq Context!Shared /\ (ckpt # {} => g # 0)
  OBVIOUS
<1>3. \A k \in ckpt : v9[g].of[k] \in Nat
  BY <1>1, <1>2 DEF Context!TypeOK, Context!Checkpoints
<1>4. v5' = [v5 EXCEPT ![j] = r]
  BY <1>1 DEF Context!Merge, Context!JobRecords, Context!TypeOK
<1> HIDE DEF ckpt
<1>5. m \in Context!States
  BY <1>1, <1>3 DEF Context!States
<1>6. \A k \in Context!Keys :
        \/ m[k] = v5[j].copy[k]
        \/ k \in Context!Shared /\ g # 0 /\ m[k] = v9[g].of[k]
  BY <1>2
<1> HIDE DEF m
<1>7. r \in Context!JobRecords /\ r.at = "create" /\ r.copy = m
  BY <1>1, <1>5 DEF Context!JobRecords, Context!Places
<1>8. Context!JobOK(r)
  BY <1>7 DEF Context!JobOK
<1> HIDE DEF r
<1>9. /\ v5' \in [Jobs -> Context!JobRecords] /\ \A i \in Jobs : Context!JobOK(v5'[i])
      /\ v5'[j] = r /\ \A i \in Jobs \ {j} : v5'[i] = v5[i]
  BY <1>4, <1>8, JobType
<1>10. Context!TypeOK'
  <2>1. UNCHANGED <<v1, v2, v3, v4, v6, v7, v8, v9, v10, v11>>
    BY DEF Context!Merge
  <2> QED
    BY <1>9, <2>1 DEF Context!TypeOK
<1> QED
  BY <1>6, <1>7, <1>9, <1>10

\* CreateFresh: the fresh session gets the critical keys of the copy.
LEMMA CreateFreshType ==
  ASSUME Context!TypeOK, NEW j \in Jobs, Context!CreateFresh(j)
  PROVE  /\ Context!TypeOK' /\ \A i \in Jobs \ {j} : v5'[i] = v5[i]
         /\ v5'[j].at = "created"
         /\ \A k \in Context!Critical : v6'[j][k] = v5[j].copy[k]
<1> DEFINE f == [k \in Context!Keys |-> IF k \in Context!Critical THEN v5[j].copy[k] ELSE 0]
<1>1. v5[j] \in Context!JobRecords /\ v5[j].copy \in Context!States
  BY DEF Context!TypeOK, Context!JobRecords
<1>2. f \in Context!States /\ \A k \in Context!Critical : f[k] = v5[j].copy[k]
  BY <1>1 DEF Context!States, Context!Critical
<1>3. v6' \in [Jobs -> Context!States] /\ v6'[j] = f
  BY <1>2 DEF Context!CreateFresh, Context!TypeOK
<1>4. /\ v5' \in [Jobs -> Context!JobRecords] /\ \A i \in Jobs : Context!JobOK(v5'[i])
      /\ v5'[j] = [v5[j] EXCEPT !.at = "created"] /\ \A i \in Jobs \ {j} : v5'[i] = v5[i]
  BY GoesType DEF Context!CreateFresh, Context!Places
<1>5. v5'[j].at = "created"
  BY <1>1, <1>4 DEF Context!JobRecords
<1>6. Context!TypeOK'
  BY <1>3, <1>4 DEF Context!CreateFresh, Context!TypeOK, Context!JobOK
<1> QED
  BY <1>2, <1>3, <1>4, <1>5, <1>6

\* MoveContext: the tool context is the job's.
LEMMA MoveContextType ==
  ASSUME Context!TypeOK, NEW j \in Jobs, Context!MoveContext(j)
  PROVE  /\ Context!TypeOK' /\ \A i \in Jobs \ {j} : v5'[i] = v5[i]
         /\ v5'[j].at = "recreated" /\ j \in v10'
<1> DEFINE r == [v5[j] EXCEPT !.at = "recreated", !.id = "fresh"]
<1>1. v5[j] \in Context!JobRecords
  BY DEF Context!TypeOK
<1>2. r \in Context!JobRecords /\ r.at = "recreated"
  BY <1>1 DEF Context!JobRecords, Context!Places
<1>3. Context!JobOK(r)
  BY <1>2 DEF Context!JobOK
<1>4. v5' = [v5 EXCEPT ![j] = r]
  BY DEF Context!MoveContext
<1> HIDE DEF r
<1>5. /\ v5' \in [Jobs -> Context!JobRecords] /\ \A i \in Jobs : Context!JobOK(v5'[i])
      /\ v5'[j] = r /\ \A i \in Jobs \ {j} : v5'[i] = v5[i]
  BY <1>3, <1>4, JobType
<1>6. Context!TypeOK' /\ j \in v10'
  BY <1>5 DEF Context!MoveContext, Context!TypeOK, Context!JobOK
<1> QED
  BY <1>2, <1>5, <1>6

\* CreateTaskgroup: the new row is the current one.
LEMMA CreateTaskgroupType ==
  ASSUME Context!RecreationAssumption, Context!TypeOK, NEW j \in Jobs,
         Context!CreateTaskgroup(j)
  PROVE  /\ Context!TypeOK' /\ \A i \in Jobs \ {j} : v5'[i] = v5[i]
         /\ v5'[j].at = "batches"
<1> DEFINE g == v8 + 1
           r == [v5[j] EXCEPT !.at = "batches", !.group = g]
<1>1. /\ v5[j] \in Context!JobRecords
      /\ v8 + 1 \in 1..MaxGroups /\ g \in 0..MaxGroups /\ g # 0
  BY DEF Context!TypeOK, Context!CreateTaskgroup, Context!RecreationAssumption
<1>g. v8' = g
  BY DEF Context!CreateTaskgroup
<1> HIDE DEF g
<1>2. r \in Context!JobRecords /\ r.at = "batches" /\ r.group # 0
  BY <1>1 DEF Context!JobRecords, Context!Places
<1>3. Context!JobOK(r)
  BY <1>2 DEF Context!JobOK
<1>4. v5' = [v5 EXCEPT ![j] = r]
  BY <1>g DEF Context!CreateTaskgroup
<1> HIDE DEF r
<1>5. /\ v5' \in [Jobs -> Context!JobRecords] /\ \A i \in Jobs : Context!JobOK(v5'[i])
      /\ v5'[j] = r /\ \A i \in Jobs \ {j} : v5'[i] = v5[i]
  BY <1>3, <1>4, JobType
<1>6. v8' \in 0..MaxGroups /\ v7' \in 0..v8'
  BY <1>1 DEF Context!CreateTaskgroup, Context!TypeOK, Context!RecreationAssumption
<1>7. Context!TypeOK'
  BY <1>5, <1>6 DEF Context!CreateTaskgroup, Context!TypeOK, Context!JobOK
<1> QED
  BY <1>2, <1>5, <1>7

\* CheckpointStage goes back to the stages.
LEMMA CheckpointStageType ==
  ASSUME Context!RecreationAssumption, Context!TypeOK, NEW j \in Jobs,
         Context!CheckpointStage(j)
  PROVE  /\ Context!TypeOK' /\ \A i \in Jobs \ {j} : v5'[i] = v5[i]
         /\ v5'[j].at = "stages"
<1>1. v5[j] \in Context!JobRecords /\ v5[j].group \in 0..MaxGroups /\ v5[j].group # 0
  BY DEF Context!TypeOK, Context!JobOK, Context!JobRecords, Context!CheckpointStage
<1>2. [saved |-> TRUE, of |-> Context!StageCheckpoint] \in Context!Checkpoints
  BY Records DEF Context!Checkpoints
<1>3. v9' \in [1..MaxGroups -> Context!Checkpoints]
  BY <1>1, <1>2 DEF Context!CheckpointStage, Context!TypeOK
<1>4. /\ v5' \in [Jobs -> Context!JobRecords] /\ \A i \in Jobs : Context!JobOK(v5'[i])
      /\ v5'[j] = [v5[j] EXCEPT !.at = "stages"] /\ \A i \in Jobs \ {j} : v5'[i] = v5[i]
  BY GoesType DEF Context!CheckpointStage, Context!Places
<1>5. v5'[j].at = "stages"
  BY <1>1, <1>4 DEF Context!JobRecords
<1>6. Context!TypeOK'
  BY <1>3, <1>4 DEF Context!CheckpointStage, Context!TypeOK, Context!JobOK
<1> QED
  BY <1>4, <1>5, <1>6

\* WorkerDies: all jobs are idle.
LEMMA WorkerDiesType ==
  ASSUME Context!RecreationAssumption, Context!TypeOK, Context!WorkerDies
  PROVE  Context!TypeOK' /\ \A j \in Jobs : v5'[j].at = "idle"
<1>1. /\ v5' \in [Jobs -> Context!JobRecords] /\ \A j \in Jobs : Context!JobOK(v5'[j])
      /\ \A j \in Jobs : v5'[j].at = "idle"
  BY Records DEF Context!WorkerDies, Context!JobOK
<1> QED
  BY <1>1 DEF Context!WorkerDies, Context!TypeOK, Context!JobOK

\* The types are kept by every step.
LEMMA ContextTypeStep ==
  ASSUME Context!RecreationAssumption, Context!TypeOK, [Context!Next]_(Context!vars)
  PROVE  Context!TypeOK'
<1>1. ASSUME NEW j \in Jobs, NEW k \in Context!Keys, Context!WriteState(j, k)
      PROVE  Context!TypeOK'
  BY <1>1, WriteStateType
<1>2. ASSUME NEW j \in Jobs, Context!Open(j)
      PROVE  Context!TypeOK'
  BY <1>2, OpenType
<1>3. ASSUME NEW j \in Jobs, Context!BlockPm(j) \/ Context!EndAgents(j)
      PROVE  Context!TypeOK'
  BY <1>3, BlockPmType, EndAgentsType
<1>4. ASSUME NEW j \in Jobs,
             Context!LoadGroup(j) \/ Context!LoadState(j) \/ Context!LoadOld(j)
      PROVE  Context!TypeOK'
  BY <1>4, LoadGroupType, LoadStateType
<1>5. ASSUME NEW j \in Jobs,
             Context!CheckpointTaskgroup(j) \/ Context!Merge(j) \/
             Context!CreateFresh(j) \/ Context!MoveContext(j)
      PROVE  Context!TypeOK'
  BY <1>5, CheckpointTaskgroupType, MergeType, CreateFreshType, MoveContextType
<1>6. ASSUME NEW j \in Jobs, Context!RecreationFails(j) \/ Context!Close(j)
      PROVE  Context!TypeOK'
  BY <1>6, EndsType DEF Context!RecreationFails, Context!Close
<1>7. ASSUME NEW j \in Jobs, Context!CreateTaskgroup(j) \/ Context!CheckpointStage(j)
      PROVE  Context!TypeOK'
  BY <1>7, CreateTaskgroupType, CheckpointStageType
<1>8. CASE Context!WorkerDies
  BY <1>8, WorkerDiesType
<1>9. CASE UNCHANGED Context!vars
  BY <1>9 DEF Context!vars, Context!TypeOK, Context!JobOK
<1> QED
  BY <1>1, <1>2, <1>3, <1>4, <1>5, <1>6, <1>7, <1>8, <1>9 DEF Context!Next

\* When a job that runs steps, the others that none overlaps are idle.
LEMMA AloneSteps ==
  ASSUME Context!LatestInv, NEW j \in Jobs, v5[j].at # "idle",
         \A i \in Jobs \ {j} : v5'[i] = v5[i],
         v11' = v11, v2' = v2,
         v1'["project_config"] = v1["project_config"] \/ v1'["project_config"] # 0,
         j \notin v11 => Context!Grounded(j)'
  PROVE  Context!LatestInv'
<1>1. Context!Sole'
  BY DEF Context!LatestInv, Context!Sole
<1>2. Context!Limited'
  BY DEF Context!LatestInv, Context!Limited
<1>3. ASSUME NEW i \in Jobs \ v11', i # j
      PROVE  Context!Grounded(i)'
  <2>1. v5'[i].at = "idle"
    BY <1>3 DEF Context!LatestInv, Context!Sole
  <2> QED
    BY <2>1 DEF Context!Grounded
<1> QED
  BY <1>1, <1>2, <1>3 DEF Context!LatestInv

\* A session is opened: a job that was alone no longer is.
LEMMA LatestOpen ==
  ASSUME Context!RecreationAssumption, Context!TypeOK, Context!LatestInv,
         NEW j \in Jobs, Context!Open(j)
  PROVE  Context!LatestInv'
<1>1. /\ v5'[j].at = "agents" /\ \A i \in Jobs \ {j} : v5'[i] = v5[i]
      /\ v2' /\ v5[j].at = "idle"
  BY OpenType DEF Context!Open
<1>2. v1'["project_config"] # 0
  BY OpenType DEF Context!LatestInv, Context!Limited, Context!TypeOK
<1>3. Context!Limited'
  BY <1>1, <1>2 DEF Context!Limited
<1>4. \A i \in Jobs \ {j} : i \notin v11' => v5'[i].at = "idle"
  BY <1>1 DEF Context!Open, Context!Live
<1>5. ASSUME j \notin v11'
      PROVE  \A i \in Jobs \ {j} : v5'[i].at = "idle"
  BY <1>1, <1>5 DEF Context!Open, Context!Live
<1>6. Context!Sole'
  BY <1>4, <1>5 DEF Context!Sole
<1>7. ASSUME NEW i \in Jobs \ v11'
      PROVE  Context!Grounded(i)'
  BY <1>1, <1>4 DEF Context!Grounded
<1> QED
  BY <1>3, <1>6, <1>7 DEF Context!LatestInv

\* The invariant is kept by every step.
LEMMA LatestStep ==
  ASSUME Context!RecreationAssumption, Context!TypeOK, Context!LatestInv,
         [Context!Next]_(Context!vars)
  PROVE  Context!LatestInv'
<1> DEFINE Alone(j) == /\ v5[j].at # "idle"
                       /\ \A i \in Jobs \ {j} : v5'[i] = v5[i]
                       /\ v11' = v11 /\ v2' = v2
                       /\ v1'["project_config"] = v1["project_config"]
<1> HIDE DEF Alone
<1>0. ASSUME NEW j \in Jobs, Alone(j), j \notin v11 => Context!Grounded(j)'
      PROVE  Context!LatestInv'
  BY <1>0, AloneSteps DEF Alone
<1>1. ASSUME NEW j \in Jobs, NEW k \in Context!Keys, Context!WriteState(j, k)
      PROVE  Context!LatestInv'
  <2>1. Alone(j)
    BY <1>1, WriteStateType DEF Context!WriteState, Alone
  <2>2. Context!Grounded(j)'
    BY <1>1 DEF Context!WriteState, Context!Grounded
  <2> QED
    BY <1>0, <2>1, <2>2
<1>2. ASSUME NEW j \in Jobs, Context!Open(j)
      PROVE  Context!LatestInv'
  BY <1>2, LatestOpen
<1>3. ASSUME NEW j \in Jobs, Context!BlockPm(j) \/ Context!EndAgents(j)
      PROVE  Context!LatestInv'
  <2>1. Alone(j)
    BY <1>3, BlockPmType, EndAgentsType DEF Context!BlockPm, Context!EndAgents, Alone
  <2>2. Context!Grounded(j)'
    BY <1>3, BlockPmType, EndAgentsType DEF Context!Grounded
  <2> QED
    BY <1>0, <2>1, <2>2
<1>4. ASSUME NEW j \in Jobs, Context!LoadGroup(j)
      PROVE  Context!LatestInv'
  <2>1. Alone(j)
    BY <1>4, LoadGroupType DEF Context!LoadGroup, Alone
  <2>2. Context!Grounded(j)'
    BY <1>4, LoadGroupType DEF Context!Grounded
  <2> QED
    BY <1>0, <2>1, <2>2
<1>5. ASSUME NEW j \in Jobs, Context!LoadState(j) \/ Context!LoadOld(j)
      PROVE  Context!LatestInv'
  <2>1. Alone(j) /\ v1' = v1 /\ v9' = v9
    BY <1>5, LoadStateType DEF Context!LoadState, Context!LoadOld, Alone
  <2>2. ASSUME j \notin v11
        PROVE  Context!Grounded(j)'
    <3>1. Context!Grounded(j)
      BY <2>2 DEF Context!LatestInv
    <3>2. CASE Context!LoadState(j)
      <4>1. v5'[j].at = "checkpoint" /\ v5'[j].copy = v1
        BY <3>2, LoadStateType DEF Context!LoadState
      <4> QED
        BY <2>1, <4>1 DEF Context!Grounded
    <3>3. CASE Context!LoadOld(j)
      <4>1. /\ v5'[j].at = "merge" /\ v5'[j].copy = v1
            /\ v5'[j].group = v5[j].group /\ v5[j].at = "old"
        BY <3>3, LoadStateType DEF Context!LoadOld
      <4>2. v5'[j].group = 0 \/ Context!Agrees(v5'[j].group)
        BY <3>1, <4>1 DEF Context!Grounded
      <4> QED
        BY <2>1, <4>1, <4>2 DEF Context!Grounded, Context!Agrees
    <3> QED
      BY <1>5, <3>2, <3>3
  <2> QED
    BY <1>0, <2>1, <2>2
<1>6. ASSUME NEW j \in Jobs, Context!CheckpointTaskgroup(j)
      PROVE  Context!LatestInv'
  <2>1. Alone(j) /\ v1' = v1
    BY <1>6, CheckpointTaskgroupType DEF Context!CheckpointTaskgroup, Alone
  <2>2. ASSUME j \notin v11
        PROVE  Context!Grounded(j)'
    <3>1. v5[j].copy = v1
      BY <1>6, <2>2 DEF Context!LatestInv, Context!Grounded, Context!CheckpointTaskgroup
    <3>2. /\ v5'[j].at = "old" /\ v5'[j].group = v5[j].group
          /\ v9'[v5[j].group].saved
          /\ \A k \in Context!Shared : v9'[v5[j].group].of[k] = v1[k]
      BY <1>6, <3>1, CheckpointTaskgroupType
    <3>3. Context!Agrees(v5[j].group)'
      BY <2>1, <3>2 DEF Context!Agrees
    <3> QED
      BY <3>2, <3>3, SMTT(20) DEF Context!Grounded, Context!Agrees
  <2> QED
    BY <1>0, <2>1, <2>2
<1>7. ASSUME NEW j \in Jobs, Context!Merge(j)
      PROVE  Context!LatestInv'
  <2>1. Alone(j) /\ v1' = v1
    BY <1>7, MergeType DEF Context!Merge, Alone
  <2>2. ASSUME j \notin v11
        PROVE  Context!Grounded(j)'
    <3>1. v5[j].copy = v1 /\ (v5[j].group = 0 \/ Context!Agrees(v5[j].group))
      BY <1>7, <2>2 DEF Context!LatestInv, Context!Grounded, Context!Merge
    <3>2. \A k \in Context!Keys : v5'[j].copy[k] = v1[k]
      BY <1>7, <3>1, MergeType DEF Context!Agrees
    <3>3. v5'[j].at = "create"
      BY <1>7, MergeType
    <3> QED
      BY <2>1, <3>2, <3>3 DEF Context!Grounded
  <2> QED
    BY <1>0, <2>1, <2>2
<1>8. ASSUME NEW j \in Jobs, Context!CreateFresh(j)
      PROVE  Context!LatestInv'
  <2>1. Alone(j) /\ v1' = v1
    BY <1>8, CreateFreshType DEF Context!CreateFresh, Alone
  <2>2. ASSUME j \notin v11
        PROVE  Context!Grounded(j)'
    <3>1. \A k \in Context!Keys : v5[j].copy[k] = v1[k]
      BY <1>8, <2>2 DEF Context!LatestInv, Context!Grounded, Context!CreateFresh
    <3>2. \A k \in Context!Critical : v6'[j][k] = v1[k]
      BY <1>8, <3>1, CreateFreshType DEF Context!Critical
    <3>3. v5'[j].at = "created"
      BY <1>8, CreateFreshType
    <3> QED
      BY <2>1, <3>2, <3>3 DEF Context!Grounded, Context!Carried
  <2> QED
    BY <1>0, <2>1, <2>2
<1>9. ASSUME NEW j \in Jobs, Context!MoveContext(j)
      PROVE  Context!LatestInv'
  <2>1. Alone(j) /\ v1' = v1 /\ v6' = v6
    BY <1>9, MoveContextType DEF Context!MoveContext, Alone
  <2>2. ASSUME j \notin v11
        PROVE  Context!Grounded(j)'
    <3>1. \A k \in Context!Critical : v6'[j][k] = v1'[k]
      BY <1>9, <2>1, <2>2
         DEF Context!LatestInv, Context!Grounded, Context!MoveContext,
             Context!Carried
    <3>2. v5'[j].at = "recreated" /\ j \in v10'
      BY <1>9, MoveContextType
    <3> QED
      BY <3>1, <3>2 DEF Context!Grounded, Context!Carried
  <2> QED
    BY <1>0, <2>1, <2>2
<1>10. ASSUME NEW j \in Jobs, Context!RecreationFails(j) \/ Context!Close(j)
      PROVE  Context!LatestInv'
  <2>1. Context!Ends(j) /\ v5[j].at # "idle"
    BY <1>10 DEF Context!RecreationFails, Context!Close
  <2>2. Alone(j) /\ v5'[j].at = "idle"
    BY <2>1, EndsType, Records DEF Context!Ends, Alone
  <2>3. Context!Grounded(j)'
    BY <2>2 DEF Context!Grounded
  <2> QED
    BY <1>0, <2>2, <2>3
<1>11. ASSUME NEW j \in Jobs, Context!CreateTaskgroup(j) \/ Context!CheckpointStage(j)
      PROVE  Context!LatestInv'
  <2>1. Alone(j)
    BY <1>11, CreateTaskgroupType, CheckpointStageType
       DEF Context!CreateTaskgroup, Context!CheckpointStage, Alone
  <2>2. Context!Grounded(j)'
    BY <1>11, CreateTaskgroupType, CheckpointStageType DEF Context!Grounded
  <2> QED
    BY <1>0, <2>1, <2>2
<1>12. CASE Context!WorkerDies
  <2>1. /\ \A j \in Jobs : v5'[j].at = "idle"
        /\ v2' = v2 /\ v1' = v1
    BY <1>12, WorkerDiesType DEF Context!WorkerDies
  <2>2. Context!Sole' /\ Context!Limited'
    BY <2>1 DEF Context!LatestInv, Context!Sole, Context!Limited
  <2>3. \A j \in Jobs : Context!Grounded(j)'
    BY <2>1 DEF Context!Grounded
  <2> QED
    BY <2>2, <2>3 DEF Context!LatestInv
<1>13. CASE UNCHANGED Context!vars
  BY <1>13
     DEF Context!vars, Context!LatestInv, Context!Sole, Context!Limited,
         Context!Grounded, Context!Agrees, Context!Carried
<1> QED
  BY <1>1, <1>2, <1>3, <1>4, <1>5, <1>6, <1>7, <1>8, <1>9, <1>10, <1>11, <1>12, <1>13
     DEF Context!Next

\* Initially no job runs and no session exists.
LEMMA LatestInit ==
  ASSUME Context!RecreationAssumption, Context!Init
  PROVE  Context!LatestInv
<1>1. (\A j \in Jobs : v5[j].at = "idle") /\ ~v2
  BY Records DEF Context!Init
<1>2. Context!Sole /\ Context!Limited
  BY <1>1 DEF Context!Sole, Context!Limited
<1>3. \A j \in Jobs : Context!Grounded(j)
  BY <1>1 DEF Context!Grounded
<1> QED
  BY <1>2, <1>3 DEF Context!LatestInv

ContextInv == part = "recreation" => Context!TypeOK /\ Context!LatestInv

\* FreshKeepsLatest: without an overlapping job the fresh session has the latest
\* critical keys, its limits among them, and a tool context.
THEOREM FreshKeepsLatestHolds == Spec => []FreshKeepsLatest
<1>0. Context!RecreationAssumption
  BY ServicesAssumption
<1>1. Init => ContextInv
  BY <1>0, ContextTypeInit, LatestInit DEF Init, ContextInv
<1>2. ContextInv /\ [Next]_vars => ContextInv'
  BY <1>0, StepOfPart, ContextTypeStep, LatestStep DEF ContextInv
<1>3. ContextInv => FreshKeepsLatest
  <2> SUFFICES ASSUME Context!TypeOK, Context!LatestInv,
                      NEW j \in Jobs \ v11, v5[j].at = "recreated"
               PROVE  /\ \A k \in Context!Critical : v6[j][k] = v1[k]
                      /\ v6[j]["project_config"] # 0
                      /\ j \in v10
    BY DEF ContextInv, FreshKeepsLatest, Context!FreshKeepsLatest
  <2>1. Context!Carried(j) /\ j \in v10 /\ v1["project_config"] # 0
    BY DEF Context!LatestInv, Context!Grounded, Context!Limited
  <2>2. "project_config" \in Context!Critical
    BY DEF Context!Critical, Context!Keys
  <2> QED
    BY <2>1, <2>2 DEF Context!Carried
<1> QED
  BY <1>1, <1>2, <1>3, PTL DEF Spec
-----------------------------------------------------------------------------
(***************************************************************************)
(* SkillCatalog.  Its disk is v1, edits v2, copy v3, process v4, index v5, *)
(* request v6, pending v7, asked v9, settled v10 and raced v11.            *)
(***************************************************************************)
\* A scan has, of every name of a readable skill, the first file of the last
\* scope that has it, and of every other name nothing.
LEMMA SkillScan ==
  ASSUME Skill!CatalogAssumption, NEW d \in [Skill!Files -> SkillFiles \cup {Nothing}]
  PROVE  /\ Skill!Scan(d) \in [SkillNames -> 0..SkillPlaces]
         /\ \A n \in SkillNames :
              LET k == Skill!Scan(d)[n]
              IN  IF \A f \in Skill!Files : Skill!Parses(d, f) => d[f].name # n THEN k = 0
                  ELSE /\ k \in Skill!Files /\ Skill!Parses(d, k) /\ d[k].name = n
                       /\ \A j \in Skill!Files : Skill!Parses(d, j) /\ d[j].name = n =>
                            /\ SkillScope[j] <= SkillScope[k]
                            /\ SkillScope[j] = SkillScope[k] => k <= j
<1> DEFINE N == SkillPlaces
           P == {f \in Skill!Files : Skill!Parses(d, f)}
           nm == [f \in P |-> d[f].name]
           Body(u) == [f \in 0..N |->
                         IF f = 0 THEN [n \in SkillNames |-> 0]
                         ELSE IF /\ Skill!Parses(d, f)
                                 /\ ~ (/\ u[f - 1][d[f].name] # 0
                                       /\ SkillScope[u[f - 1][d[f].name]] = SkillScope[f])
                                THEN [u[f - 1] EXCEPT ![d[f].name] = f] ELSE u[f - 1]]
           U == CHOOSE u : u = Body(u)
<1>1. Skill!Scan(d) = U[N]
  BY DEF Skill!Scan, Skill!Nowhere
<1>2. N \in Nat /\ Skill!Files = 1..N /\ P \in SUBSET (1..N) /\ nm \in [P -> SkillNames]
  BY DEF Skill!CatalogAssumption, Skill!Files, Skill!Parses
<1>3. SkillScope \in [1..N -> Nat] /\ \A i, j \in 1..N : i < j => SkillScope[i] <= SkillScope[j]
  BY <1>2 DEF Skill!CatalogAssumption
<1>4. \A f \in 1..N : /\ f \in P <=> Skill!Parses(d, f)
                      /\ f \in P => nm[f] = d[f].name
  BY <1>2
<1> HIDE DEF N, P, nm
<1>5. PICK g : IsScan(g, N, SkillNames, P, nm, SkillScope)
  BY <1>2, <1>3, ScanExists
<1>6. g \in [0..N -> [SkillNames -> 0..N]] /\ g[0] = [n \in SkillNames |-> 0] /\ g[N] \in [SkillNames -> 0..N]
  <2>1. g \in [0..N -> [SkillNames -> 0..N]] /\ \A n \in SkillNames : g[0][n] = 0
    BY <1>5 DEF IsScan
  <2> QED
    BY <1>2, <2>1
<1>7. \A f \in 0..N : g[f] = Body(g)[f]
  <2>1. ASSUME NEW f \in 1..N
        PROVE  g[f] = Body(g)[f]
    <3>1. f \in 0..N /\ f # 0
      BY <1>2
    <3>2. g[f] = IF f \in P /\ (g[f - 1][nm[f]] = 0 \/ SkillScope[g[f - 1][nm[f]]] # SkillScope[f])
                   THEN [g[f - 1] EXCEPT ![nm[f]] = f] ELSE g[f - 1]
      BY <1>5 DEF IsScan
    <3> QED
      BY <1>4, <3>1, <3>2
  <2>2. \A f \in 0..N : f = 0 \/ f \in 1..N
    BY <1>2
  <2>3. 0 \in 0..N
    BY <1>2
  <2> QED
    BY <1>6, <2>1, <2>2, <2>3
<1>8. g = Body(g)
  BY <1>6, <1>7
<1>9. U = Body(U)
  <2> HIDE DEF Body
  <2> QED
    BY <1>8
<1>10. U[N] = g[N]
  <2> HIDE DEF U
  <2>1. U[0] = g[0]
    <3>1. 0 \in 0..N
      BY <1>2
    <3>2. Body(U)[0] = Body(g)[0]
      BY <3>1
    <3> HIDE DEF Body
    <3> QED
      BY <1>8, <1>9, <3>2
  <2>2. ASSUME NEW f \in 1..N, U[f - 1] = g[f - 1]
        PROVE  U[f] = g[f]
    <3>1. f \in 0..N /\ f # 0
      BY <1>2
    <3>2. Body(U)[f] = Body(g)[f]
      BY <2>2, <3>1
    <3> HIDE DEF Body
    <3> QED
      BY <1>8, <1>9, <3>2
  <2> HIDE DEF Body
  <2> QED
    BY <1>2, <2>1, <2>2, SameScan
<1> HIDE DEF U, Body
<1>11. \A n \in SkillNames : IsPick(g[N][n], n, P, nm, SkillScope)
  BY <1>2, <1>3, <1>5, ScanPicks
<1>12. Skill!Scan(d) \in [SkillNames -> 0..SkillPlaces]
  BY <1>1, <1>6, <1>10 DEF N
<1>13. ASSUME NEW n \in SkillNames
       PROVE  LET k == Skill!Scan(d)[n]
              IN  IF \A f \in Skill!Files : Skill!Parses(d, f) => d[f].name # n THEN k = 0
                  ELSE /\ k \in Skill!Files /\ Skill!Parses(d, k) /\ d[k].name = n
                       /\ \A j \in Skill!Files : Skill!Parses(d, j) /\ d[j].name = n =>
                            /\ SkillScope[j] <= SkillScope[k]
                            /\ SkillScope[j] = SkillScope[k] => k <= j
  <2>1. IsPick(Skill!Scan(d)[n], n, P, nm, SkillScope)
    BY <1>1, <1>10, <1>11
  <2> QED
    BY <1>2, <1>4, <2>1 DEF IsPick
<1> QED
  BY <1>12, <1>13

\* So has the index, which is of its type.
LEMMA SkillIndex ==
  ASSUME Skill!CatalogAssumption, NEW d \in [Skill!Files -> SkillFiles \cup {Nothing}]
  PROVE  /\ Skill!IndexOf(d) \in Skill!Indexes
         /\ \A f \in Skill!Files : Skill!Parses(d, f) =>
              ([file |-> f, entry |-> d[f]] \in Skill!IndexOf(d) <=>
                 \A g \in Skill!Files : Skill!Parses(d, g) /\ d[g].name = d[f].name =>
                   /\ SkillScope[g] <= SkillScope[f]
                   /\ SkillScope[g] = SkillScope[f] => f <= g)
<1> DEFINE at == Skill!Scan(d)
           Better(g, f) == /\ SkillScope[g] <= SkillScope[f]
                           /\ SkillScope[g] = SkillScope[f] => f <= g
<1>1. /\ SkillPlaces \in Nat /\ Skill!Files = 1..SkillPlaces
      /\ SkillScope \in [Skill!Files -> Nat]
      /\ \A f \in Skill!Files : Skill!Parses(d, f) => d[f] \in SkillFiles /\ d[f].name \in SkillNames
  BY DEF Skill!CatalogAssumption, Skill!Files, Skill!Parses
<1>2. ASSUME NEW n \in SkillNames, at[n] # 0
      PROVE  /\ at[n] \in Skill!Files /\ Skill!Parses(d, at[n]) /\ d[at[n]].name = n
             /\ \A j \in Skill!Files : Skill!Parses(d, j) /\ d[j].name = n => Better(j, at[n])
  BY <1>2, SkillScan
<1>3. ASSUME NEW f \in Skill!Files, Skill!Parses(d, f)
      PROVE  at[d[f].name] # 0
  <2> DEFINE n == d[f].name
  <2>1. n \in SkillNames
    BY <1>1, <1>3
  <2>2. at[n] \in Skill!Files
    BY <1>3, <2>1, SkillScan
  <2> QED
    BY <1>1, <2>2
<1> HIDE DEF at
<1>4. Skill!IndexOf(d) =
        {[file |-> at[n], entry |-> d[at[n]]] : n \in {m \in SkillNames : at[m] # 0}}
  BY DEF Skill!IndexOf, Skill!Nowhere, at
<1>5. Skill!IndexOf(d) \in Skill!Indexes
  <2>1. ASSUME NEW n \in SkillNames, at[n] # 0
        PROVE  [file |-> at[n], entry |-> d[at[n]]] \in [file: Skill!Files, entry: SkillFiles]
    BY <1>1, <1>2, <2>1
  <2> QED
    BY <1>4, <2>1 DEF Skill!Indexes
<1>6. ASSUME NEW f \in Skill!Files, Skill!Parses(d, f)
      PROVE  [file |-> f, entry |-> d[f]] \in Skill!IndexOf(d) <=> at[d[f].name] = f
  <2>1. ASSUME [file |-> f, entry |-> d[f]] \in Skill!IndexOf(d)
        PROVE  at[d[f].name] = f
    <3>1. PICK n \in SkillNames :
            at[n] # 0 /\ [file |-> f, entry |-> d[f]] = [file |-> at[n], entry |-> d[at[n]]]
      BY <1>4, <2>1
    <3>2. at[n] = f
      BY <3>1
    <3> QED
      BY <1>2, <3>1, <3>2
  <2>2. ASSUME at[d[f].name] = f
        PROVE  [file |-> f, entry |-> d[f]] \in Skill!IndexOf(d)
    <3>1. d[f].name \in SkillNames /\ at[d[f].name] # 0
      BY <1>1, <1>3, <1>6
    <3> QED
      BY <1>4, <2>2, <3>1
  <2> QED
    BY <2>1, <2>2
<1>7. ASSUME NEW f \in Skill!Files, Skill!Parses(d, f)
      PROVE  at[d[f].name] = f <=>
               \A g \in Skill!Files : Skill!Parses(d, g) /\ d[g].name = d[f].name => Better(g, f)
  <2> DEFINE n == d[f].name
             k == at[n]
  <2>1. n \in SkillNames /\ k # 0
    BY <1>1, <1>3, <1>7
  <2>2. /\ k \in Skill!Files /\ Skill!Parses(d, k) /\ d[k].name = n
        /\ \A j \in Skill!Files : Skill!Parses(d, j) /\ d[j].name = n => Better(j, k)
    BY <1>2, <2>1
  <2>3. k = f => \A g \in Skill!Files : Skill!Parses(d, g) /\ d[g].name = n => Better(g, f)
    BY <2>2
  <2>4. ASSUME \A g \in Skill!Files : Skill!Parses(d, g) /\ d[g].name = n => Better(g, f)
        PROVE  k = f
    <3>1. Better(k, f) /\ Better(f, k)
      BY <1>7, <2>2, <2>4
    <3>2. k \in Nat /\ f \in Nat /\ SkillScope[k] \in Nat /\ SkillScope[f] \in Nat
      BY <1>1, <2>2
    <3> HIDE DEF k
    <3> QED
      BY <3>1, <3>2
  <2> QED
    BY <2>3, <2>4
<1> QED
  BY <1>5, <1>6, <1>7

\* What a process scans is new and of its type.
LEMMA SkillSnapshot ==
  ASSUME Skill!CatalogAssumption, Skill!TypeOK
  PROVE  /\ Skill!Snapshot \in Skill!Snapshots
         /\ Skill!Snapshot.at = v2 + 1 /\ Skill!Snapshot.of = Skill!IndexOf(v1)
BY SkillIndex DEF Skill!TypeOK, Skill!Snapshots, Skill!Snapshot

LEMMA SkillTypeStep ==
  ASSUME Skill!CatalogAssumption, Skill!TypeOK, [Skill!Next]_(Skill!vars)
  PROVE  Skill!TypeOK'
<1> DEFINE snapshot == Skill!Snapshot
<1>0. snapshot \in Skill!Snapshots
  BY SkillSnapshot
<1>n. Skill!NoCopy \in Skill!Snapshots
  BY DEF Skill!NoCopy, Skill!Snapshots, Skill!Indexes
<1> HIDE DEF snapshot
<1> USE DEF Skill!TypeOK
<1>1. ASSUME NEW f \in Skill!Files, Skill!Edit(f)
      PROVE  Skill!TypeOK'
  BY <1>1 DEF Skill!Edit
<1>2. ASSUME NEW p \in Skill!Processes, Skill!Start(p)
      PROVE  Skill!TypeOK'
  BY <1>0, <1>2 DEF Skill!Start, snapshot
<1>3. ASSUME NEW p \in Skill!Processes, Skill!SaveAtStart(p) \/ Skill!Stop(p)
      PROVE  Skill!TypeOK'
  BY <1>3 DEF Skill!SaveAtStart, Skill!Stop
<1>4. ASSUME NEW r \in Requests, Skill!Invalidate(r)
      PROVE  Skill!TypeOK'
  BY <1>n, <1>4 DEF Skill!Invalidate
<1>5. ASSUME NEW r \in Requests, Skill!Rescan(r)
      PROVE  Skill!TypeOK'
  BY <1>0, <1>5 DEF Skill!Rescan, snapshot
<1>6. ASSUME NEW r \in Requests, Skill!Save(r)
      PROVE  Skill!TypeOK'
  BY <1>6 DEF Skill!Save
<1>7. ASSUME NEW c \in Contexts, Skill!LoadSkills(c)
      PROVE  Skill!TypeOK'
  BY <1>7 DEF Skill!LoadSkills
<1>8. CASE UNCHANGED Skill!vars
  BY <1>8 DEF Skill!vars
<1> QED
  BY <1>1, <1>2, <1>3, <1>4, <1>5, <1>6, <1>7, <1>8 DEF Skill!Next

LEMMA IndexIsOfDiskStep ==
  ASSUME Skill!CatalogAssumption, Skill!TypeOK, Skill!IndexIsOfDisk,
         [Skill!Next]_(Skill!vars)
  PROVE  Skill!IndexIsOfDisk'
<1> DEFINE disk == v1  edits == v2  copy == v3  index == v5  pending == v7
           snapshot == Skill!Snapshot
           Held == {copy} \cup {index[p] : p \in Skill!Processes}
                          \cup {pending[r] : r \in Requests}
<1>0. /\ \A x \in Held : Skill!IsOfDisk(x) /\ x.at \in Nat
      /\ Skill!IsOfDisk(snapshot) /\ Skill!IsOfDisk(Skill!NoCopy)
      /\ edits \in Nat
  <2>1. edits \in Nat /\ \A x \in Held : x.at \in Nat
    BY DEF Skill!TypeOK, Skill!Snapshots
  <2>2. \A x \in Held : Skill!IsOfDisk(x)
    BY DEF Skill!IndexIsOfDisk
  <2>3. Skill!IsOfDisk(snapshot)
    BY <2>1, SkillSnapshot DEF Skill!IsOfDisk
  <2>4. Skill!IsOfDisk(Skill!NoCopy)
    BY <2>1 DEF Skill!IsOfDisk, Skill!NoCopy
  <2> QED
    BY <2>1, <2>2, <2>3, <2>4
<1> DEFINE Kept == {copy'} \cup {index'[p] : p \in Skill!Processes}
                           \cup {pending'[r] : r \in Requests}
<1>1. CASE \E f \in Skill!Files : Skill!Edit(f)
  <2>1. edits' = edits + 1 /\ copy' = copy /\ index' = index /\ pending' = pending
    BY <1>1 DEF Skill!Edit
  <2>2. ASSUME NEW x \in Held
        PROVE  x.at <= edits' + 1 /\ x.at # edits' + 1
    <3> HIDE DEF Held
    <3> QED
      BY <1>0, <2>1 DEF Skill!IsOfDisk
  <2>3. \A x \in Held : Skill!IsOfDisk(x)'
    BY <2>2 DEF Skill!IsOfDisk
  <2> QED
    BY <2>1, <2>3 DEF Skill!IndexIsOfDisk
<1>2. CASE ~ \E f \in Skill!Files : Skill!Edit(f)
  <2>1. /\ disk' = disk /\ edits' = edits
        /\ \A x \in Kept : x \in Held \cup {snapshot, Skill!NoCopy}
    <3> USE DEF Skill!TypeOK
    <3> HIDE DEF snapshot
    <3>1. CASE \E p \in Skill!Processes : Skill!Start(p)
      BY <3>1 DEF Skill!Start, snapshot
    <3>2. CASE \E p \in Skill!Processes : Skill!SaveAtStart(p) \/ Skill!Stop(p)
      BY <3>2 DEF Skill!SaveAtStart, Skill!Stop
    <3>3. CASE \E r \in Requests : Skill!Invalidate(r)
      BY <3>3 DEF Skill!Invalidate
    <3>4. CASE \E r \in Requests : Skill!Rescan(r)
      BY <3>4 DEF Skill!Rescan, snapshot
    <3>5. CASE \E r \in Requests : Skill!Save(r)
      BY <3>5 DEF Skill!Save
    <3>6. CASE \E c \in Contexts : Skill!LoadSkills(c)
      BY <3>6 DEF Skill!LoadSkills
    <3>7. CASE UNCHANGED Skill!vars
      BY <3>7 DEF Skill!vars
    <3> QED
      BY <1>2, <3>1, <3>2, <3>3, <3>4, <3>5, <3>6, <3>7 DEF Skill!Next
  <2>2. \A x : Skill!IsOfDisk(x) => Skill!IsOfDisk(x)'
    <3>1. v1' = v1 /\ v2' = v2
      BY <2>1
    <3>2. Skill!IndexOf(v1)' = Skill!IndexOf(v1)
      BY <3>1, Zenon
    <3> QED
      BY <3>1, <3>2 DEF Skill!IsOfDisk
  <2>3. \A x \in Kept : Skill!IsOfDisk(x)'
    <3> HIDE DEF Kept, Held, snapshot
    <3> QED
      BY <1>0, <2>1, <2>2
  <2> QED
    BY <2>3 DEF Skill!IndexIsOfDisk
<1> QED
  BY <1>1, <1>2

LEMMA GroundedStep ==
  ASSUME Skill!CatalogAssumption, Skill!TypeOK, Skill!RequestsAreGrounded,
         [Skill!Next]_(Skill!vars)
  PROVE  Skill!RequestsAreGrounded'
<1> DEFINE edits == v2  process == v4  request == v6  pending == v7  asked == v9
           snapshot == Skill!Snapshot
           Grounds(r) == /\ asked[r] <= edits + 1
                         /\ request[r] # "idle" => process["gateway"] = "up"
                         /\ request[r] = "saving" => pending[r].at >= asked[r]
<1> USE DEF Skill!Processes
<1>0. /\ v2 \in Nat /\ v10 \in Nat /\ v10 <= v2 + 1
      /\ v4 \in [Skill!Processes -> {"down", "saving", "up"}]
      /\ v6 \in [Requests -> {"idle", "deleted", "saving"}]
      /\ v7 \in [Requests -> Skill!Snapshots]
      /\ v9 \in [Requests -> Nat]
      /\ snapshot \in Skill!Snapshots /\ snapshot.at = v2 + 1
  BY SkillSnapshot DEF Skill!TypeOK, Skill!RequestsAreGrounded
<1>s. \A x \in Skill!Snapshots : x.at \in Nat
  BY DEF Skill!Snapshots
<1> HIDE DEF snapshot
<1>g. \A r \in Requests : Grounds(r)
  BY DEF Skill!RequestsAreGrounded
<1> SUFFICES v10' <= v2' + 1 /\ \A r \in Requests : Grounds(r)'
  BY DEF Skill!RequestsAreGrounded
<1>1. CASE \E f \in Skill!Files : Skill!Edit(f)
  BY <1>0, <1>g, <1>1 DEF Skill!Edit
<1>2. ASSUME NEW p \in Skill!Processes, Skill!Start(p)
      PROVE  v10' <= v2' + 1 /\ \A r \in Requests : Grounds(r)'
  BY <1>0, <1>g, <1>2 DEF Skill!Start
<1>3. ASSUME NEW p \in Skill!Processes, Skill!SaveAtStart(p)
      PROVE  v10' <= v2' + 1 /\ \A r \in Requests : Grounds(r)'
  BY <1>0, <1>g, <1>3 DEF Skill!SaveAtStart
<1>4. ASSUME NEW p \in Skill!Processes, Skill!Stop(p)
      PROVE  v10' <= v2' + 1 /\ \A r \in Requests : Grounds(r)'
  BY <1>0, <1>g, <1>4 DEF Skill!Stop
<1>5. ASSUME NEW r \in Requests, Skill!Invalidate(r)
      PROVE  v10' <= v2' + 1 /\ \A q \in Requests : Grounds(q)'
  BY <1>0, <1>g, <1>5 DEF Skill!Invalidate
<1>6. ASSUME NEW r \in Requests, Skill!Rescan(r)
      PROVE  v10' <= v2' + 1 /\ \A q \in Requests : Grounds(q)'
  <2>1. v2' = v2 /\ v4' = v4 /\ v9' = v9 /\ v10' = v10
    BY <1>6 DEF Skill!Rescan
  <2>2. v6[r] = "deleted" /\ v6' = [v6 EXCEPT ![r] = "saving"] /\ v7' = [v7 EXCEPT ![r] = snapshot]
    BY <1>6 DEF Skill!Rescan, snapshot
  <2> QED
    BY <1>0, <1>g, <2>1, <2>2
<1>7. ASSUME NEW r \in Requests, Skill!Save(r)
      PROVE  v10' <= v2' + 1 /\ \A q \in Requests : Grounds(q)'
  BY <1>0, <1>g, <1>7 DEF Skill!Save
<1>8. CASE \E c \in Contexts : Skill!LoadSkills(c)
  BY <1>0, <1>g, <1>8 DEF Skill!LoadSkills
<1>9. CASE UNCHANGED Skill!vars
  BY <1>0, <1>g, <1>9 DEF Skill!vars
<1> QED
  BY <1>1, <1>2, <1>3, <1>4, <1>5, <1>6, <1>7, <1>8, <1>9 DEF Skill!Next

\* What a step keeps while no save races: one scan is on its way to the copy,
\* and neither it nor what is held is older than what the copy is settled for.
LEMMA InvalidationStep ==
  ASSUME Skill!CatalogAssumption, Skill!TypeOK, Skill!RequestsAreGrounded,
         Skill!OneSaves, Skill!InvalidationHolds, [Skill!Next]_(Skill!vars)
  PROVE  Skill!OneSaves' /\ Skill!InvalidationHolds'
<1> DEFINE copy == v3  process == v4  index == v5  request == v6  pending == v7
           asked == v9  settled == v10  raced == v11
           snapshot == Skill!Snapshot
           Alone(p) == process[p] = "saving" =>
                         /\ \A q \in Skill!Processes \ {p} : process[q] # "saving"
                         /\ \A r \in Requests : request[r] # "saving"
                         /\ index[p].at >= settled
           Only(r) == request[r] = "saving" =>
                        /\ \A q \in Requests \ {r} : request[q] # "saving"
                        /\ index["gateway"].at >= asked[r]
           Fresh == /\ copy # Skill!NoCopy => copy.at >= settled
                    /\ settled > 0 /\ process["gateway"] = "up" => index["gateway"].at >= settled
           Good == /\ \A p \in Skill!Processes : Alone(p)
                   /\ \A r \in Requests : Only(r)
                   /\ Fresh
<1> USE DEF Skill!Processes
<1>0. /\ v2 \in Nat /\ v10 \in Nat /\ v10 <= v2 + 1
      /\ v3 \in Skill!Snapshots
      /\ v4 \in [Skill!Processes -> {"down", "saving", "up"}]
      /\ v5 \in [Skill!Processes -> Skill!Snapshots]
      /\ v6 \in [Requests -> {"idle", "deleted", "saving"}]
      /\ v7 \in [Requests -> Skill!Snapshots]
      /\ v9 \in [Requests -> Nat]
      /\ snapshot \in Skill!Snapshots /\ snapshot.at = v2 + 1
      /\ raced \in BOOLEAN
  BY SkillSnapshot DEF Skill!TypeOK, Skill!RequestsAreGrounded
<1>s. \A x \in Skill!Snapshots : x.at \in Nat
  BY DEF Skill!Snapshots
<1> HIDE DEF snapshot
<1>g. \A r \in Requests : /\ asked[r] <= v2 + 1
                          /\ request[r] # "idle" => process["gateway"] = "up"
                          /\ request[r] = "saving" => pending[r].at >= asked[r]
  BY DEF Skill!RequestsAreGrounded
<1> SUFFICES ASSUME ~raced' PROVE Good'
  BY DEF Skill!OneSaves, Skill!InvalidationHolds
<1>a. ~raced => Good
  BY DEF Skill!OneSaves, Skill!InvalidationHolds
<1>1. CASE \E f \in Skill!Files : Skill!Edit(f)
  BY <1>a, <1>1 DEF Skill!Edit
<1>2. ASSUME NEW p \in Skill!Processes, Skill!Start(p)
      PROVE  Good'
  <2>1. /\ process[p] = "down" /\ copy' = copy /\ request' = request
        /\ asked' = asked /\ settled' = settled
    BY <1>2 DEF Skill!Start
  <2>2. CASE /\ copy # Skill!NoCopy /\ index' = [index EXCEPT ![p] = copy]
             /\ process' = [process EXCEPT ![p] = "up"] /\ raced' = raced
    <3>1. /\ index'[p] = copy /\ process'[p] = "up"
          /\ \A q \in Skill!Processes \ {p} : index'[q] = index[q] /\ process'[q] = process[q]
      BY <1>0, <2>2
    <3>2. p = "gateway" => \A r \in Requests : request[r] # "saving"
      BY <1>g, <2>1
    <3> QED
      BY <1>0, <1>s, <1>a, <2>1, <2>2, <3>1, <3>2
  <2>3. CASE /\ index' = [index EXCEPT ![p] = snapshot]
             /\ process' = [process EXCEPT ![p] = "saving"] /\ ~raced /\ ~Skill!Saving
    <3>1. /\ index'[p] = snapshot /\ process'[p] = "saving"
          /\ \A q \in Skill!Processes \ {p} : index'[q] = index[q] /\ process'[q] = process[q]
      BY <1>0, <2>3
    <3>2. /\ \A q \in Skill!Processes : process[q] # "saving"
          /\ \A r \in Requests : request[r] # "saving"
      BY <2>3 DEF Skill!Saving
    <3> QED
      BY <1>0, <1>s, <1>a, <2>1, <2>3, <3>1, <3>2
  <2> QED
    BY <1>2, <2>2, <2>3 DEF Skill!Start, snapshot
<1>3. ASSUME NEW p \in Skill!Processes, Skill!SaveAtStart(p)
      PROVE  Good'
  BY <1>0, <1>s, <1>a, <1>3 DEF Skill!SaveAtStart
<1>4. ASSUME NEW p \in Skill!Processes, Skill!Stop(p)
      PROVE  Good'
  BY <1>0, <1>s, <1>a, <1>4 DEF Skill!Stop
<1>5. ASSUME NEW r \in Requests, Skill!Invalidate(r)
      PROVE  Good'
  BY <1>0, <1>s, <1>a, <1>5 DEF Skill!Invalidate
<1>6. ASSUME NEW r \in Requests, Skill!Rescan(r)
      PROVE  Good'
  <2>1. /\ copy' = copy /\ process' = process /\ asked' = asked /\ settled' = settled
        /\ ~raced /\ ~Skill!Saving
        /\ request' = [request EXCEPT ![r] = "saving"]
        /\ index' = [index EXCEPT !["gateway"] = snapshot]
    BY <1>6 DEF Skill!Rescan, snapshot
  <2>2. /\ \A q \in Skill!Processes : process[q] # "saving"
        /\ \A q \in Requests : request[q] # "saving"
    BY <2>1 DEF Skill!Saving
  <2> QED
    BY <1>0, <1>s, <1>a, <1>g, <2>1, <2>2
<1>7. ASSUME NEW r \in Requests, Skill!Save(r)
      PROVE  Good'
  <2>1. /\ request[r] = "saving" /\ request' = [request EXCEPT ![r] = "idle"]
        /\ process' = process /\ index' = index /\ asked' = asked /\ ~raced
        /\ \/ copy' = pending[r] /\ settled' = asked[r]
           \/ copy' = copy /\ settled' = settled
    BY <1>7 DEF Skill!Save
  <2>2. /\ \A q \in Skill!Processes : process[q] # "saving"
        /\ \A q \in Requests \ {r} : request[q] # "saving"
        /\ index["gateway"].at >= asked[r] /\ pending[r].at >= asked[r]
    BY <1>a, <1>g, <2>1
  <2> QED
    BY <1>0, <1>s, <1>a, <2>1, <2>2
<1>8. CASE \E c \in Contexts : Skill!LoadSkills(c)
  BY <1>a, <1>8 DEF Skill!LoadSkills
<1>9. CASE UNCHANGED Skill!vars
  BY <1>a, <1>9 DEF Skill!vars
<1> QED
  BY <1>1, <1>2, <1>3, <1>4, <1>5, <1>6, <1>7, <1>8, <1>9 DEF Skill!Next

(***************************************************************************)
(* What is invariant of the skill index.                                   *)
(***************************************************************************)
SkillInv ==
  Skill!CatalogAssumption /\
  (part = "skills" =>
     /\ Skill!TypeOK /\ Skill!IndexIsOfDisk
     /\ Skill!RequestsAreGrounded /\ Skill!OneSaves /\ Skill!InvalidationHolds)

LEMMA SkillInit ==
  ASSUME Skill!CatalogAssumption, Skill!Init
  PROVE  /\ Skill!TypeOK /\ Skill!IndexIsOfDisk
         /\ Skill!RequestsAreGrounded /\ Skill!OneSaves /\ Skill!InvalidationHolds
<1> USE DEF Skill!Init, Skill!Processes
<1>1. Skill!NoCopy \in Skill!Snapshots /\ Skill!NoCopy.at = 0
  BY DEF Skill!NoCopy, Skill!Snapshots, Skill!Indexes
<1>2. v1 \in [Skill!Files -> SkillFiles \cup {Nothing}]
  BY DEF Skill!CatalogAssumption
<1>3. Skill!TypeOK
  BY <1>1, <1>2 DEF Skill!TypeOK
<1>4. Skill!IsOfDisk(Skill!NoCopy)
  BY <1>1 DEF Skill!IsOfDisk
<1>5. Skill!IndexIsOfDisk
  BY <1>4 DEF Skill!IndexIsOfDisk
<1>6. Skill!RequestsAreGrounded /\ Skill!OneSaves /\ Skill!InvalidationHolds
  BY <1>1 DEF Skill!RequestsAreGrounded, Skill!OneSaves, Skill!InvalidationHolds
<1> QED
  BY <1>3, <1>5, <1>6

LEMMA ScanFromInv ==
  ASSUME SkillInv PROVE ScanKeepsFirst
<1> SUFFICES ASSUME part = "skills" PROVE Skill!ScanKeepsFirst
  BY DEF ScanKeepsFirst
<1>1. v1 \in [Skill!Files -> SkillFiles \cup {Nothing}]
  BY DEF SkillInv, Skill!TypeOK
<1>2. ASSUME NEW p \in Skill!Processes, v5[p].at = v2 + 1
      PROVE  v5[p].of = Skill!IndexOf(v1)
  BY <1>2 DEF SkillInv, Skill!IndexIsOfDisk, Skill!IsOfDisk
<1>3. Skill!CatalogAssumption
  BY DEF SkillInv
<1> DEFINE Better(g, f) == /\ SkillScope[g] <= SkillScope[f]
                           /\ SkillScope[g] = SkillScope[f] => f <= g
<1>4. ASSUME NEW f \in Skill!Files, Skill!Parses(v1, f)
      PROVE  [file |-> f, entry |-> v1[f]] \in Skill!IndexOf(v1) <=>
               \A g \in Skill!Files : Skill!Parses(v1, g) /\ v1[g].name = v1[f].name => Better(g, f)
  BY <1>1, <1>3, <1>4, SkillIndex
<1> QED
  BY <1>2, <1>4 DEF Skill!ScanKeepsFirst

LEMMA SkillInvHolds == Spec => []SkillInv
<1>1. Init => SkillInv
  BY ServicesAssumption, SkillInit DEF Init, SkillInv
<1>2. SkillInv /\ [Next]_vars => SkillInv'
  BY StepOfPart, SkillTypeStep, IndexIsOfDiskStep, GroundedStep, InvalidationStep
  DEF SkillInv
<1> QED
  BY <1>1, <1>2, PTL DEF Spec

\* No process takes an index older than the last invalidation, whatever the
\* gateway and the worker do between its steps, if no two saves overlap.
THEOREM InvalidationHoldsAlways == Spec => []InvalidationHolds
<1>1. SkillInv => InvalidationHolds
  BY DEF SkillInv, InvalidationHolds
<1> QED
  BY <1>1, SkillInvHolds, PTL

\* For any number of files in any scopes, a scan keeps of each name the first
\* file of the last scope.
THEOREM ScanKeepsFirstHolds == Spec => []ScanKeepsFirst
  BY ScanFromInv, SkillInvHolds, PTL

-----------------------------------------------------------------------------
(***************************************************************************)
(* AgentAssembly.  Its files is v1, scanned v2, at v3, next v4, scoped v5, *)
(* todo v6, resolved v7 and built v8.                                      *)
(***************************************************************************)
\* What a definition, or nothing, says of a field.
Word(e, f) == IF e = Nothing THEN Nothing ELSE e[f]

\* An override of a definition is a definition, and what it says of each field.
LEMMA OverrideFields ==
  ASSUME Assembly!AssemblyAssumption, NEW old \in Assembly!Definitions,
         NEW e \in Assembly!Definitions
  PROVE  LET new == Assembly!Override(old, e)
         IN  /\ new \in Assembly!Definitions
             /\ new["body"] = Assembly!Or(e["body"], old["body"]) /\ new["type"] = e["type"]
             /\ \A f \in {"tool", "model", "class"} :
                  new[f] = IF e["body"] # Nothing THEN e[f] ELSE Assembly!Or(e[f], old[f])
<1> DEFINE tool == Assembly!Or(e.tool, old.tool)
           model == Assembly!Or(e.model, old.model)
           class == Assembly!Or(e.class, old.class)
<1>1. /\ tool \in Assembly!Words("tool") /\ model \in Assembly!Words("model")
      /\ class \in Assembly!Words("class")
  BY DEF Assembly!Definitions, Assembly!Or
<1> HIDE DEF tool, model, class
<1>2. CASE e.body # Nothing
  BY <1>2 DEF Assembly!Override, Assembly!Or
<1>3. CASE e.body = Nothing
  <2> DEFINE new == [e EXCEPT !.tool = tool, !.model = model, !.class = class,
                              !.body = old.body]
  <2>1. Assembly!Override(old, e) = new
    BY <1>3 DEF Assembly!Override, tool, model, class
  <2>2. new \in Assembly!Definitions
    BY <1>1 DEF Assembly!Definitions
  <2>3. /\ new["body"] = old["body"] /\ new["type"] = e["type"] /\ new["tool"] = tool
        /\ new["model"] = model /\ new["class"] = class
    BY DEF Assembly!Definitions
  <2>4. /\ tool = Assembly!Or(e["tool"], old["tool"])
        /\ model = Assembly!Or(e["model"], old["model"])
        /\ class = Assembly!Or(e["class"], old["class"])
        /\ Assembly!Or(e["body"], old["body"]) = old["body"] /\ e["body"] = Nothing
    BY <1>3 DEF tool, model, class, Assembly!Or
  <2> HIDE DEF new
  <2> QED
    BY <2>1, <2>2, <2>3, <2>4
<1> QED
  BY <1>2, <1>3

\* So for a layer over what is below it.
LEMMA LayerFields ==
  ASSUME Assembly!AssemblyAssumption, NEW old \in Assembly!Definitions \cup {Nothing},
         NEW e \in Assembly!Definitions \cup {Nothing}
  PROVE  LET new == Assembly!Layer(old, e)
         IN  /\ new \in Assembly!Definitions \cup {Nothing}
             /\ new = Nothing <=> old = Nothing /\ e = Nothing
             /\ Word(new, "body") = Assembly!Or(Word(e, "body"), Word(old, "body"))
             /\ Word(new, "type") = Assembly!Or(Word(e, "type"), Word(old, "type"))
             /\ \A f \in {"tool", "model", "class"} :
                  Word(new, f) = IF Word(e, "body") # Nothing THEN Word(e, f)
                                 ELSE Assembly!Or(Word(e, f), Word(old, f))
<1>0. /\ Nothing \notin Assembly!Definitions
      /\ \A d \in Assembly!Definitions : d["type"] # Nothing
  BY DEF Assembly!AssemblyAssumption, Assembly!Definitions
<1>1. CASE e = Nothing
  BY <1>1 DEF Assembly!Layer, Assembly!Or, Word
<1>2. CASE e # Nothing /\ old = Nothing
  BY <1>0, <1>2 DEF Assembly!Layer, Assembly!Or, Word
<1>3. CASE e # Nothing /\ old # Nothing
  <2> DEFINE new == Assembly!Override(old, e)
  <2>1. /\ new \in Assembly!Definitions
        /\ new["body"] = Assembly!Or(e["body"], old["body"]) /\ new["type"] = e["type"]
        /\ \A f \in {"tool", "model", "class"} :
             new[f] = IF e["body"] # Nothing THEN e[f] ELSE Assembly!Or(e[f], old[f])
    BY <1>3, OverrideFields
  <2>2. Assembly!Layer(old, e) = new
    BY <1>3 DEF Assembly!Layer
  <2> HIDE DEF new
  <2>3. Word(new, "body") = new["body"] /\ Word(new, "type") = new["type"]
    BY <1>0, <2>1 DEF Word
  <2>4. \A f \in {"tool", "model", "class"} : Word(new, f) = new[f]
    BY <1>0, <2>1 DEF Word
  <2>5. \A f : Word(e, f) = e[f] /\ Word(old, f) = old[f]
    BY <1>3 DEF Word
  <2>6. Assembly!Or(e["type"], old["type"]) = e["type"] /\ e \in Assembly!Definitions
    BY <1>0, <1>3 DEF Assembly!Or
  <2> QED
    BY <1>0, <1>3, <2>1, <2>2, <2>3, <2>4, <2>5, <2>6
<1> QED
  BY <1>1, <1>2, <1>3

\* What the three scopes make of an agent, field by field.
LEMMA CascadeFields ==
  ASSUME Assembly!AssemblyAssumption,
         NEW e \in [1..3 -> Assembly!Definitions \cup {Nothing}]
  PROVE  LET new == Assembly!Layer(Assembly!Layer(e[1], e[2]), e[3])
             Last(f) == Assembly!Or(Word(e[3], f), Assembly!Or(Word(e[2], f), Word(e[1], f)))
         IN  /\ new \in Assembly!Definitions \cup {Nothing}
             /\ new = Nothing <=> \A s \in 1..3 : e[s] = Nothing
             /\ Word(new, "body") = Last("body") /\ Word(new, "type") = Last("type")
             /\ \A f \in {"tool", "model", "class"} : Word(new, f) =
                  IF Word(e[3], "body") # Nothing THEN Word(e[3], f)
                  ELSE Assembly!Or(Word(e[3], f),
                                   IF Word(e[2], "body") # Nothing THEN Word(e[2], f)
                                   ELSE Assembly!Or(Word(e[2], f), Word(e[1], f)))
<1> DEFINE low == Assembly!Layer(e[1], e[2])
           new == Assembly!Layer(low, e[3])
           D == Assembly!Definitions \cup {Nothing}
<1>1. e[1] \in D /\ e[2] \in D /\ e[3] \in D
  OBVIOUS
<1>2. /\ low \in D /\ (low = Nothing <=> e[1] = Nothing /\ e[2] = Nothing)
      /\ Word(low, "body") = Assembly!Or(Word(e[2], "body"), Word(e[1], "body"))
      /\ Word(low, "type") = Assembly!Or(Word(e[2], "type"), Word(e[1], "type"))
      /\ \A f \in {"tool", "model", "class"} :
           Word(low, f) = IF Word(e[2], "body") # Nothing THEN Word(e[2], f)
                          ELSE Assembly!Or(Word(e[2], f), Word(e[1], f))
  BY <1>1, LayerFields
<1> HIDE DEF low
<1>3. /\ new \in D /\ (new = Nothing <=> low = Nothing /\ e[3] = Nothing)
      /\ Word(new, "body") = Assembly!Or(Word(e[3], "body"), Word(low, "body"))
      /\ Word(new, "type") = Assembly!Or(Word(e[3], "type"), Word(low, "type"))
      /\ \A f \in {"tool", "model", "class"} :
           Word(new, f) = IF Word(e[3], "body") # Nothing THEN Word(e[3], f)
                          ELSE Assembly!Or(Word(e[3], f), Word(low, f))
  BY <1>1, <1>2, LayerFields
<1>4. new = Assembly!Layer(Assembly!Layer(e[1], e[2]), e[3])
  BY DEF low
<1>5. \A s \in 1..3 : s = 1 \/ s = 2 \/ s = 3
  OBVIOUS
<1> HIDE DEF new
<1> QED
  BY <1>2, <1>3, <1>4, <1>5

\* The last word of the files of some scopes, when e has the file of each scope.
LEMMA LastSaidIs ==
  ASSUME NEW P, NEW e, NEW K \in SUBSET (1..3), NEW f,
         \A p \in P : p[1] \in K /\ e[p[1]] # Nothing /\ v1[p] = e[p[1]],
         \A s \in K : e[s] # Nothing => \E p \in P : p[1] = s
  PROVE  LET X(s) == IF s \in K THEN Word(e[s], f) ELSE Nothing
         IN  Assembly!LastSaid(P, f) = Assembly!Or(X(3), Assembly!Or(X(2), X(1)))
<1> DEFINE X(s) == IF s \in K THEN Word(e[s], f) ELSE Nothing
           with == {p \in P : v1[p][f] # Nothing}
           c == CHOOSE p \in with : \A q \in with : q[1] <= p[1]
<1>1. Assembly!LastSaid(P, f) = IF with = {} THEN Nothing ELSE v1[c][f]
  BY DEF Assembly!LastSaid
<1>2. \A p \in with : p[1] \in 1..3 /\ v1[p][f] = X(p[1]) /\ X(p[1]) # Nothing
  BY DEF Word
<1>3. \A s \in 1..3 : X(s) # Nothing => \E p \in with : p[1] = s
  BY DEF Word
<1> HIDE DEF X, with
<1>4. CASE X(3) # Nothing \/ X(2) # Nothing \/ X(1) # Nothing
  <2>1. \E p \in with : \A q \in with : q[1] <= p[1]
    <3>1. CASE X(3) # Nothing
      BY <1>2, <1>3, <3>1
    <3>2. CASE X(3) = Nothing /\ X(2) # Nothing
      BY <1>2, <1>3, <3>2
    <3>3. CASE X(3) = Nothing /\ X(2) = Nothing /\ X(1) # Nothing
      BY <1>2, <1>3, <3>3
    <3> QED
      BY <1>4, <3>1, <3>2, <3>3
  <2>2. c \in with /\ \A q \in with : q[1] <= c[1]
    BY <2>1
  <2> HIDE DEF c
  <2>3. c[1] \in 1..3 /\ v1[c][f] = X(c[1]) /\ \A s \in 1..3 : X(s) # Nothing => s <= c[1]
    BY <1>2, <1>3, <2>2
  <2>4. X(c[1]) # Nothing
    BY <1>2, <2>2
  <2>5. X(c[1]) = Assembly!Or(X(3), Assembly!Or(X(2), X(1)))
    <3>1. CASE c[1] = 3
      BY <2>4, <3>1 DEF Assembly!Or
    <3>2. CASE c[1] = 2
      BY <2>3, <2>4, <3>2 DEF Assembly!Or
    <3>3. CASE c[1] = 1
      BY <2>3, <2>4, <3>3 DEF Assembly!Or
    <3> QED
      BY <2>3, <3>1, <3>2, <3>3
  <2>6. with # {}
    BY <2>2
  <2> QED
    BY <1>1, <2>3, <2>5, <2>6 DEF X
<1>5. CASE X(3) = Nothing /\ X(2) = Nothing /\ X(1) = Nothing
  <2>1. with = {}
    BY <1>2, <1>5
  <2>2. Assembly!Or(X(3), Assembly!Or(X(2), X(1))) = Nothing
    BY <1>5 DEF Assembly!Or
  <2> QED
    BY <1>1, <2>1, <2>2 DEF X
<1> QED
  BY <1>4, <1>5

\* Each file is before all that come after the next one, and no other is.
LEMMA AfterIsNext ==
  ASSUME Assembly!AssemblyAssumption, NEW q \in (1..4) \X (1..Slots), q[1] <= 3
  PROVE  /\ Assembly!After(q) \in (1..4) \X (1..Slots) /\ Assembly!After(q)[1] <= q[1] + 1
         /\ \A p \in (1..4) \X (1..Slots) :
              Assembly!Before(p, Assembly!After(q)) <=> Assembly!Before(p, q) \/ p = q
<1>1. Slots \in Nat \ {0} /\ q[1] \in 1..4 /\ q[2] \in 1..Slots /\ q = <<q[1], q[2]>>
  BY DEF Assembly!AssemblyAssumption
<1>2. ASSUME NEW p \in (1..4) \X (1..Slots)
      PROVE  Assembly!Before(p, Assembly!After(q)) <=> Assembly!Before(p, q) \/ p = q
  <2>1. p[1] \in 1..4 /\ p[2] \in 1..Slots /\ p = <<p[1], p[2]>>
    BY <1>2
  <2>2. p = q <=> p[1] = q[1] /\ p[2] = q[2]
    BY <1>1, <2>1
  <2> QED
    BY <1>1, <2>1, <2>2 DEF Assembly!Before, Assembly!After
<1> QED
  BY <1>1, <1>2 DEF Assembly!After

LEMMA CascadeOfScopes ==
  ASSUME Assembly!AssemblyAssumption, Assembly!TypeOK, NEW n \in AgentNames
  PROVE  LET e(s) == v5[s][n]
             Last(f) == Assembly!Or(Word(e(3), f), Assembly!Or(Word(e(2), f), Word(e(1), f)))
         IN  /\ Assembly!Cascade(n) \in Assembly!Definitions \cup {Nothing}
             /\ Assembly!Cascade(n) = Nothing <=> \A s \in 1..3 : e(s) = Nothing
             /\ Word(Assembly!Cascade(n), "body") = Last("body")
             /\ Word(Assembly!Cascade(n), "type") = Last("type")
             /\ \A f \in {"tool", "model", "class"} : Word(Assembly!Cascade(n), f) =
                  IF Word(e(3), "body") # Nothing THEN Word(e(3), f)
                  ELSE Assembly!Or(Word(e(3), f),
                                   IF Word(e(2), "body") # Nothing THEN Word(e(2), f)
                                   ELSE Assembly!Or(Word(e(2), f), Word(e(1), f)))
<1> DEFINE e == [s \in 1..3 |-> v5[s][n]]
<1>1. e \in [1..3 -> Assembly!Definitions \cup {Nothing}]
  BY DEF Assembly!TypeOK, Assembly!Scopes, Assembly!AssemblyAssumption
<1>2. e[1] = v5[1][n] /\ e[2] = v5[2][n] /\ e[3] = v5[3][n] /\ \A s \in 1..3 : e[s] = v5[s][n]
  OBVIOUS
<1>3. Assembly!Cascade(n) = Assembly!Layer(Assembly!Layer(e[1], e[2]), e[3])
  BY <1>2 DEF Assembly!Cascade
<1> HIDE DEF e
<1> QED
  BY <1>1, <1>2, <1>3, CascadeFields

\* An agent is built, or an error says why not, and nothing else changes.
LEMMA BuildDoes ==
  ASSUME NEW n, NEW role, Assembly!Build(n, role)
  PROVE  /\ v3 = "resolve" /\ v6 = {} /\ v3' = "built"
         /\ UNCHANGED <<v1, v2, v4, v5, v6, v7>>
         /\ v8'.is \in Assembly!Outcomes /\ v8'.of = n
         /\ v8'.is = "llm" => v7[n] # Nothing /\ v8'.tools = Assembly!ToolsFor(v7[n].tool)
<1> DEFINE e == v7[n]
           m == Assembly!Or(e.model, "fast")
           tools == Assembly!ToolsFor(e.tool)
           skills == Assembly!SkillsFor(role)
<1>1. /\ v3 = "resolve" /\ v6 = {} /\ v3' = "built"
      /\ UNCHANGED <<v1, v2, v4, v5, v6, v7>>
  BY Zenon DEF Assembly!Build
<1>2. v8' = IF e = Nothing THEN [is |-> "not found", of |-> n]
            ELSE IF e.type = "custom"
              THEN IF e.class = Nothing THEN [is |-> "no class", of |-> n]
                   ELSE IF e.class \notin Registered
                     THEN [is |-> "not registered", of |-> n]
                   ELSE [is |-> "custom", of |-> n, class |-> e.class, body |-> e.body]
            ELSE IF m \notin Models THEN [is |-> "no model", of |-> n]
            ELSE [is |-> "llm", of |-> n, model |-> m, tools |-> tools,
                  body |-> e.body, skills |-> skills]
  BY Zenon DEF Assembly!Build
<1> HIDE DEF e, m, tools, skills
<1> DEFINE new == v8'
<1> HIDE DEF new
<1>3. \/ new = [is |-> "not found", of |-> n]
      \/ new = [is |-> "no class", of |-> n]
      \/ new = [is |-> "not registered", of |-> n]
      \/ new = [is |-> "no model", of |-> n]
      \/ new = [is |-> "custom", of |-> n, class |-> e.class, body |-> e.body]
      \/ /\ e # Nothing
         /\ new = [is |-> "llm", of |-> n, model |-> m, tools |-> tools,
                   body |-> e.body, skills |-> skills]
  BY <1>2, Zenon DEF new
<1> DEFINE Right == /\ new.is \in Assembly!Outcomes /\ new.of = n
                    /\ new.is = "llm" => e # Nothing /\ new.tools = tools
<1>4. ASSUME NEW w, w \in Assembly!Outcomes, w # "llm", new = [is |-> w, of |-> n]
      PROVE  Right
  BY <1>4
<1>5. ASSUME new = [is |-> "custom", of |-> n, class |-> e.class, body |-> e.body]
      PROVE  Right
  BY <1>5 DEF Assembly!Outcomes
<1>6. ASSUME e # Nothing,
             new = [is |-> "llm", of |-> n, model |-> m, tools |-> tools,
                    body |-> e.body, skills |-> skills]
      PROVE  Right
  BY <1>6 DEF Assembly!Outcomes
<1> HIDE DEF Right
<1>7. Right
  <2>1. /\ "not found" \in Assembly!Outcomes /\ "no class" \in Assembly!Outcomes
        /\ "not registered" \in Assembly!Outcomes /\ "no model" \in Assembly!Outcomes
        /\ "llm" \notin {"not found", "no class", "not registered", "no model"}
    BY DEF Assembly!Outcomes
  <2> QED
    BY <1>3, <1>4, <1>5, <1>6, <2>1, Zenon
<1> QED
  BY <1>1, <1>7, Zenon DEF Right, new, e, tools

LEMMA AgentTypeStep ==
  ASSUME Assembly!AssemblyAssumption, Assembly!TypeOK, [Assembly!Next]_(Assembly!vars)
  PROVE  Assembly!TypeOK'
<1> USE DEF Assembly!TypeOK, Assembly!Scopes
<1>1. CASE Assembly!ParseNext
  <2> DEFINE e == v1[v4]
  <2>1. v4[1] \in 1..3 /\ v4 \in (1..3) \X (1..Slots)
    BY <1>1 DEF Assembly!ParseNext
  <2>2. e \in AgentFiles \cup {Nothing}
    BY <2>1
  <2>3. Assembly!After(v4) \in (1..4) \X (1..Slots) /\ Assembly!After(v4)[1] <= v4[1] + 1
    BY <2>1, AfterIsNext
  <2>4. UNCHANGED <<v1, v2, v6, v7, v8>> /\ v4[1] <= v2
    BY <1>1 DEF Assembly!ParseNext
  <2>5. CASE v4' = Assembly!After(v4) /\ UNCHANGED <<v3, v5>>
    BY <2>1, <2>3, <2>4, <2>5, <1>1 DEF Assembly!ParseNext
  <2>6. CASE v3' = "failed" /\ UNCHANGED <<v4, v5>>
    BY <2>4, <2>6, <1>1 DEF Assembly!ParseNext
  <2>7. CASE /\ e # Nothing /\ v5' = [v5 EXCEPT ![v4[1]][e.name] = e]
             /\ v4' = Assembly!After(v4) /\ UNCHANGED v3
    <3>1. e \in AgentFiles /\ e.name \in AgentNames
      BY <2>2, <2>7 DEF Assembly!AssemblyAssumption, Assembly!Definitions
    <3> HIDE DEF e
    <3>2. v5' \in [1..3 -> [AgentNames -> AgentFiles \cup {Nothing}]]
      BY <2>1, <2>7, <3>1
    <3> QED
      BY <2>3, <2>4, <2>7, <3>2, <1>1 DEF Assembly!ParseNext
  <2> QED
    BY <1>1, <2>5, <2>6, <2>7 DEF Assembly!ParseNext
<1>2. CASE Assembly!RejectCustom
  BY <1>2 DEF Assembly!RejectCustom
<1>3. CASE Assembly!ResolveNext
  <2> DEFINE n == CHOOSE n \in v6 : TRUE
  <2>1. n \in v6 /\ n \in AgentNames
    BY <1>3 DEF Assembly!ResolveNext
  <2>2. Assembly!Cascade(n) \in Assembly!Definitions \cup {Nothing}
    BY <2>1, CascadeOfScopes
  <2>3. v7' = [v7 EXCEPT ![n] = Assembly!Cascade(n)] /\ v6' = v6 \ {n}
        /\ UNCHANGED <<v1, v2, v3, v4, v5, v8>>
    BY <1>3 DEF Assembly!ResolveNext
  <2> HIDE DEF n
  <2> QED
    BY <2>1, <2>2, <2>3
<1>4. ASSUME NEW n \in AgentNames, NEW role \in Roles, Assembly!Build(n, role)
      PROVE  Assembly!TypeOK'
  BY <1>4, BuildDoes
<1>5. CASE UNCHANGED Assembly!vars
  BY <1>5 DEF Assembly!vars
<1> QED
  BY <1>1, <1>2, <1>3, <1>4, <1>5 DEF Assembly!Next

\* The scan reads one file after the other and fails at one that does not fit
\* those before it.
LEMMA ScopedIsReadStep ==
  ASSUME Assembly!AssemblyAssumption, Assembly!TypeOK, Assembly!ScopedIsRead,
         [Assembly!Next]_(Assembly!vars)
  PROVE  Assembly!ScopedIsRead'
<1> DEFINE Same == UNCHANGED <<v1, v2, v4, v5>>
<1>1. CASE Assembly!ParseNext
  <2> DEFINE e == v1[v4]  s == v4[1]
  <2>1. /\ v1' = v1 /\ v2' = v2 /\ s <= v2 /\ s \in 1..3
        /\ v4 \in (1..v2) \X (1..Slots) /\ v4 \in (1..4) \X (1..Slots) /\ v2 \in 1..3
    BY <1>1 DEF Assembly!ParseNext, Assembly!TypeOK, Assembly!Scopes
  <2>2. \A p : p \in Assembly!Seen => p \in (1..4) \X (1..Slots) /\ p[1] \in 1..3
    BY <2>1 DEF Assembly!Seen
  <2>3. Assembly!Seen' = Assembly!Seen
    BY <2>1 DEF Assembly!Seen
  <2>4. CASE v4' = Assembly!After(v4) /\ e = Nothing /\ v5' = v5
    <3>1. Assembly!Read' = Assembly!Read
      <4>1. \A p \in Assembly!Seen : p # v4
        BY <2>4 DEF Assembly!Seen
      <4>2. \A p \in Assembly!Seen :
              Assembly!Before(p, Assembly!After(v4)) <=> Assembly!Before(p, v4)
        BY <2>1, <2>2, <4>1, AfterIsNext
      <4> QED
        BY <2>3, <2>4, <4>2 DEF Assembly!Read
    <3> QED
      BY <2>1, <2>4, <3>1 DEF Assembly!ScopedIsRead
  <2>5. CASE Same
    BY <2>5 DEF Assembly!ScopedIsRead, Assembly!Read, Assembly!Seen, Assembly!Before
  <2>6. CASE /\ e # Nothing /\ e.parses /\ v5[s][e.name] = Nothing
             /\ v5' = [v5 EXCEPT ![s][e.name] = e] /\ v4' = Assembly!After(v4)
    <3>1. Assembly!Read' = Assembly!Read \cup {v4}
      <4>1. v4 \in Assembly!Seen
        BY <2>1, <2>6 DEF Assembly!Seen
      <4>2. \A p \in Assembly!Seen :
              Assembly!Before(p, Assembly!After(v4)) <=> Assembly!Before(p, v4) \/ p = v4
        BY <2>1, <2>2, AfterIsNext
      <4> QED
        BY <2>3, <2>6, <4>1, <4>2 DEF Assembly!Read
    <3>2. e \in AgentFiles /\ e.name \in AgentNames
      BY <2>1, <2>6 DEF Assembly!TypeOK, Assembly!Scopes, Assembly!AssemblyAssumption,
                        Assembly!Definitions
    <3>3. /\ v5' \in [1..3 -> [AgentNames -> AgentFiles \cup {Nothing}]]
          /\ v5'[s][e.name] = e
          /\ \A t \in 1..3, n \in AgentNames : t # s \/ n # e.name => v5'[t][n] = v5[t][n]
      BY <2>1, <2>6, <3>2 DEF Assembly!TypeOK, Assembly!Scopes
    <3>4. ASSUME NEW p \in Assembly!Read
          PROVE  /\ p \in Assembly!Seen /\ p[1] \in 1..3 /\ v1[p] # Nothing
                 /\ v1[p].name \in AgentNames /\ v1[p].parses /\ v5[p[1]][v1[p].name] = v1[p]
      <4>1. p \in Assembly!Seen /\ p[1] \in 1..3
        BY <2>2 DEF Assembly!Read
      <4>2. v1[p] \in AgentFiles /\ v1[p] # Nothing
        BY <2>1, <4>1 DEF Assembly!Seen, Assembly!TypeOK, Assembly!Scopes
      <4> QED
        BY <4>1, <4>2 DEF Assembly!ScopedIsRead, Assembly!AssemblyAssumption,
                          Assembly!Definitions
    <3>5. \A p \in Assembly!Read : ~ (p[1] = s /\ v1[p].name = e.name)
      BY <2>6, <3>4
    <3>6. \A p \in Assembly!Read \cup {v4} :
            v1[p].parses /\ v5'[p[1]][v1[p].name] = v1[p]
      BY <2>6, <3>3, <3>4, <3>5
    <3>7. \A p, q \in Assembly!Read \cup {v4} :
            p[1] = q[1] /\ v1[p].name = v1[q].name => p = q
      BY <3>5 DEF Assembly!ScopedIsRead
    <3>8. \A t \in 1..3, n \in AgentNames : v5'[t][n] # Nothing =>
            \E p \in Assembly!Read \cup {v4} : p[1] = t /\ v1[p].name = n
      <4>1. ASSUME NEW t \in 1..3, NEW n \in AgentNames, v5'[t][n] # Nothing
            PROVE  \E p \in Assembly!Read \cup {v4} : p[1] = t /\ v1[p].name = n
        <5>1. CASE t = s /\ n = e.name
          BY <5>1
        <5>2. CASE t # s \/ n # e.name
          <6>1. v5[t][n] # Nothing
            BY <3>3, <4>1, <5>2
          <6> QED
            BY <6>1 DEF Assembly!ScopedIsRead, Assembly!Scopes
        <5> QED
          BY <5>1, <5>2
      <4> QED
        BY <4>1
    <3> HIDE DEF e, s
    <3> QED
      BY <2>1, <3>1, <3>6, <3>7, <3>8 DEF Assembly!ScopedIsRead, Assembly!Scopes
  <2> QED
    BY <1>1, <2>1, <2>4, <2>5, <2>6 DEF Assembly!ParseNext
<1>2. CASE Assembly!RejectCustom \/ Assembly!ResolveNext
  <2>1. Same
    BY <1>2 DEF Assembly!RejectCustom, Assembly!ResolveNext
  <2> QED
    BY <2>1 DEF Assembly!ScopedIsRead, Assembly!Read, Assembly!Seen, Assembly!Before
<1>3. ASSUME NEW n \in AgentNames, NEW role \in Roles, Assembly!Build(n, role)
      PROVE  Assembly!ScopedIsRead'
  <2>1. Same
    BY <1>3, BuildDoes
  <2> QED
    BY <2>1 DEF Assembly!ScopedIsRead, Assembly!Read, Assembly!Seen, Assembly!Before
<1>4. CASE UNCHANGED Assembly!vars
  <2>1. Same
    BY <1>4 DEF Assembly!vars
  <2> QED
    BY <2>1 DEF Assembly!ScopedIsRead, Assembly!Read, Assembly!Seen, Assembly!Before
<1> QED
  BY <1>1, <1>2, <1>3, <1>4 DEF Assembly!Next

\* What is read when the job has read its directories.
LEMMA ReadIsSeen ==
  ASSUME Assembly!TypeOK, v4[1] > v2
  PROVE  Assembly!Read = Assembly!Seen
<1>1. \A p \in Assembly!Seen : p[1] \in 1..v2
  BY DEF Assembly!Seen
<1>2. v4[1] \in Nat /\ v2 \in Nat
  BY DEF Assembly!TypeOK, Assembly!Scopes
<1>3. \A p \in Assembly!Seen : Assembly!Before(p, v4)
  BY <1>1, <1>2 DEF Assembly!Before
<1> QED
  BY <1>3 DEF Assembly!Read

LEMMA ResolvedIsCascadeStep ==
  ASSUME Assembly!AssemblyAssumption, Assembly!TypeOK, Assembly!ScopedIsRead,
         Assembly!ResolvedIsCascade, [Assembly!Next]_(Assembly!vars)
  PROVE  Assembly!ResolvedIsCascade'
<1> DEFINE Bad == Assembly!Bad
<1>0. /\ v2 \in 1..3 /\ v3 \in {"parse", "failed", "resolve", "built"}
      /\ v4 \in (1..4) \X (1..Slots) /\ v6 \subseteq AgentNames
      /\ v5 \in [1..3 -> [AgentNames -> AgentFiles \cup {Nothing}]]
      /\ v7 \in [AgentNames -> Assembly!Definitions \cup {Nothing}]
      /\ v1 \in [(1..3) \X (1..Slots) -> AgentFiles \cup {Nothing}]
  BY DEF Assembly!TypeOK, Assembly!Scopes
<1>1. ASSUME v1' = v1, v2' = v2
      PROVE  Bad' = Bad
  <2>1. Assembly!Seen' = Assembly!Seen
    BY <1>1 DEF Assembly!Seen
  <2> QED
    BY <1>1, <2>1 DEF Assembly!Bad
<1>2. \A p \in Assembly!Seen : /\ p \in (1..3) \X (1..Slots) /\ p[1] \in 1..3
                               /\ v1[p] \in AgentFiles /\ v1[p].name \in AgentNames
                               /\ v1[p] # Nothing
  <2>1. \A p \in Assembly!Seen : p \in (1..3) \X (1..Slots) /\ p[1] \in 1..3 /\ v1[p] # Nothing
    BY <1>0 DEF Assembly!Seen
  <2>2. \A p \in Assembly!Seen : v1[p] \in AgentFiles
    BY <1>0, <2>1
  <2> QED
    BY <2>1, <2>2 DEF Assembly!AssemblyAssumption, Assembly!Definitions
<1>3. Assembly!Read \subseteq Assembly!Seen
  BY DEF Assembly!Read
<1>4. ASSUME UNCHANGED <<v1, v2, v3, v4, v5, v6, v7, v8>>
      PROVE  Assembly!ResolvedIsCascade'
  BY <1>1, <1>4 DEF Assembly!ResolvedIsCascade, Assembly!Cascade
<1>5. CASE Assembly!ParseNext
  <2> DEFINE e == v1[v4]  s == v4[1]
  <2>1. /\ v1' = v1 /\ v2' = v2 /\ v6' = v6 /\ v7' = v7 /\ v8' = v8 /\ v3 = "parse"
        /\ s <= v2 /\ v4 \in (1..v2) \X (1..Slots) /\ s \in 1..3
    BY <1>0, <1>5 DEF Assembly!ParseNext
  <2>2. v3' = "parse" \/ (v3' = "failed" /\ e # Nothing
                          /\ (~e.parses \/ v5[s][e.name] # Nothing))
    BY <1>5, <2>1 DEF Assembly!ParseNext
  <2>3. ASSUME e # Nothing, ~e.parses \/ v5[s][e.name] # Nothing
        PROVE  Bad
    <3>1. v4 \in Assembly!Seen
      BY <2>1, <2>3 DEF Assembly!Seen
    <3>2. CASE ~e.parses
      BY <3>1, <3>2 DEF Assembly!Bad
    <3>3. CASE v5[s][e.name] # Nothing
      <4>1. PICK p \in Assembly!Read : p[1] = s /\ v1[p].name = e.name
        BY <1>2, <2>1, <3>1, <3>3 DEF Assembly!ScopedIsRead, Assembly!Scopes
      <4>2. p # v4
        BY <1>0, <4>1 DEF Assembly!Read, Assembly!Before
      <4> QED
        BY <1>3, <3>1, <4>1, <4>2 DEF Assembly!Bad
    <3> QED
      BY <2>3, <3>2, <3>3
  <2> QED
    BY <1>1, <2>1, <2>2, <2>3 DEF Assembly!ResolvedIsCascade
<1>6. CASE Assembly!RejectCustom
  <2>1. /\ v3 = "parse" /\ v4[1] > v2 /\ UNCHANGED <<v1, v2, v4, v5, v7, v8>>
        /\ \A n \in AgentNames : v7[n] = Nothing
    BY <1>6 DEF Assembly!RejectCustom, Assembly!ResolvedIsCascade
  <2>2. Assembly!Read = Assembly!Seen
    BY <2>1, ReadIsSeen
  <2>3. CASE \E n \in AgentNames : v5[3][n] # Nothing /\ v5[3][n].type = "custom"
    <3>1. PICK n \in AgentNames : v5[3][n] # Nothing /\ v5[3][n].type = "custom"
      BY <2>3
    <3>2. PICK p \in Assembly!Read : p[1] = 3 /\ v1[p].name = n
      BY <3>1 DEF Assembly!ScopedIsRead, Assembly!Scopes
    <3>3. v1[p] = v5[3][n]
      BY <3>2 DEF Assembly!ScopedIsRead
    <3>4. Bad
      BY <2>2, <3>1, <3>2, <3>3 DEF Assembly!Bad
    <3> QED
      BY <1>1, <1>6, <2>1, <2>3, <3>4 DEF Assembly!RejectCustom, Assembly!ResolvedIsCascade
  <2>4. CASE ~ \E n \in AgentNames : v5[3][n] # Nothing /\ v5[3][n].type = "custom"
    <3>1. \A p \in Assembly!Seen : v1[p].parses /\ ~ (p[1] = 3 /\ v1[p].type = "custom")
      BY <1>2, <2>2, <2>4 DEF Assembly!ScopedIsRead
    <3>2. \A p, q \in Assembly!Seen : p[1] = q[1] /\ v1[p].name = v1[q].name => p = q
      BY <2>2 DEF Assembly!ScopedIsRead
    <3>3. ~Bad
      BY <3>1, <3>2 DEF Assembly!Bad
    <3>4. v3' = "resolve" /\ v6' = {n \in AgentNames : \E s \in 1..3 : v5[s][n] # Nothing}
      BY <1>6, <2>4 DEF Assembly!RejectCustom, Assembly!Scopes
    <3>5. \A n \in AgentNames \ v6' : v5[1][n] = Nothing /\ v5[2][n] = Nothing /\ v5[3][n] = Nothing
      BY <3>4
    <3>6. \A n \in AgentNames \ v6' : v7'[n] = Assembly!Cascade(n)'
      BY <2>1, <3>5 DEF Assembly!Cascade, Assembly!Layer
    <3> QED
      BY <1>1, <2>1, <3>3, <3>4, <3>6 DEF Assembly!ResolvedIsCascade
  <2> QED
    BY <2>3, <2>4
<1>7. CASE Assembly!ResolveNext
  <2> DEFINE n == CHOOSE n \in v6 : TRUE
  <2>1. /\ n \in v6 /\ v7' = [v7 EXCEPT ![n] = Assembly!Cascade(n)] /\ v6' = v6 \ {n}
        /\ UNCHANGED <<v1, v2, v3, v4, v5, v8>> /\ v3 = "resolve"
    BY <1>7 DEF Assembly!ResolveNext
  <2> HIDE DEF n
  <2>2. /\ v4[1] > v2 /\ ~Bad
        /\ \A m \in AgentNames \ v6 : v7[m] = Assembly!Cascade(m)
    BY <2>1 DEF Assembly!ResolvedIsCascade
  <2>3. \A m \in AgentNames \ v6' : v7'[m] = Assembly!Cascade(m)
    BY <1>0, <2>1, <2>2
  <2>4. \A m \in AgentNames : Assembly!Cascade(m)' = Assembly!Cascade(m)
    BY <2>1 DEF Assembly!Cascade
  <2> QED
    BY <1>1, <2>1, <2>2, <2>3, <2>4 DEF Assembly!ResolvedIsCascade
<1>8. ASSUME NEW n \in AgentNames, NEW role \in Roles, Assembly!Build(n, role)
      PROVE  Assembly!ResolvedIsCascade'
  <2>1. /\ UNCHANGED <<v1, v2, v4, v5, v6, v7>> /\ v3 = "resolve" /\ v3' = "built" /\ v6 = {}
    BY <1>8, BuildDoes
  <2>2. /\ v4[1] > v2 /\ ~Bad
        /\ \A m \in AgentNames : v7[m] = Assembly!Cascade(m)
    BY <2>1 DEF Assembly!ResolvedIsCascade
  <2>3. \A m \in AgentNames : Assembly!Cascade(m)' = Assembly!Cascade(m)
    BY <2>1 DEF Assembly!Cascade
  <2>4. v8'.is = "llm" => /\ v8'.of = n /\ v7[n] # Nothing
                          /\ v8'.tools = Assembly!ToolsFor(v7[n].tool)
    BY <1>8, BuildDoes
  <2> QED
    BY <1>1, <2>1, <2>2, <2>3, <2>4 DEF Assembly!ResolvedIsCascade
<1> QED
  BY <1>4, <1>5, <1>6, <1>7, <1>8 DEF Assembly!Next, Assembly!vars

\* What is said of an agent, scope by scope, in a job that resolves.
LEMMA SaidIsScoped ==
  ASSUME Assembly!AssemblyAssumption, Assembly!TypeOK, Assembly!ScopedIsRead,
         v4[1] > v2, NEW n \in AgentNames
  PROVE  /\ \A p \in Assembly!Said(n) :
              p[1] \in 1..3 /\ v5[p[1]][n] # Nothing /\ v1[p] = v5[p[1]][n]
         /\ \A s \in 1..3 : v5[s][n] # Nothing => \E p \in Assembly!Said(n) : p[1] = s
<1>1. Assembly!Read = Assembly!Seen
  BY ReadIsSeen
<1>2. \A p \in Assembly!Said(n) : p \in Assembly!Seen /\ v1[p].name = n /\ p[1] \in 1..3 /\ v1[p] # Nothing
  BY DEF Assembly!Said, Assembly!Seen, Assembly!TypeOK, Assembly!Scopes
<1>3. \A p \in Assembly!Said(n) : v1[p] = v5[p[1]][n]
  BY <1>1, <1>2 DEF Assembly!ScopedIsRead
<1>4. \A s \in 1..3 : v5[s][n] # Nothing => \E p \in Assembly!Said(n) : p[1] = s
  BY <1>1 DEF Assembly!ScopedIsRead, Assembly!Scopes, Assembly!Said
<1> QED
  BY <1>2, <1>3, <1>4

\* So the cascade is the last word, above the scope whose body counts.
LEMMA CascadeIsSaid ==
  ASSUME Assembly!AssemblyAssumption, Assembly!TypeOK, Assembly!ScopedIsRead,
         v4[1] > v2, NEW n \in AgentNames
  PROVE  LET d == Assembly!Cascade(n)
         IN  /\ d = Nothing <=> Assembly!Said(n) = {}
             /\ Word(d, "body") = Assembly!LastSaid(Assembly!Said(n), "body")
             /\ Word(d, "type") = Assembly!LastSaid(Assembly!Said(n), "type")
             /\ \A f \in {"tool", "model", "class"} :
                  Word(d, f) = Assembly!LastSaid(Assembly!Base(n), f)
<1> DEFINE e == [s \in 1..3 |-> v5[s][n]]
           Said == Assembly!Said(n)
           Base == Assembly!Base(n)
           K == {s \in 1..3 : \A t \in 1..3 : Word(e[t], "body") # Nothing => t <= s}
           d == Assembly!Cascade(n)
<1>1. /\ \A p \in Said : p[1] \in 1..3 /\ e[p[1]] # Nothing /\ v1[p] = e[p[1]]
      /\ \A s \in 1..3 : e[s] # Nothing => \E p \in Said : p[1] = s
  BY SaidIsScoped
<1>2. Base = {p \in Said : p[1] \in K}
  <2>1. \A p \in Said : (\A q \in Said : v1[q].body # Nothing => q[1] <= p[1]) <=> p[1] \in K
    <3>1. ASSUME NEW p \in Said, NEW t \in 1..3, Word(e[t], "body") # Nothing,
                 \A q \in Said : v1[q].body # Nothing => q[1] <= p[1]
          PROVE  t <= p[1]
      <4>1. e[t] # Nothing /\ e[t]["body"] # Nothing
        BY <3>1 DEF Word
      <4>2. PICK q \in Said : q[1] = t
        BY <1>1, <4>1
      <4>3. v1[q].body # Nothing
        BY <1>1, <4>1, <4>2
      <4> QED
        BY <3>1, <4>2, <4>3
    <3>2. ASSUME NEW p \in Said, p[1] \in K, NEW q \in Said, v1[q].body # Nothing
          PROVE  q[1] <= p[1]
      <4>1. Word(e[q[1]], "body") # Nothing /\ q[1] \in 1..3
        BY <1>1, <3>2 DEF Word
      <4> QED
        BY <3>2, <4>1
    <3> HIDE DEF e
    <3> QED
      BY <1>1, <3>1, <3>2
  <2> QED
    BY <2>1 DEF Assembly!Base
<1>3. /\ d = Nothing <=> \A s \in 1..3 : e[s] = Nothing
      /\ Word(d, "body") = Assembly!Or(Word(e[3], "body"),
                             Assembly!Or(Word(e[2], "body"), Word(e[1], "body")))
      /\ Word(d, "type") = Assembly!Or(Word(e[3], "type"),
                             Assembly!Or(Word(e[2], "type"), Word(e[1], "type")))
      /\ \A f \in {"tool", "model", "class"} : Word(d, f) =
           IF Word(e[3], "body") # Nothing THEN Word(e[3], f)
           ELSE Assembly!Or(Word(e[3], f),
                            IF Word(e[2], "body") # Nothing THEN Word(e[2], f)
                            ELSE Assembly!Or(Word(e[2], f), Word(e[1], f)))
  BY CascadeOfScopes
<1>k. /\ K \in SUBSET (1..3) /\ 3 \in K /\ 1 \in 1..3 /\ 2 \in 1..3 /\ 3 \in 1..3
      /\ 2 \in K <=> Word(e[3], "body") = Nothing
      /\ 1 \in K <=> Word(e[3], "body") = Nothing /\ Word(e[2], "body") = Nothing
  <2>1. \A t \in 1..3 : t = 1 \/ t = 2 \/ t = 3
    OBVIOUS
  <2> HIDE DEF e
  <2> QED
    BY <2>1
<1> HIDE DEF e, d, K, Said, Base
<1>4. ASSUME NEW f
      PROVE  Assembly!LastSaid(Said, f) =
               Assembly!Or(Word(e[3], f), Assembly!Or(Word(e[2], f), Word(e[1], f)))
  <2> DEFINE Three == 1..3
  <2>1. Three \in SUBSET (1..3) /\ 1 \in Three /\ 2 \in Three /\ 3 \in Three
    OBVIOUS
  <2>2. /\ \A p \in Said : p[1] \in Three /\ e[p[1]] # Nothing /\ v1[p] = e[p[1]]
        /\ \A s \in Three : e[s] # Nothing => \E p \in Said : p[1] = s
    BY <1>1
  <2> HIDE DEF Three
  <2> QED
    BY <2>1, <2>2, LastSaidIs
<1>5. ASSUME NEW f
      PROVE  LET X(s) == IF s \in K THEN Word(e[s], f) ELSE Nothing
             IN  Assembly!LastSaid(Base, f) = Assembly!Or(X(3), Assembly!Or(X(2), X(1)))
  <2>1. /\ \A p \in Base : p[1] \in K /\ e[p[1]] # Nothing /\ v1[p] = e[p[1]]
        /\ \A s \in K : e[s] # Nothing => \E p \in Base : p[1] = s
    BY <1>1, <1>2, <1>k
  <2> QED
    BY <1>k, <2>1, LastSaidIs
<1>6. ASSUME NEW f \in {"tool", "model", "class"}
      PROVE  Word(d, f) = Assembly!LastSaid(Base, f)
  BY <1>3, <1>5, <1>k DEF Assembly!Or
<1>7. d = Nothing <=> Said = {}
  <2>1. (\A s \in 1..3 : e[s] = Nothing) <=> Said = {}
    BY <1>1
  <2> QED
    BY <1>3, <2>1
<1> QED
  BY <1>3, <1>4, <1>6, <1>7 DEF Said, Base, d

(***************************************************************************)
(* What is invariant of the assembly of agents.                            *)
(***************************************************************************)
AgentInv ==
  part = "agents" =>
    Assembly!TypeOK /\ Assembly!ScopedIsRead /\ Assembly!ResolvedIsCascade

LEMMA AgentInit ==
  ASSUME Assembly!AssemblyAssumption, Assembly!Init
  PROVE  Assembly!TypeOK /\ Assembly!ScopedIsRead /\ Assembly!ResolvedIsCascade
<1> USE DEF Assembly!Init, Assembly!Scopes
<1>1. Slots \in Nat \ {0}
  BY DEF Assembly!AssemblyAssumption
<1>2. Assembly!TypeOK
  <2>1. v1 \in [(1..3) \X (1..Slots) -> AgentFiles \cup {Nothing}]
    BY DEF Assembly!AssemblyAssumption
  <2> QED
    BY <1>1, <2>1 DEF Assembly!TypeOK
<1>3. \A p \in Assembly!Seen : ~Assembly!Before(p, v4)
  BY <1>1 DEF Assembly!Seen, Assembly!Before
<1>4. Assembly!Read = {}
  BY <1>3 DEF Assembly!Read
<1> QED
  BY <1>2, <1>4 DEF Assembly!ScopedIsRead, Assembly!ResolvedIsCascade

\* An agent is what the scopes say of it, for any names and roles, any number of
\* files in each scope and whatever they say, and has the tools of the role that
\* results; the job fails just when a file it scans does not fit.
THEOREM ResolutionIsLayeredHolds == Spec => []ResolutionIsLayered
<1>0. Assembly!AssemblyAssumption
  BY ServicesAssumption
<1>1. Init => AgentInv
  BY <1>0, AgentInit DEF Init, AgentInv
<1>2. AgentInv /\ [Next]_vars => AgentInv'
  BY <1>0, StepOfPart, AgentTypeStep, ScopedIsReadStep, ResolvedIsCascadeStep DEF AgentInv
<1>3. AgentInv => ResolutionIsLayered
  <2> SUFFICES ASSUME Assembly!TypeOK, Assembly!ScopedIsRead, Assembly!ResolvedIsCascade
               PROVE  Assembly!ResolutionIsLayered
    BY DEF AgentInv, ResolutionIsLayered
  <2>1. ASSUME v3 \in {"resolve", "built"}, NEW n \in AgentNames \ v6
        PROVE  /\ v7[n] = Nothing <=> Assembly!Said(n) = {}
               /\ Assembly!Said(n) # {} =>
                    /\ v7[n].body = Assembly!LastSaid(Assembly!Said(n), "body")
                    /\ v7[n].type = Assembly!LastSaid(Assembly!Said(n), "type")
                    /\ \A f \in {"tool", "model", "class"} :
                         v7[n][f] = Assembly!LastSaid(Assembly!Base(n), f)
    <3>1. v4[1] > v2 /\ v7[n] = Assembly!Cascade(n)
      BY <2>1 DEF Assembly!ResolvedIsCascade
    <3>2. /\ v7[n] = Nothing <=> Assembly!Said(n) = {}
          /\ Word(v7[n], "body") = Assembly!LastSaid(Assembly!Said(n), "body")
          /\ Word(v7[n], "type") = Assembly!LastSaid(Assembly!Said(n), "type")
          /\ \A f \in {"tool", "model", "class"} :
               Word(v7[n], f) = Assembly!LastSaid(Assembly!Base(n), f)
      BY <1>0, <3>1, CascadeIsSaid
    <3> QED
      BY <3>2 DEF Word
  <2>2. ASSUME v3 = "built", v8.is = "llm"
        PROVE  v8.tools = Assembly!ToolsFor(Assembly!LastSaid(Assembly!Base(v8.of), "tool"))
    <3> DEFINE n == v8.of
    <3>1. n \in AgentNames \ v6 /\ v7[n] # Nothing /\ v8.tools = Assembly!ToolsFor(v7[n].tool)
      BY <2>2 DEF Assembly!ResolvedIsCascade, Assembly!TypeOK
    <3>2. v7[n]["tool"] = Assembly!LastSaid(Assembly!Base(n), "tool")
      BY <2>1, <2>2, <3>1
    <3> QED
      BY <3>1, <3>2
  <2> QED
    BY <2>1, <2>2 DEF Assembly!ResolutionIsLayered, Assembly!ResolvedIsCascade
<1> QED
  BY <1>1, <1>2, <1>3, PTL DEF Spec

-----------------------------------------------------------------------------
(***************************************************************************)
(* WorkflowCatalog.  Its disk is v1, changes v2, copy v3, process v4,      *)
(* known v5, projects v6 and last v7.                                      *)
(***************************************************************************)
\* A scan has, of every name of a readable manifest, the first of the user's
\* directories that has it, or else the first built-in one.
LEMMA CatalogScan ==
  ASSUME Catalog!CatalogAssumption, NEW d \in [Catalog!Dirs -> ManifestFiles \cup {Nothing}]
  PROVE  /\ Catalog!Scan(d) \in [WorkflowNames -> 0..WorkflowPlaces]
         /\ \A n \in WorkflowNames :
              LET k == Catalog!Scan(d)[n]
              IN  IF \A f \in Catalog!Dirs : Catalog!Parses(d, f) => d[f].name # n THEN k = 0
                  ELSE /\ k \in Catalog!Dirs /\ Catalog!Parses(d, k) /\ d[k].name = n
                       /\ \A j \in Catalog!Dirs : Catalog!Parses(d, j) /\ d[j].name = n =>
                            /\ Catalog!Scope(j) = "user" => Catalog!Scope(k) = "user"
                            /\ Catalog!Scope(j) = Catalog!Scope(k) => k <= j
<1> DEFINE N == WorkflowPlaces
           P == {f \in Catalog!Dirs : Catalog!Parses(d, f)}
           nm == [f \in P |-> d[f].name]
           sc == [f \in 1..N |-> IF f <= BuiltIn THEN 1 ELSE 2]
           Body(u) == [k \in 0..N |->
                         IF k = 0 THEN [n \in WorkflowNames |-> 0]
                         ELSE IF /\ Catalog!Parses(d, k)
                                 /\ Catalog!Parses(d, k) =>
                                      \/ u[k - 1][d[k].name] = 0
                                      \/ Catalog!Scope(u[k - 1][d[k].name]) # Catalog!Scope(k)
                                THEN [u[k - 1] EXCEPT ![d[k].name] = k] ELSE u[k - 1]]
           U == CHOOSE u : u = Body(u)
<1>1. Catalog!Scan(d) = U[N]
  BY DEF Catalog!Scan
<1>2. /\ N \in Nat /\ BuiltIn \in 0..N /\ Catalog!Dirs = 1..N
      /\ P \in SUBSET (1..N) /\ nm \in [P -> WorkflowNames]
  BY DEF Catalog!CatalogAssumption, Catalog!Dirs, Catalog!Parses
<1>3. sc \in [1..N -> Nat] /\ \A i, j \in 1..N : i < j => sc[i] <= sc[j]
  BY <1>2
<1>s. \A i, j \in 1..N : /\ Catalog!Scope(i) = Catalog!Scope(j) <=> sc[i] = sc[j]
                         /\ sc[i] <= sc[j] => (Catalog!Scope(i) = "user" => Catalog!Scope(j) = "user")
  BY <1>2 DEF Catalog!Scope
<1>4. \A f \in 1..N : /\ f \in P <=> Catalog!Parses(d, f)
                      /\ f \in P => nm[f] = d[f].name
  BY <1>2
<1> HIDE DEF N, P, nm, sc
<1>5. PICK g : IsScan(g, N, WorkflowNames, P, nm, sc)
  BY <1>2, <1>3, ScanExists
<1>6. /\ g \in [0..N -> [WorkflowNames -> 0..N]] /\ g[0] = [n \in WorkflowNames |-> 0]
      /\ g[N] \in [WorkflowNames -> 0..N]
  <2>1. g \in [0..N -> [WorkflowNames -> 0..N]] /\ \A n \in WorkflowNames : g[0][n] = 0
    BY <1>5 DEF IsScan
  <2> QED
    BY <1>2, <2>1
<1>7. \A f \in 0..N : g[f] = Body(g)[f]
  <2>1. ASSUME NEW f \in 1..N
        PROVE  g[f] = Body(g)[f]
    <3>1. f \in 0..N /\ f # 0 /\ f - 1 \in 0..N
      BY <1>2
    <3>2. g[f] = IF f \in P /\ (g[f - 1][nm[f]] = 0 \/ sc[g[f - 1][nm[f]]] # sc[f])
                   THEN [g[f - 1] EXCEPT ![nm[f]] = f] ELSE g[f - 1]
      BY <1>5 DEF IsScan
    <3>3. f \in P => g[f - 1][nm[f]] \in 0..N
      BY <1>2, <1>6, <3>1
    <3>4. \A i \in 0..N : i # 0 => i \in 1..N
      BY <1>2
    <3>5. f \in P /\ g[f - 1][nm[f]] # 0 =>
            (Catalog!Scope(g[f - 1][nm[f]]) = Catalog!Scope(f) <=> sc[g[f - 1][nm[f]]] = sc[f])
      BY <1>s, <3>3, <3>4
    <3> QED
      BY <1>4, <3>1, <3>2, <3>5
  <2>2. \A f \in 0..N : f = 0 \/ f \in 1..N
    BY <1>2
  <2>3. 0 \in 0..N
    BY <1>2
  <2> QED
    BY <1>6, <2>1, <2>2, <2>3
<1>8. g = Body(g)
  BY <1>6, <1>7
<1>9. U = Body(U)
  <2> HIDE DEF Body
  <2> QED
    BY <1>8
<1>10. U[N] = g[N]
  <2> HIDE DEF U
  <2>1. U[0] = g[0]
    <3>1. 0 \in 0..N
      BY <1>2
    <3>2. Body(U)[0] = Body(g)[0]
      BY <3>1
    <3> HIDE DEF Body
    <3> QED
      BY <1>8, <1>9, <3>2
  <2>2. ASSUME NEW f \in 1..N, U[f - 1] = g[f - 1]
        PROVE  U[f] = g[f]
    <3>1. f \in 0..N /\ f # 0
      BY <1>2
    <3>2. Body(U)[f] = Body(g)[f]
      BY <2>2, <3>1
    <3> HIDE DEF Body
    <3> QED
      BY <1>8, <1>9, <3>2
  <2> HIDE DEF Body
  <2> QED
    BY <1>2, <2>1, <2>2, SameScan
<1> HIDE DEF U, Body
<1>11. \A n \in WorkflowNames : IsPick(g[N][n], n, P, nm, sc)
  BY <1>2, <1>3, <1>5, ScanPicks
<1>12. Catalog!Scan(d) \in [WorkflowNames -> 0..WorkflowPlaces]
  BY <1>1, <1>6, <1>10 DEF N
<1>13. ASSUME NEW n \in WorkflowNames
       PROVE  LET k == Catalog!Scan(d)[n]
              IN  IF \A f \in Catalog!Dirs : Catalog!Parses(d, f) => d[f].name # n THEN k = 0
                  ELSE /\ k \in Catalog!Dirs /\ Catalog!Parses(d, k) /\ d[k].name = n
                       /\ \A j \in Catalog!Dirs : Catalog!Parses(d, j) /\ d[j].name = n =>
                            /\ Catalog!Scope(j) = "user" => Catalog!Scope(k) = "user"
                            /\ Catalog!Scope(j) = Catalog!Scope(k) => k <= j
  <2> DEFINE k == Catalog!Scan(d)[n]
  <2>1. IsPick(k, n, P, nm, sc)
    BY <1>1, <1>10, <1>11
  <2> HIDE DEF k
  <2>2. CASE \A f \in P : nm[f] # n
    BY <1>2, <1>4, <2>1, <2>2 DEF IsPick, k
  <2>3. CASE ~ \A f \in P : nm[f] # n
    <3>1. /\ k \in P /\ nm[k] = n
          /\ \A j \in P : nm[j] = n => sc[j] <= sc[k] /\ (sc[j] = sc[k] => k <= j)
      BY <2>1, <2>3 DEF IsPick
    <3>2. k \in 1..N
      BY <1>2, <3>1
    <3>3. ASSUME NEW j \in 1..N, j \in P, nm[j] = n
          PROVE  /\ Catalog!Scope(j) = "user" => Catalog!Scope(k) = "user"
                 /\ Catalog!Scope(j) = Catalog!Scope(k) => k <= j
      BY <1>s, <3>1, <3>2, <3>3
    <3>4. k \in Catalog!Dirs /\ Catalog!Parses(d, k) /\ d[k].name = n
      BY <1>2, <1>4, <3>1, <3>2
    <3>5. \A j \in Catalog!Dirs : Catalog!Parses(d, j) /\ d[j].name = n =>
            /\ Catalog!Scope(j) = "user" => Catalog!Scope(k) = "user"
            /\ Catalog!Scope(j) = Catalog!Scope(k) => k <= j
      BY <1>2, <1>4, <3>3
    <3>6. ~ \A f \in Catalog!Dirs : Catalog!Parses(d, f) => d[f].name # n
      BY <3>4
    <3> QED
      BY <3>4, <3>5, <3>6 DEF k
  <2> QED
    BY <2>2, <2>3
<1> QED
  BY <1>12, <1>13

\* What a process scans is new, and has a manifest of every name it knows.
LEMMA CatalogSnapshot ==
  ASSUME Catalog!CatalogAssumption, Catalog!TypeOK
  PROVE  /\ Catalog!Snapshot \in Catalog!Indexes
         /\ Catalog!Snapshot.at = v2 + 1 /\ Catalog!Snapshot.of = Catalog!Scan(v1)
         /\ \A n \in WorkflowNames :
              Catalog!Snapshot.of[n] # 0 => Catalog!Snapshot.as[n] \in ManifestFiles
<1> DEFINE at == Catalog!Scan(v1)
           as == [n \in WorkflowNames |-> IF at[n] = 0 THEN Nothing ELSE v1[at[n]]]
<1>1. v1 \in [Catalog!Dirs -> ManifestFiles \cup {Nothing}] /\ v2 \in Nat
  BY DEF Catalog!TypeOK
<1>2. at \in [WorkflowNames -> 0..WorkflowPlaces]
  BY <1>1, CatalogScan
<1>3. ASSUME NEW n \in WorkflowNames, at[n] # 0
      PROVE  at[n] \in Catalog!Dirs /\ Catalog!Parses(v1, at[n])
  BY <1>1, <1>3, CatalogScan
<1>4. \A n \in WorkflowNames : at[n] # 0 => v1[at[n]] \in ManifestFiles
  BY <1>1, <1>3 DEF Catalog!Parses
<1> HIDE DEF at
<1>5. as \in [WorkflowNames -> ManifestFiles \cup {Nothing}]
  BY <1>4
<1>6. Catalog!Snapshot = [at |-> v2 + 1, of |-> at, as |-> as]
  BY DEF Catalog!Snapshot, at
<1> QED
  BY <1>1, <1>2, <1>4, <1>5, <1>6 DEF Catalog!Indexes, at

\* Indexes that have a manifest of every name they know.
FullIndexes == {ix \in Catalog!Indexes :
                  \A n \in WorkflowNames : ix.of[n] # 0 => ix.as[n] \in ManifestFiles}

LEMMA CatalogTypeStep ==
  ASSUME Catalog!CatalogAssumption, Catalog!TypeOK, [Catalog!Next]_(Catalog!vars)
  PROVE  Catalog!TypeOK'
<1> DEFINE snapshot == Catalog!Snapshot
           Typed == /\ v1 \in [Catalog!Dirs -> ManifestFiles \cup {Nothing}] /\ v2 \in Nat
                    /\ v3 \in FullIndexes /\ v5 \in [Catalog!Processes -> FullIndexes]
                    /\ v4 \in [Catalog!Processes -> {"down", "saving", "up"}]
                    /\ v6 \subseteq WorkflowNames /\ v7 \in Catalog!Answers
<1>0. Typed
  <2>1. v3 \in FullIndexes
    BY DEF Catalog!TypeOK, FullIndexes
  <2>2. \A p \in Catalog!Processes : v5[p] \in FullIndexes
    BY DEF Catalog!TypeOK, FullIndexes
  <2> QED
    BY <2>1, <2>2 DEF Catalog!TypeOK
<1>1. snapshot \in FullIndexes
  BY CatalogSnapshot DEF FullIndexes
<1> HIDE DEF snapshot
<1>2. SUFFICES Typed'
  <2>1. ASSUME v3' \in FullIndexes, v5' \in [Catalog!Processes -> FullIndexes]
        PROVE  /\ v3' \in Catalog!Indexes /\ v5' \in [Catalog!Processes -> Catalog!Indexes]
               /\ \A ix \in {v3'} \cup {v5'[p] : p \in Catalog!Processes} :
                    \A n \in WorkflowNames : ix.of[n] # 0 => ix.as[n] \in ManifestFiles
    BY <2>1 DEF FullIndexes
  <2> QED
    BY <2>1 DEF Catalog!TypeOK
<1>w. "worker" \in Catalog!Processes /\ v5["worker"] \in FullIndexes
  BY <1>0 DEF Catalog!Processes
<1>a. v5["worker"].at \in Nat /\ v5["worker"].of \in [WorkflowNames -> 0..WorkflowPlaces]
  BY <1>w DEF FullIndexes, Catalog!Indexes
<1>3. ASSUME NEW k \in Catalog!Dirs, Catalog!Edit(k)
      PROVE  Typed'
  BY <1>0, <1>3 DEF Catalog!Edit
<1>4. ASSUME NEW p \in Catalog!Processes, Catalog!Start(p)
      PROVE  Typed'
  BY <1>0, <1>1, <1>4 DEF Catalog!Start, snapshot
<1>5. ASSUME NEW p \in Catalog!Processes, Catalog!SaveCopy(p) \/ Catalog!Stop(p)
      PROVE  Typed'
  BY <1>0, <1>5 DEF Catalog!SaveCopy, Catalog!Stop
<1>6. ASSUME NEW b \in Briefs, NEW t \in WorkflowNames \cup {Nothing},
             Catalog!ValidateBrief(b, t)
      PROVE  Typed'
  <2> DEFINE ix == v5["worker"]
             found == IF t = Nothing THEN Catalog!Match(ix, b) ELSE {t} \cap Catalog!Known(ix)
             w == CHOOSE n \in found : TRUE
             by == IF t = Nothing THEN "match" ELSE "validate"
             says == IF found = {} THEN "not found"
                     ELSE IF Catalog!Cardinality(found) > 1 THEN "ambiguous"
                     ELSE IF b \in ix.as[w].lacks THEN "failed" ELSE "ok"
             answer == [by |-> by, says |-> says, of |-> found, for |-> b, at |-> ix.at]
  <2>1. found \subseteq WorkflowNames
    BY DEF Catalog!Match, Catalog!Known
  <2>2. v7' = answer /\ UNCHANGED <<v1, v2, v3, v4, v5, v6>>
    BY <1>6 DEF Catalog!ValidateBrief, Catalog!Answer
  <2> HIDE DEF found, w
  <2>3. answer \in Catalog!Answers
    BY <1>a, <2>1 DEF Catalog!Answers
  <2> HIDE DEF answer
  <2> QED
    BY <1>0, <2>2, <2>3
<1>7. ASSUME NEW t \in WorkflowNames, Catalog!CheckResources(t)
      PROVE  Typed'
  <2>1. PICK says \in {"ok", "failed", "not found"} :
          v7' = [by |-> "resources", says |-> says, of |-> {t}, for |-> Nothing,
                 at |-> v5["worker"].at]
    BY <1>7 DEF Catalog!CheckResources, Catalog!Answer
  <2>2. v7' \in Catalog!Answers /\ UNCHANGED <<v1, v2, v3, v4, v5, v6>>
    BY <1>7, <1>a, <2>1 DEF Catalog!CheckResources, Catalog!Answers
  <2> QED
    BY <1>0, <2>2
<1>8. ASSUME NEW t \in WorkflowNames, Catalog!CreateProject(t)
      PROVE  Typed'
  BY <1>0, <1>8 DEF Catalog!CreateProject
<1>b. ASSUME NEW t \in WorkflowNames
      PROVE  Catalog!Built(t) \in {"not found", "missing", "good", "broken"}
  <2> DEFINE k == v5["worker"].of[t]
  <2>1. CASE k = 0
    BY <2>1 DEF Catalog!Built
  <2>2. CASE k # 0 /\ v1[k] = Nothing
    BY <2>2 DEF Catalog!Built
  <2>3. CASE k # 0 /\ v1[k] # Nothing
    <3>1. k \in Catalog!Dirs
      BY <1>a, <2>3 DEF Catalog!Dirs, Catalog!CatalogAssumption
    <3>2. v1[k] \in ManifestFiles
      BY <1>0, <2>3, <3>1
    <3> QED
      BY <2>3, <3>2 DEF Catalog!Built, Catalog!CatalogAssumption
  <2> QED
    BY <2>1, <2>2, <2>3
<1>9. ASSUME NEW t \in WorkflowNames, Catalog!RunSession(t)
      PROVE  Typed'
  BY <1>0, <1>a, <1>b, <1>9 DEF Catalog!RunSession, Catalog!Answer, Catalog!Answers,
                                Catalog!CatalogAssumption
<1>10. ASSUME NEW t \in WorkflowNames, Catalog!RunWorkflow(t)
       PROVE  Typed'
  BY <1>0, <1>a, <1>b, <1>10 DEF Catalog!RunWorkflow, Catalog!Answer, Catalog!Answers
<1>11. CASE UNCHANGED Catalog!vars
  BY <1>0, <1>11 DEF Catalog!vars
<1> QED
  BY <1>3, <1>4, <1>5, <1>6, <1>7, <1>8, <1>9, <1>10, <1>11 DEF Catalog!Next

\* A step changes a directory or may give a process what it holds, and what is
\* answered is the match of what the worker holds or no match.
LEMMA CatalogSteps ==
  ASSUME Catalog!TypeOK, [Catalog!Next]_(Catalog!vars)
  PROVE  \/ v2' = v2 + 1 /\ UNCHANGED <<v3, v5, v7>>
         \/ /\ UNCHANGED <<v1, v2>>
            /\ \A ix \in Catalog!Held' : ix \in Catalog!Held \cup {Catalog!Snapshot}
            /\ UNCHANGED v7
         \/ /\ UNCHANGED <<v1, v2, v3, v5>> /\ v7'.at = v5["worker"].at
            /\ v7'.by = "match" => v7'.of = Catalog!Match(v5["worker"], v7'.for)
<1> USE DEF Catalog!TypeOK
<1> DEFINE snapshot == Catalog!Snapshot
<1> HIDE DEF snapshot
<1>1. CASE \E k \in Catalog!Dirs : Catalog!Edit(k)
  BY <1>1 DEF Catalog!Edit
<1>2. ASSUME NEW p \in Catalog!Processes, Catalog!Start(p)
      PROVE  /\ UNCHANGED <<v1, v2, v7>>
             /\ \A ix \in Catalog!Held' : ix \in Catalog!Held \cup {snapshot}
  BY <1>2 DEF Catalog!Start, Catalog!Held, snapshot
<1>3. ASSUME NEW p \in Catalog!Processes, Catalog!SaveCopy(p) \/ Catalog!Stop(p)
      PROVE  /\ UNCHANGED <<v1, v2, v7>>
             /\ \A ix \in Catalog!Held' : ix \in Catalog!Held \cup {snapshot}
  BY <1>3 DEF Catalog!SaveCopy, Catalog!Stop, Catalog!Held
<1>4. ASSUME NEW b \in Briefs, NEW t \in WorkflowNames \cup {Nothing},
             Catalog!ValidateBrief(b, t)
      PROVE  /\ UNCHANGED <<v1, v2, v3, v5>> /\ v7'.at = v5["worker"].at
             /\ v7'.by = "match" => v7'.of = Catalog!Match(v5["worker"], v7'.for)
  <2>1. UNCHANGED <<v1, v2, v3, v5>> /\ v7'.at = v5["worker"].at /\ v7'.for = b
    BY <1>4 DEF Catalog!ValidateBrief, Catalog!Answer
  <2>2. CASE t = Nothing
    <3> DEFINE found == Catalog!Match(v5["worker"], b)
    <3>1. v7'.of = found
      BY <1>4, <2>2 DEF Catalog!ValidateBrief, Catalog!Answer
    <3> QED
      BY <2>1, <3>1
  <2>3. CASE t # Nothing
    <3>1. v7'.by = "validate"
      BY <1>4, <2>3 DEF Catalog!ValidateBrief, Catalog!Answer
    <3> QED
      BY <2>1, <3>1
  <2> QED
    BY <2>2, <2>3
<1>5. ASSUME NEW t \in WorkflowNames,
             Catalog!CheckResources(t) \/ Catalog!RunSession(t) \/ Catalog!RunWorkflow(t)
      PROVE  /\ UNCHANGED <<v1, v2, v3, v5>> /\ v7'.at = v5["worker"].at
             /\ v7'.by # "match"
  <2>1. CASE Catalog!CheckResources(t)
    <3>1. PICK says \in {"ok", "failed", "not found"} :
            v7' = [by |-> "resources", says |-> says, of |-> {t}, for |-> Nothing,
                   at |-> v5["worker"].at]
      BY <2>1 DEF Catalog!CheckResources, Catalog!Answer
    <3> QED
      BY <2>1, <3>1 DEF Catalog!CheckResources
  <2>2. CASE Catalog!RunSession(t)
    BY <2>2 DEF Catalog!RunSession, Catalog!Answer
  <2>3. CASE Catalog!RunWorkflow(t)
    BY <2>3 DEF Catalog!RunWorkflow, Catalog!Answer
  <2> QED
    BY <1>5, <2>1, <2>2, <2>3
<1>6. CASE (\E t \in WorkflowNames : Catalog!CreateProject(t)) \/ UNCHANGED Catalog!vars
  BY <1>6 DEF Catalog!CreateProject, Catalog!vars, Catalog!Held
<1> QED
  BY <1>1, <1>2, <1>3, <1>4, <1>5, <1>6 DEF Catalog!Next, snapshot

LEMMA CatalogIsOfDiskStep ==
  ASSUME Catalog!CatalogAssumption, Catalog!TypeOK, Catalog!IndexIsOfDisk,
         Catalog!MatchStands, [Catalog!Next]_(Catalog!vars)
  PROVE  Catalog!IndexIsOfDisk' /\ Catalog!MatchStands'
<1> DEFINE snapshot == Catalog!Snapshot
<1>0. /\ \A ix \in Catalog!Held : Catalog!IsOfDisk(ix) /\ ix.at \in Nat
      /\ v2 \in Nat /\ v7.at \in Nat /\ v5["worker"] \in Catalog!Held
      /\ snapshot.at = v2 + 1
  <2>1. v5["worker"] \in Catalog!Held
    BY DEF Catalog!Held, Catalog!Processes
  <2>2. \A ix \in Catalog!Held : ix \in Catalog!Indexes
    BY DEF Catalog!Held, Catalog!TypeOK
  <2> QED
    BY <2>1, <2>2, CatalogSnapshot
    DEF Catalog!TypeOK, Catalog!IndexIsOfDisk, Catalog!Indexes, Catalog!Answers
<1> HIDE DEF snapshot
<1>1. CASE v2' = v2 + 1 /\ UNCHANGED <<v3, v5, v7>>
  <2>1. Catalog!Held' = Catalog!Held
    BY <1>1 DEF Catalog!Held
  <2>2. \A ix \in Catalog!Held : ix.at <= v2' + 1 /\ ix.at # v2' + 1
    BY <1>0, <1>1 DEF Catalog!IsOfDisk
  <2>3. Catalog!IndexIsOfDisk'
    BY <2>1, <2>2 DEF Catalog!IndexIsOfDisk, Catalog!IsOfDisk
  <2>4. Catalog!MatchStands'
    BY <1>0, <1>1, <2>1 DEF Catalog!MatchStands
  <2> QED
    BY <2>3, <2>4
<1>2. ASSUME UNCHANGED <<v1, v2>>
      PROVE  Catalog!Snapshot' = snapshot
  <2>1. v1' = v1 /\ v2' = v2
    BY <1>2
  <2>2. Catalog!Scan(v1)' = Catalog!Scan(v1)
    BY <2>1, Zenon
  <2> QED
    BY <2>1, <2>2 DEF Catalog!Snapshot, snapshot
<1>3. \A ix, other \in Catalog!Held \cup {snapshot} :
        ix.at <= v2 + 1 /\ (ix.at = v2 + 1 => ix = snapshot)
        /\ (ix.at = other.at => ix = other)
  BY <1>0 DEF Catalog!IndexIsOfDisk, Catalog!IsOfDisk, snapshot
<1>4. ASSUME UNCHANGED <<v1, v2>>,
             \A ix \in Catalog!Held' : ix \in Catalog!Held \cup {snapshot}
      PROVE  Catalog!IndexIsOfDisk'
  BY <1>2, <1>3, <1>4 DEF Catalog!IndexIsOfDisk, Catalog!IsOfDisk
<1>5. CASE /\ UNCHANGED <<v1, v2, v7>>
           /\ \A ix \in Catalog!Held' : ix \in Catalog!Held \cup {snapshot}
  <2>1. Catalog!Snapshot' = snapshot /\ v2' = v2 /\ v7' = v7
    BY <1>2, <1>5
  <2>2. ASSUME v7.by = "match"
        PROVE  /\ v7.at <= v2 + 1
               /\ v7.at = v2 + 1 => v7.of = Catalog!Match(snapshot, v7.for)
               /\ \A ix \in Catalog!Held \cup {snapshot} :
                    ix.at = v7.at => v7.of = Catalog!Match(ix, v7.for)
    BY <1>0, <2>2 DEF Catalog!MatchStands, snapshot
  <2>3. Catalog!MatchStands'
    BY <1>5, <2>1, <2>2 DEF Catalog!MatchStands
  <2> QED
    BY <1>4, <1>5, <2>3
<1>6. CASE /\ UNCHANGED <<v1, v2, v3, v5>> /\ v7'.at = v5["worker"].at
           /\ v7'.by = "match" => v7'.of = Catalog!Match(v5["worker"], v7'.for)
  <2>1. Catalog!Snapshot' = snapshot /\ v2' = v2 /\ Catalog!Held' = Catalog!Held
    BY <1>2, <1>6 DEF Catalog!Held
  <2>2. v7'.at <= v2 + 1 /\ (v7'.at = v2 + 1 => v5["worker"] = snapshot)
    BY <1>0, <1>3, <1>6
  <2>3. \A ix \in Catalog!Held : ix.at = v7'.at => ix = v5["worker"]
    BY <1>0, <1>3, <1>6
  <2>4. Catalog!MatchStands'
    BY <1>6, <2>1, <2>2, <2>3 DEF Catalog!MatchStands
  <2> QED
    BY <1>4, <1>6, <2>1, <2>4
<1> QED
  BY <1>1, <1>5, <1>6, CatalogSteps DEF snapshot

\* The kind of the first trigger that a brief meets is a kind it meets, and there
\* is one when it meets any.
LEMMA HitIsMet ==
  ASSUME Catalog!CatalogAssumption, NEW m \in ManifestFiles, NEW b
  PROVE  LET hit == Catalog!Hit(m, b)
         IN  /\ hit \in {"none", "explicit", "keyword"}
             /\ hit # "none" => Catalog!Meets(m, b, hit)
             /\ \A kind \in {"explicit", "keyword"} : Catalog!Meets(m, b, kind) => hit # "none"
<1> DEFINE met == {i \in DOMAIN m.triggers : b \in m.triggers[i].of}
           first == CHOOSE i \in met : \A j \in met : i <= j
<1>1. m.triggers \in Seq([kind : {"explicit", "keyword"}, of : SUBSET Briefs])
  BY DEF Catalog!CatalogAssumption
<1>2. met \in SUBSET Nat /\ \A i \in met : m.triggers[i].kind \in {"explicit", "keyword"}
  <2> DEFINE K == [kind : {"explicit", "keyword"}, of : SUBSET Briefs]
  <2>1. /\ DOMAIN m.triggers = 1..Len(m.triggers) /\ Len(m.triggers) \in Nat
        /\ \A i \in 1..Len(m.triggers) : m.triggers[i] \in K
    <3>1. m.triggers \in Seq(K)
      BY <1>1
    <3> HIDE DEF K
    <3> QED
      BY <3>1
  <2> QED
    BY <2>1
<1>3. Catalog!Hit(m, b) = IF met = {} THEN "none" ELSE m.triggers[first].kind
  BY DEF Catalog!Hit
<1>4. met # {} => first \in met
  <2> HIDE DEF met
  <2> QED
    BY <1>2, Least
<1>5. \A i \in met : i \in DOMAIN m.triggers /\ b \in m.triggers[i].of
  OBVIOUS
<1>6. \A kind : Catalog!Meets(m, b, kind) <=> \E i \in met : m.triggers[i].kind = kind
  BY DEF Catalog!Meets
<1> HIDE DEF met, first
<1>7. CASE met = {}
  BY <1>3, <1>6, <1>7
<1>8. CASE met # {}
  BY <1>2, <1>3, <1>4, <1>6, <1>8
<1> QED
  BY <1>7, <1>8

\* A match is with what is met explicitly, but for those whose keyword comes
\* first, or else with what is met by keyword.
LEMMA MatchIsMet ==
  ASSUME Catalog!CatalogAssumption, NEW ix \in FullIndexes, NEW b
  PROVE  LET Met(kind) == {n \in Catalog!Known(ix) : Catalog!Meets(ix.as[n], b, kind)}
             hidden == {n \in Met("explicit") : Catalog!Hit(ix.as[n], b) = "keyword"}
             explicit == Met("explicit") \ hidden
         IN  Catalog!Match(ix, b) = IF explicit # {} THEN explicit ELSE Met("keyword")
<1> DEFINE K == Catalog!Known(ix)
           H(n) == Catalog!Hit(ix.as[n], b)
           M(n, kind) == Catalog!Meets(ix.as[n], b, kind)
           Met(kind) == {n \in K : M(n, kind)}
           hidden == {n \in Met("explicit") : H(n) = "keyword"}
           explicit == Met("explicit") \ hidden
<1>1. \A n \in K : ix.as[n] \in ManifestFiles
  BY DEF FullIndexes, Catalog!Known
<1>2. \A n \in K : /\ H(n) \in {"none", "explicit", "keyword"}
                   /\ H(n) # "none" => M(n, H(n))
                   /\ M(n, "explicit") \/ M(n, "keyword") => H(n) # "none"
  BY <1>1, HitIsMet
<1>3. Catalog!Match(ix, b) = IF {n \in K : H(n) = "explicit"} # {} THEN {n \in K : H(n) = "explicit"}
                             ELSE {n \in K : H(n) = "keyword"}
  BY DEF Catalog!Match
<1> HIDE DEF K, H, M
<1>4. explicit = {n \in K : H(n) = "explicit"}
  <2>1. ASSUME NEW n \in K
        PROVE  M(n, "explicit") /\ H(n) # "keyword" <=> H(n) = "explicit"
    BY <1>2
  <2> QED
    BY <2>1
<1>5. explicit = {} => Met("keyword") = {n \in K : H(n) = "keyword"}
  <2>1. ASSUME explicit = {}, NEW n \in K
        PROVE  M(n, "keyword") <=> H(n) = "keyword"
    <3>1. H(n) # "explicit"
      BY <1>4, <2>1
    <3> QED
      BY <1>2, <3>1
  <2> QED
    BY <2>1
<1>6. Catalog!Match(ix, b) = IF explicit # {} THEN explicit ELSE Met("keyword")
  BY <1>3, <1>4, <1>5
<1> QED
  BY <1>6 DEF K, H, M

(***************************************************************************)
(* What is invariant of the manifests.                                     *)
(***************************************************************************)
CatalogInv ==
  part = "workflows" => Catalog!TypeOK /\ Catalog!IndexIsOfDisk /\ Catalog!MatchStands

LEMMA CatalogInit ==
  ASSUME Catalog!CatalogAssumption, Catalog!Init
  PROVE  Catalog!TypeOK /\ Catalog!IndexIsOfDisk /\ Catalog!MatchStands
<1> USE DEF Catalog!Init
<1>1. /\ Catalog!NoIndex \in Catalog!Indexes /\ Catalog!NoIndex.at = 0
      /\ \A n \in WorkflowNames : Catalog!NoIndex.of[n] = 0
  BY DEF Catalog!NoIndex, Catalog!Indexes, Catalog!CatalogAssumption
<1>2. Catalog!NoAnswer \in Catalog!Answers /\ Catalog!NoAnswer.by # "match"
  BY DEF Catalog!NoAnswer, Catalog!Answers
<1>3. v1 \in [Catalog!Dirs -> ManifestFiles \cup {Nothing}]
  BY DEF Catalog!CatalogAssumption
<1>4. \A ix \in Catalog!Held : ix = Catalog!NoIndex
  BY DEF Catalog!Held
<1>5. Catalog!IsOfDisk(Catalog!NoIndex)
  BY <1>1 DEF Catalog!IsOfDisk
<1> QED
  BY <1>1, <1>2, <1>3, <1>4, <1>5
  DEF Catalog!TypeOK, Catalog!IndexIsOfDisk, Catalog!MatchStands

\* For any number of directories, names, manifests and triggers, what a process
\* scans and what the worker matches is right.
THEOREM CatalogIsRightHolds == Spec => []CatalogIsRight
<1>0. Catalog!CatalogAssumption
  BY ServicesAssumption
<1>1. Init => CatalogInv
  BY <1>0, CatalogInit DEF Init, CatalogInv
<1>2. CatalogInv /\ [Next]_vars => CatalogInv'
  BY <1>0, StepOfPart, CatalogTypeStep, CatalogIsOfDiskStep DEF CatalogInv
<1>3. CatalogInv => CatalogIsRight
  <2> SUFFICES ASSUME Catalog!TypeOK, Catalog!IndexIsOfDisk, Catalog!MatchStands
               PROVE  Catalog!CatalogIsRight
    BY DEF CatalogInv, CatalogIsRight
  <2>1. ASSUME NEW p \in Catalog!Processes, v5[p].at = v2 + 1, NEW n \in WorkflowNames
        PROVE  LET all == {k \in Catalog!Dirs : Catalog!Parses(v1, k) /\ v1[k].name = n}
                   mine == {k \in all : Catalog!Scope(k) = "user"}
                   rivals == IF mine # {} THEN mine ELSE all
               IN  IF all = {} THEN n \notin Catalog!Known(v5[p])
                   ELSE v5[p].of[n] \in rivals /\ \A k \in rivals : v5[p].of[n] <= k
    <3> DEFINE all == {k \in Catalog!Dirs : Catalog!Parses(v1, k) /\ v1[k].name = n}
               mine == {k \in all : Catalog!Scope(k) = "user"}
               rivals == IF mine # {} THEN mine ELSE all
               k == Catalog!Scan(v1)[n]
    <3>1. v5[p].of[n] = k
      <4>1. v5[p] = Catalog!Snapshot
        BY <2>1 DEF Catalog!IndexIsOfDisk, Catalog!IsOfDisk, Catalog!Held
      <4> QED
        BY <1>0, <4>1, CatalogSnapshot
    <3>2. v1 \in [Catalog!Dirs -> ManifestFiles \cup {Nothing}]
      BY DEF Catalog!TypeOK
    <3>3. all = {} => k = 0
      BY <1>0, <3>2, CatalogScan
    <3>4. all # {} => /\ k \in all
                      /\ \A j \in all : /\ Catalog!Scope(j) = "user" => Catalog!Scope(k) = "user"
                                        /\ Catalog!Scope(j) = Catalog!Scope(k) => k <= j
      BY <1>0, <3>2, CatalogScan
    <3>5. \A j \in Catalog!Dirs : Catalog!Scope(j) \in {"user", "built-in"}
      BY DEF Catalog!Scope
    <3>6. all \subseteq Catalog!Dirs
      OBVIOUS
    <3> SUFFICES IF all = {} THEN n \notin Catalog!Known(v5[p])
                 ELSE v5[p].of[n] \in rivals /\ \A j \in rivals : v5[p].of[n] <= j
      OBVIOUS
    <3> HIDE DEF k, all
    <3>7. CASE all = {}
      BY <3>1, <3>3, <3>7 DEF Catalog!Known
    <3>8. CASE all # {} /\ mine # {}
      BY <3>1, <3>4, <3>8
    <3>9. CASE all # {} /\ mine = {}
      <4>1. \A j \in all : Catalog!Scope(j) = "built-in"
        BY <3>5, <3>6, <3>9
      <4> QED
        BY <3>1, <3>4, <3>9, <4>1
    <3> QED
      BY <3>7, <3>8, <3>9
  <2>2. ASSUME v7.by = "match", v7.at = v5["worker"].at
        PROVE  LET ix == v5["worker"]
                   Met(kind) == {n \in Catalog!Known(ix) : Catalog!Meets(ix.as[n], v7.for, kind)}
                   hidden == {n \in Met("explicit") : Catalog!Hit(ix.as[n], v7.for) = "keyword"}
                   explicit == Met("explicit") \ hidden
               IN  v7.of = IF explicit # {} THEN explicit ELSE Met("keyword")
    <3>1. v5["worker"] \in Catalog!Held /\ "worker" \in Catalog!Processes
      BY DEF Catalog!Held, Catalog!Processes
    <3>2. v5["worker"] \in FullIndexes
      BY <3>1 DEF FullIndexes, Catalog!TypeOK
    <3>3. v7.of = Catalog!Match(v5["worker"], v7.for)
      BY <2>2, <3>1 DEF Catalog!MatchStands
    <3> QED
      BY <1>0, <3>2, <3>3, MatchIsMet
  <2> QED
    BY <2>1, <2>2 DEF Catalog!CatalogIsRight
<1> QED
  BY <1>1, <1>2, <1>3, PTL DEF Spec

-----------------------------------------------------------------------------
(***************************************************************************)
(* Dependency order: what the computations answer, of any graph.           *)
(***************************************************************************)

(***************************************************************************)
(* What is reached over a relation on a set of at most N + 1 members is    *)
(* reached in N rounds, each of which adds what is one step on.            *)
(***************************************************************************)
IsRounds(g, N, A, R, I) ==
  /\ g \in [0..N -> SUBSET A] /\ g[0] = I
  /\ \A k \in 1..N : g[k] = g[k - 1] \cup {m \in A : \E p \in g[k - 1] : <<p, m>> \in R}

IsReached(S, A, R, I) ==
  /\ I \subseteq S /\ S \subseteq A
  /\ \A p \in S, m \in A : <<p, m>> \in R => m \in S
  /\ \A T : I \subseteq T /\ (\A p \in T, m \in A : <<p, m>> \in R => m \in T) => S \subseteq T

LEMMA Closure ==
  ASSUME NEW N \in Nat, NEW A, IsFiniteSet(A), Cardinality(A) <= N + 1,
         NEW R, NEW I \in SUBSET A, NEW g, IsRounds(g, N, A, R, I)
  PROVE  IsReached(g[N], A, R, I)
<1> DEFINE Closed(S) == \A p \in S, m \in A : <<p, m>> \in R => m \in S
<1>0. g \in [0..N -> SUBSET A] /\ g[0] = I
  BY DEF IsRounds
<1>1. ASSUME NEW k \in 0..(N - 1)
      PROVE  g[k + 1] = g[k] \cup {m \in A : \E p \in g[k] : <<p, m>> \in R}
  <2>1. k + 1 \in 1..N /\ k + 1 - 1 = k
    OBVIOUS
  <2> DEFINE h == k + 1
  <2>2. g[h] = g[h - 1] \cup {m \in A : \E p \in g[h - 1] : <<p, m>> \in R}
    BY <2>1 DEF IsRounds
  <2> HIDE DEF h
  <2>3. h - 1 = k
    BY <2>1 DEF h
  <2>4. g[h] = g[k] \cup {m \in A : \E p \in g[k] : <<p, m>> \in R}
    BY <2>2, <2>3
  <2> QED
    BY <2>4 DEF h
<1>2. \A k \in 0..N : IsFiniteSet(g[k]) /\ Cardinality(g[k]) \in Nat
  <2>1. ASSUME NEW k \in 0..N PROVE IsFiniteSet(g[k])
    <3>1. g[k] \in SUBSET A
      BY <1>0
    <3> QED
      BY <3>1, FS_Subset
  <2> QED
    BY <2>1, FS_CardinalityType
<1>3. I \subseteq g[N]
  <2> DEFINE Good == {k \in 0..N : I \subseteq g[k]}
  <2>1. 0 \in Good
    BY <1>0
  <2>2. \A k \in 0..(N - 1) : k \in Good => k + 1 \in Good
    BY <1>1
  <2> HIDE DEF Good
  <2>3. \A k \in 0..N : k \in Good
    BY <2>1, <2>2, Induction
  <2> QED
    BY <2>3 DEF Good
<1>4. Closed(g[N])
  <2> DEFINE Good == {k \in 0..N : Closed(g[k]) \/ k + 1 <= Cardinality(g[k])}
  <2>1. 0 \in Good
    <3>1. CASE I = {}
      BY <1>0, <3>1
    <3>2. CASE I # {}
      <4>1. Cardinality(g[0]) # 0
        BY <1>0, <1>2, <3>2, FS_EmptySet
      <4> QED
        BY <4>1, <1>2
    <3> QED
      BY <3>1, <3>2
  <2>2. ASSUME NEW k \in 0..(N - 1), k \in Good PROVE k + 1 \in Good
    <3>0. k \in 0..N /\ k + 1 \in 0..N /\ k \in Nat
      OBVIOUS
    <3>1. CASE Closed(g[k])
      <4>1. g[k] \subseteq A
        BY <1>0, <3>0
      <4>2. g[k + 1] = g[k]
        BY <1>1, <3>1, <4>1
      <4> QED
        BY <3>0, <3>1, <4>2
    <3>2. CASE ~ Closed(g[k]) /\ k + 1 <= Cardinality(g[k])
      <4>1. PICK m \in A : m \notin g[k] /\ m \in g[k + 1]
        BY <1>1, <3>2
      <4>2. g[k] \cup {m} \subseteq g[k + 1]
        BY <1>1, <4>1
      <4>3. Cardinality(g[k] \cup {m}) = Cardinality(g[k]) + 1
        BY <1>2, <3>0, <4>1, FS_AddElement
      <4>4. Cardinality(g[k] \cup {m}) <= Cardinality(g[k + 1])
        BY <1>2, <3>0, <4>2, FS_Subset
      <4>5. k + 1 + 1 <= Cardinality(g[k + 1])
        BY <1>2, <3>0, <3>2, <4>3, <4>4
      <4> QED
        BY <3>0, <4>5
    <3> QED
      BY <3>1, <3>2, <2>2
  <2> HIDE DEF Good
  <2>3. \A k \in 0..N : k \in Good
    BY <2>1, <2>2, Induction
  <2> USE DEF Good
  <2>4. CASE N + 1 <= Cardinality(g[N])
    <3>1. Cardinality(g[N]) <= Cardinality(A) /\ Cardinality(A) \in Nat
      BY <1>0, FS_Subset, FS_CardinalityType
    <3>2. Cardinality(g[N]) = Cardinality(A)
      BY <1>2, <2>4, <3>1
    <3>3. g[N] = A
      BY <1>0, <3>2, FS_Subset
    <3> QED
      BY <3>3
  <2> QED
    BY <2>3, <2>4
<1>5. ASSUME NEW T, I \subseteq T, Closed(T)
      PROVE  g[N] \subseteq T
  <2> DEFINE Good == {k \in 0..N : g[k] \subseteq T}
  <2>1. 0 \in Good
    BY <1>0, <1>5
  <2>2. ASSUME NEW k \in 0..(N - 1), k \in Good PROVE k + 1 \in Good
    <3>1. k + 1 \in 0..N /\ g[k] \subseteq T /\ g[k] \subseteq A
      BY <1>0, <2>2
    <3>2. \A m \in A : (\E p \in g[k] : <<p, m>> \in R) => m \in T
      BY <1>5, <3>1
    <3>3. g[k + 1] \subseteq T
      BY <1>1, <3>1, <3>2
    <3> QED
      BY <3>1, <3>3
  <2> HIDE DEF Good
  <2>3. \A k \in 0..N : k \in Good
    BY <2>1, <2>2, Induction
  <2> QED
    BY <2>3 DEF Good
<1>6. g[N] \subseteq A
  BY <1>0
<1> QED
  BY <1>3, <1>4, <1>5, <1>6 DEF IsReached

\* So Reach is the least set with what is one step on that is closed.
LEMMA ReachIs ==
  ASSUME Graph!GraphAssumption, NEW R, NEW n \in Graph!Any
  PROVE  /\ Graph!Reach(R, n) \subseteq Graph!Any
         /\ \A m \in Graph!Any : <<n, m>> \in R => m \in Graph!Reach(R, n)
         /\ \A p \in Graph!Reach(R, n), m \in Graph!Any : <<p, m>> \in R => m \in Graph!Reach(R, n)
         /\ \A T : /\ \A m \in Graph!Any : <<n, m>> \in R => m \in T
                   /\ \A p \in T, m \in Graph!Any : <<p, m>> \in R => m \in T
                   => Graph!Reach(R, n) \subseteq T
<1> DEFINE N == DeliverableCount
           A == Graph!Any
           I == {m \in A : <<n, m>> \in R}
           Body(u) == [k \in 0..N |->
                         IF k = 0 THEN I
                         ELSE u[k - 1] \cup {m \in A : \E p \in u[k - 1] : <<p, m>> \in R}]
           U == CHOOSE u : u = Body(u)
           step == [k \in 1..N |-> [S \in SUBSET A |->
                      S \cup {m \in A : \E p \in S : <<p, m>> \in R}]]
<1>1. Graph!Reach(R, n) = U[N]
  BY DEF Graph!Reach
<1>2. N \in Nat /\ A = (1..N) \cup {0}
  BY DEF Graph!GraphAssumption, Graph!Any, Graph!Nodes, Graph!Foreign
<1>3. IsFiniteSet(A) /\ Cardinality(A) <= N + 1
  <2>1. IsFiniteSet(1..N) /\ Cardinality(1..N) = N
    BY <1>2, FS_Interval
  <2>2. /\ IsFiniteSet((1..N) \cup {0})
        /\ Cardinality((1..N) \cup {0}) = IF 0 \in 1..N THEN N ELSE N + 1
    BY <1>2, <2>1, FS_AddElement
  <2>3. 0 \notin 1..N
    OBVIOUS
  <2> HIDE DEF A, N
  <2> QED
    BY <1>2, <2>2, <2>3
<1> HIDE DEF A, N
<1>4. step \in [1..N -> [SUBSET A -> SUBSET A]] /\ I \in SUBSET A
  OBVIOUS
<1> HIDE DEF step, I
<1>5. PICK g : IsRecursion(g, N, SUBSET A, I, step)
  BY <1>2, <1>4, Recursion
<1>6. /\ g \in [0..N -> SUBSET A] /\ g[0] = I
      /\ \A k \in 1..N : g[k] = g[k - 1] \cup {m \in A : \E p \in g[k - 1] : <<p, m>> \in R}
  <2>1. g \in [0..N -> SUBSET A] /\ g[0] = I /\ \A k \in 1..N : g[k] = step[k][g[k - 1]]
    BY <1>5 DEF IsRecursion
  <2>2. \A k \in 1..N : g[k - 1] \in SUBSET A
    BY <1>2, <2>1
  <2> QED
    BY <2>1, <2>2 DEF step
<1>6a. IsRounds(g, N, A, R, I)
  BY <1>6 DEF IsRounds
<1>7. \A k \in 0..N : g[k] = Body(g)[k]
  <2>1. \A k \in 0..N : k = 0 \/ k \in 1..N
    BY <1>2
  <2> QED
    BY <1>6, <2>1
<1>8. g = Body(g)
  BY <1>6, <1>7
<1>9. U = Body(U)
  <2> HIDE DEF Body
  <2> QED
    BY <1>8
<1>10. U[N] = g[N]
  <2> HIDE DEF U
  <2>1. 0 \in 0..N /\ \A k \in 1..N : k \in 0..N /\ k # 0
    BY <1>2
  <2>2. U[0] = g[0]
    <3>1. Body(U)[0] = Body(g)[0]
      BY <2>1
    <3> HIDE DEF Body
    <3> QED
      BY <1>8, <1>9, <3>1
  <2>3. ASSUME NEW k \in 1..N, U[k - 1] = g[k - 1]
        PROVE  U[k] = g[k]
    <3>1. Body(U)[k] = Body(g)[k]
      BY <2>1, <2>3
    <3> HIDE DEF Body
    <3> QED
      BY <1>8, <1>9, <3>1
  <2> HIDE DEF Body
  <2> QED
    BY <1>2, <2>2, <2>3, SameScan
<1> HIDE DEF U, Body
<1>11. IsReached(g[N], A, R, I)
  BY <1>2, <1>3, <1>4, <1>6a, Closure
<1> QED
  BY <1>1, <1>10, <1>11 DEF I, A, IsReached

\* What dependencies reach, in terms of deps (v1).
LEMMA EdgesReach ==
  ASSUME Graph!GraphAssumption, v1 \in [Graph!Nodes -> SUBSET Graph!Any], NEW n \in Graph!Nodes
  PROVE  /\ Graph!Reach(Graph!Edges, n) \subseteq Graph!Any
         /\ v1[n] \subseteq Graph!Reach(Graph!Edges, n)
         /\ \A p \in Graph!Reach(Graph!Edges, n) \cap Graph!Nodes : v1[p] \subseteq Graph!Reach(Graph!Edges, n)
         /\ \A T : v1[n] \subseteq T /\ (\A p \in T \cap Graph!Nodes : v1[p] \subseteq T)
                   => Graph!Reach(Graph!Edges, n) \subseteq T
<1> DEFINE S == Graph!Reach(Graph!Edges, n)
<1>1. n \in Graph!Any
  BY DEF Graph!Any
<1>2. \A p \in Graph!Any, m \in Graph!Any :
        <<p, m>> \in Graph!Edges <=> p \in Graph!Nodes /\ m \in v1[p]
  BY DEF Graph!Edges
<1>3. \A p \in Graph!Nodes : v1[p] \subseteq Graph!Any
  OBVIOUS
<1>4. \A p, m : <<p, m>> \in Graph!Edges => p \in Graph!Nodes /\ m \in v1[p]
  BY DEF Graph!Edges
<1>5. /\ S \subseteq Graph!Any
      /\ \A m \in Graph!Any : <<n, m>> \in Graph!Edges => m \in S
      /\ \A p \in S, m \in Graph!Any : <<p, m>> \in Graph!Edges => m \in S
      /\ \A T : /\ \A m \in Graph!Any : <<n, m>> \in Graph!Edges => m \in T
                /\ \A p \in T, m \in Graph!Any : <<p, m>> \in Graph!Edges => m \in T
                => S \subseteq T
  BY <1>1, ReachIs
<1> HIDE DEF S
<1>6. v1[n] \subseteq S /\ \A p \in S \cap Graph!Nodes : v1[p] \subseteq S
  BY <1>1, <1>2, <1>3, <1>5
<1>7. ASSUME NEW T, v1[n] \subseteq T, \A p \in T \cap Graph!Nodes : v1[p] \subseteq T
      PROVE  S \subseteq T
  <2>1. \A m \in Graph!Any : <<n, m>> \in Graph!Edges => m \in T
    BY <1>4, <1>7
  <2>2. \A p \in T, m \in Graph!Any : <<p, m>> \in Graph!Edges => m \in T
    BY <1>4, <1>7
  <2> QED
    BY <1>5, <2>1, <2>2
<1> QED
  BY <1>5, <1>6, <1>7 DEF S

LEMMA ReachFurther ==
  ASSUME Graph!GraphAssumption, v1 \in [Graph!Nodes -> SUBSET Graph!Any],
         NEW n \in Graph!Nodes, NEW m \in Graph!Nodes, m \in Graph!Reach(Graph!Edges, n)
  PROVE  Graph!Reach(Graph!Edges, m) \subseteq Graph!Reach(Graph!Edges, n)
<1> DEFINE S == Graph!Reach(Graph!Edges, n)
<1>1. v1[m] \subseteq S /\ \A p \in S \cap Graph!Nodes : v1[p] \subseteq S
  BY EdgesReach
<1> HIDE DEF S
<1>2. Graph!Reach(Graph!Edges, m) \subseteq S
  BY <1>1, EdgesReach
<1> QED
  BY <1>2 DEF S

\* Nodes that each depend on one of them, or that one of them depends on each,
\* have a cycle: else the one that reaches least, or most, would be a last one.
LEMMA Circle ==
  ASSUME Graph!GraphAssumption, v1 \in [Graph!Nodes -> SUBSET Graph!Any],
         NEW L \in SUBSET Graph!Nodes, L # {},
         \/ \A m \in L : \E n \in L : m \in v1[n]
         \/ \A m \in L : \E n \in L : n \in v1[m]
  PROVE  Graph!Cyclic
<1> SUFFICES ASSUME ~ Graph!Cyclic PROVE FALSE
  OBVIOUS
<1> DEFINE R(m) == Graph!Reach(Graph!Edges, m)
           size(m) == Cardinality(R(m))
           N == DeliverableCount
<1>1. \A m \in L : m \in Graph!Nodes /\ m \notin R(m)
  BY DEF Graph!Cyclic
<1>2. /\ N \in Nat /\ Graph!Any = 0..N
      /\ IsFiniteSet(Graph!Any) /\ Cardinality(Graph!Any) = N + 1
  <2>1. N \in Nat /\ Graph!Any = 0..N
    BY DEF Graph!GraphAssumption, Graph!Any, Graph!Nodes, Graph!Foreign
  <2> HIDE DEF N
  <2>2. IsFiniteSet(0..N) /\ Cardinality(0..N) = N + 1
    BY <2>1, FS_Interval
  <2> QED
    BY <2>1, <2>2
<1> HIDE DEF R, N
<1>3. ASSUME NEW m \in L
      PROVE  IsFiniteSet(R(m)) /\ size(m) \in 0..(N + 1)
  <2>1. R(m) \in SUBSET Graph!Any
    BY <1>1, EdgesReach DEF R
  <2>2. IsFiniteSet(R(m)) /\ size(m) <= N + 1 /\ size(m) \in Nat
    BY <1>2, <2>1, FS_Subset, FS_CardinalityType
  <2> QED
    BY <1>2, <2>2
<1>4. ASSUME NEW m \in L, NEW n \in L, m \in v1[n]
      PROVE  size(m) < size(n)
  <2>1. m \in R(n) /\ R(m) \subseteq R(n) /\ m \notin R(m)
    BY <1>1, <1>4, EdgesReach, ReachFurther DEF R
  <2>2. size(m) <= size(n) /\ (size(m) = size(n) => R(m) = R(n))
    BY <1>3, <2>1, FS_Subset
  <2>3. size(m) # size(n)
    BY <2>1, <2>2
  <2> QED
    BY <1>2, <1>3, <2>2, <2>3
<1> HIDE DEF size
<1>5. CASE \A m \in L : \E n \in L : m \in v1[n]
  <2> DEFINE K == {(N + 1) - size(m) : m \in L}
  <2>0. ASSUME NEW m \in L PROVE (N + 1) - size(m) \in Nat
    <3>1. size(m) \in 0..(N + 1) /\ N \in Nat
      BY <1>2, <1>3
    <3> QED
      BY <3>1
  <2>1. K \in SUBSET Nat /\ K # {}
    BY <2>0
  <2>2. PICK k \in K : \A j \in K : k <= j
    <3> HIDE DEF K
    <3> QED
      BY <2>1, Least
  <2>3. PICK m \in L : k = (N + 1) - size(m)
    OBVIOUS
  <2>4. PICK n \in L : m \in v1[n]
    BY <1>5
  <2>5. k <= (N + 1) - size(n)
    BY <2>2
  <2> QED
    BY <1>2, <1>3, <1>4, <2>3, <2>4, <2>5
<1>6. CASE \A m \in L : \E n \in L : n \in v1[m]
  <2> DEFINE K == {size(m) : m \in L}
  <2>1. K \in SUBSET Nat /\ K # {}
    BY <1>2, <1>3
  <2>2. PICK k \in K : \A j \in K : k <= j
    <3> HIDE DEF K
    <3> QED
      BY <2>1, Least
  <2>3. PICK m \in L : k = size(m)
    OBVIOUS
  <2>4. PICK n \in L : n \in v1[m]
    BY <1>6
  <2>5. k <= size(n)
    BY <2>2
  <2> QED
    BY <1>2, <1>3, <1>4, <2>3, <2>4, <2>5
<1> QED
  BY <1>5, <1>6

\* The least of a set of nodes is one of them.
LEMMA LeastIs ==
  ASSUME NEW S \in SUBSET Nat, S # {}
  PROVE  Graph!Least(S) \in S /\ \A m \in S : Graph!Least(S) <= m
<1>1. \E i \in S : \A j \in S : i <= j
  BY Least
<1> QED
  BY <1>1 DEF Graph!Least

\* The last place of a name in a list is one, and no later place has it.
LEMMA LastAtIs ==
  ASSUME NEW S, NEW s \in Seq(S), NEW n, \E i \in DOMAIN s : s[i] = n
  PROVE  /\ Graph!LastAt(s, n) \in DOMAIN s /\ s[Graph!LastAt(s, n)] = n
         /\ \A k \in DOMAIN s : s[k] = n => k <= Graph!LastAt(s, n)
<1> DEFINE K == {Len(s) - i : i \in {j \in DOMAIN s : s[j] = n}}
<1>1. Len(s) \in Nat /\ DOMAIN s = 1..Len(s)
  OBVIOUS
<1>2. K \in SUBSET Nat /\ K # {}
  BY <1>1
<1>3. PICK k \in K : \A j \in K : k <= j
  <2> HIDE DEF K
  <2> QED
    BY <1>2, Least
<1>4. PICK i \in DOMAIN s : s[i] = n /\ k = Len(s) - i
  OBVIOUS
<1>5. ASSUME NEW j \in DOMAIN s, s[j] = n PROVE j <= i
  <2>1. k <= Len(s) - j
    BY <1>3, <1>5
  <2> QED
    BY <1>1, <1>4, <2>1
<1>6. \E l \in DOMAIN s : s[l] = n /\ \A j \in DOMAIN s : s[j] = n => j <= l
  BY <1>4, <1>5
<1> QED
  BY <1>6 DEF Graph!LastAt

\* A list of n members of a set is a sequence of length n.
LEMMA ListIs ==
  ASSUME NEW S, NEW n \in Nat, NEW s \in [1..n -> S]
  PROVE  s \in Seq(S) /\ Len(s) = n /\ DOMAIN s = 1..n
<1>1. s \in Seq(S)
  BY SeqDef
<1> QED
  BY <1>1

\* What a look at the next dependency of the top frame does.
Popped == /\ \A m \in v1[Head(v5)] : <<Head(v5), m>> \in v8
          /\ v7' = [v7 EXCEPT ![Head(v5)] = "black"] /\ v5' = Tail(v5)
          /\ UNCHANGED <<v8, v10>>
Pushed(m) == /\ m \in Graph!Nodes /\ v7[m] = "white"
             /\ v7' = [v7 EXCEPT ![m] = "gray"] /\ v5' = <<m>> \o v5
             /\ UNCHANGED v10
Closed(m) == m \in Graph!Nodes /\ v7[m] = "gray" /\ v10' = "cyclic" /\ UNCHANGED <<v5, v7>>
Passed(m) == (m \in Graph!Nodes => v7[m] = "black") /\ UNCHANGED <<v5, v7, v10>>

LEMMA LookAtDoes ==
  ASSUME Graph!TypeOK, Graph!LookAt
  PROVE  /\ v3 = "query" /\ v10 = "none" /\ v5 # <<>>
         /\ UNCHANGED <<v1, v2, v3, v4, v6, v9, v11>>
         /\ \/ Popped
            \/ \E m \in v1[Head(v5)] :
                 /\ v8' = v8 \cup {<<Head(v5), m>>}
                 /\ Pushed(m) \/ Closed(m) \/ Passed(m)
<1> DEFINE n == Head(v5)
           left == {m \in v1[n] : <<n, m>> \notin v8}
<1>1. /\ v3 = "query" /\ v10 = "none" /\ v5 # <<>>
      /\ UNCHANGED <<v1, v2, v3, v4, v6, v9, v11>>
  BY DEF Graph!LookAt, Graph!None
<1>2. CASE left = {} /\ v7' = [v7 EXCEPT ![n] = "black"] /\ v5' = Tail(v5) /\ UNCHANGED <<v8, v10>>
  BY <1>1, <1>2 DEF Popped
<1>3. ASSUME NEW m \in left, v8' = v8 \cup {<<n, m>>},
             IF m \in Graph!Nodes /\ v7[m] = "white"
               THEN v7' = [v7 EXCEPT ![m] = "gray"] /\ v5' = <<m>> \o v5
               ELSE UNCHANGED <<v7, v5>>,
             IF m \in Graph!Nodes /\ v7[m] = "gray" THEN v10' = "cyclic" ELSE UNCHANGED v10
      PROVE  Pushed(m) \/ Closed(m) \/ Passed(m)
  <2>1. m \in Graph!Nodes => v7[m] \in {"white", "gray", "black"}
    BY DEF Graph!TypeOK
  <2> QED
    BY <1>3, <2>1 DEF Pushed, Closed, Passed
<1>4. \/ left = {} /\ v7' = [v7 EXCEPT ![n] = "black"] /\ v5' = Tail(v5) /\ UNCHANGED <<v8, v10>>
      \/ \E m \in left :
           /\ v8' = v8 \cup {<<n, m>>}
           /\ IF m \in Graph!Nodes /\ v7[m] = "white"
                THEN v7' = [v7 EXCEPT ![m] = "gray"] /\ v5' = <<m>> \o v5
                ELSE UNCHANGED <<v7, v5>>
           /\ IF m \in Graph!Nodes /\ v7[m] = "gray" THEN v10' = "cyclic" ELSE UNCHANGED v10
  BY DEF Graph!LookAt
<1> QED
  BY <1>1, <1>2, <1>3, <1>4

LEMMA GraphTypeInit == ASSUME Graph!Init PROVE Graph!TypeOK
BY DEF Graph!Init, Graph!TypeOK, Graph!None, Graph!Questions, Graph!Any, Graph!Foreign, Graph!Statuses

LEMMA GraphTypeStep ==
  ASSUME Graph!GraphAssumption, Graph!TypeOK, [Graph!Next]_(Graph!vars)
  PROVE  Graph!TypeOK'
<1> USE DEF Graph!TypeOK, Graph!None
<1>1. CASE Graph!Ask
  <2>1. PICK d \in [Graph!Nodes -> SUBSET Graph!Any], j \in Graph!Questions, n \in Graph!Nodes :
          /\ v1' = d /\ v3' = j
          /\ v4' = IF j \in {"focus", "impact"} THEN n ELSE Graph!Foreign
    BY <1>1 DEF Graph!Ask
  <2>2. PICK t \in [Graph!Nodes -> SUBSET Graph!Nodes] :
          (\A m \in Graph!Nodes : t[m] \subseteq v1'[m]) /\ v2' = t
    BY <1>1 DEF Graph!Ask
  <2>3. UNCHANGED <<v5, v6, v7, v8, v9, v10, v11>>
    BY <1>1 DEF Graph!Ask
  <2>4. /\ v1' \in [Graph!Nodes -> SUBSET Graph!Any] /\ v2' \in [Graph!Nodes -> SUBSET Graph!Nodes]
        /\ \A m \in Graph!Nodes : v2'[m] \subseteq v1'[m]
    BY <2>1, <2>2
  <2>5. v3' \in Graph!Questions /\ v3' # "none" /\ v4' \in Graph!Any
        /\ (v3' \in {"focus", "impact"} => v4' \in Graph!Nodes)
    BY <2>1 DEF Graph!Questions, Graph!Any
  <2> QED
    BY <2>3, <2>4, <2>5
<1>2. CASE Graph!AskBatch
  <2>1. PICK d \in [Graph!Nodes -> SUBSET Graph!Any], s \in [Graph!Nodes -> Graph!Statuses] :
          v1' = d /\ v11' = [n \in Graph!Nodes |-> [status |-> s[n], rank |-> 0]]
    BY <1>2 DEF Graph!AskBatch
  <2>2. v3 = "none" /\ v3' = "batch" /\ UNCHANGED <<v2, v4, v5, v6, v7, v8, v9, v10>>
    BY <1>2 DEF Graph!AskBatch
  <2>3. v11' \in [Graph!Nodes -> [status: Graph!Statuses, rank: Nat]]
    BY <2>1
  <2>4. \A n \in Graph!Nodes : v2[n] = {}
    BY <2>2
  <2> QED
    BY <2>1, <2>2, <2>3, <2>4
<1>3. CASE Graph!NextStart
  <2>1. UNCHANGED <<v1, v2, v3, v4, v6, v8, v9, v11>> /\ v3 = "query"
    BY <1>3 DEF Graph!NextStart
  <2>2. CASE \E n \in Graph!Nodes : v7' = [v7 EXCEPT ![n] = "gray"] /\ v5' = <<n>>
    <3>1. PICK n \in Graph!Nodes : v7' = [v7 EXCEPT ![n] = "gray"] /\ v5' = <<n>>
      BY <2>2
    <3>2. <<n>> \in Seq(Graph!Nodes)
      OBVIOUS
    <3>3. v7' \in [Graph!Nodes -> {"white", "gray", "black"}]
      BY <3>1
    <3> QED
      BY <2>1, <3>1, <3>2, <3>3
  <2>3. CASE UNCHANGED <<v5, v7>>
    BY <2>1, <2>3
  <2> QED
    BY <1>3, <2>2, <2>3 DEF Graph!NextStart
<1>4. CASE Graph!LookAt
  <2>1. UNCHANGED <<v1, v2, v3, v4, v6, v9, v11>> /\ v3 = "query"
    BY <1>4 DEF Graph!LookAt
  <2>2. Head(v5) \in Graph!Nodes /\ Tail(v5) \in Seq(Graph!Nodes)
    BY <1>4 DEF Graph!LookAt
  <2>3. \A m \in Graph!Nodes : <<m>> \o v5 \in Seq(Graph!Nodes)
    OBVIOUS
  <2>4. CASE Popped
    BY <2>1, <2>2, <2>4 DEF Popped
  <2>5. CASE \E m : Pushed(m)
    BY <2>1, <2>3, <2>5 DEF Pushed
  <2>6. CASE \E m : Closed(m) \/ Passed(m)
    BY <2>1, <2>6 DEF Closed, Passed
  <2> QED
    BY <1>4, <2>4, <2>5, <2>6, LookAtDoes
<1>5. CASE Graph!ReorderDeliverables
  <2>1. PICK k \in 0..MaxNamed : \E s \in [1..k -> Graph!Any] :
          /\ \A i \in DOMAIN s : s[i] \in Graph!Nodes
          /\ v5' = s
          /\ v11' = [n \in Graph!Nodes |->
                      IF \E i \in DOMAIN s : s[i] = n
                        THEN [v11[n] EXCEPT !.rank = Graph!LastAt(s, n) - 1] ELSE v11[n]]
    BY <1>5 DEF Graph!ReorderDeliverables
  <2>2. PICK s \in [1..k -> Graph!Any] :
          /\ \A i \in DOMAIN s : s[i] \in Graph!Nodes
          /\ v5' = s
          /\ v11' = [n \in Graph!Nodes |->
                      IF \E i \in DOMAIN s : s[i] = n
                        THEN [v11[n] EXCEPT !.rank = Graph!LastAt(s, n) - 1] ELSE v11[n]]
    BY <2>1
  <2>3. k \in Nat /\ s \in Seq(Graph!Nodes) /\ DOMAIN s = 1..k
    <3>1. k \in Nat /\ s \in [1..k -> Graph!Nodes]
      BY <2>2 DEF Graph!GraphAssumption
    <3> QED
      BY <3>1, ListIs
  <2>4. UNCHANGED <<v1, v2, v3, v4, v6, v7, v8, v9, v10>> /\ v3 = "batch"
    BY <1>5 DEF Graph!ReorderDeliverables
  <2>5. ASSUME NEW n \in Graph!Nodes
        PROVE  v11'[n] \in [status: Graph!Statuses, rank: Nat]
    <3>1. CASE \E i \in DOMAIN s : s[i] = n
      <4>1. Graph!LastAt(s, n) \in 1..k
        BY <2>3, <3>1, LastAtIs
      <4>2. Graph!LastAt(s, n) - 1 \in Nat
        BY <4>1
      <4>3. v11[n] \in [status: Graph!Statuses, rank: Nat]
        OBVIOUS
      <4>4. v11'[n] = [v11[n] EXCEPT !.rank = Graph!LastAt(s, n) - 1]
        BY <2>2, <3>1
      <4> HIDE DEF Graph!TypeOK
      <4> QED
        BY <4>2, <4>3, <4>4
    <3>2. CASE ~ \E i \in DOMAIN s : s[i] = n
      BY <2>2, <3>2
    <3> QED
      BY <3>1, <3>2
  <2>6. v11' \in [Graph!Nodes -> [status: Graph!Statuses, rank: Nat]]
    BY <2>2, <2>5
  <2> QED
    BY <2>2, <2>3, <2>4, <2>6
<1>6. CASE Graph!Impact
  <2>1. UNCHANGED <<v1, v2, v3, v4, v6, v7, v11>> /\ v3 = "impact"
    BY <1>6 DEF Graph!Impact
  <2>2. v5' \in Seq(Graph!Nodes)
    <3>1. CASE v5' = <<v4>> \/ v5' = v5
      <4>1. v4 \in Graph!Nodes
        BY <2>1
      <4>2. <<v4>> \in Seq(Graph!Nodes)
        BY <4>1
      <4> QED
        BY <3>1, <4>2
    <3>2. ASSUME v5 # <<>>,
                 NEW more \in SUBSET Graph!Nodes, NEW s \in [1..Cardinality(more) -> more],
                 v5' = s \o Tail(v5)
          PROVE  v5' \in Seq(Graph!Nodes)
      <4>1. IsFiniteSet(Graph!Nodes)
        BY FS_Interval DEF Graph!Nodes, Graph!GraphAssumption
      <4>2. Cardinality(more) \in Nat
        BY <4>1, FS_Subset, FS_CardinalityType
      <4>3. s \in Seq(Graph!Nodes)
        <5>1. s \in [1..Cardinality(more) -> Graph!Nodes]
          OBVIOUS
        <5> QED
          BY <4>2, <5>1, ListIs
      <4>4. Tail(v5) \in Seq(Graph!Nodes)
        BY <3>2
      <4> QED
        BY <3>2, <4>3, <4>4
    <3> QED
      BY <1>6, <3>1, <3>2 DEF Graph!Impact, Graph!Cardinality, Cardinality
  <2> QED
    BY <2>1, <2>2
<1>7. CASE \/ Graph!SelectReadyBatch \/ Graph!StartValidate \/ Graph!ValidateNext
           \/ Graph!Validated \/ Graph!StartResolve \/ Graph!ResolveNext
           \/ Graph!Resolved \/ Graph!Focus
  <2>1. UNCHANGED <<v1, v2, v3, v4, v5, v7, v11>> /\ v3 # "none"
    BY <1>7 DEF Graph!SelectReadyBatch, Graph!StartValidate, Graph!ValidateNext,
                Graph!Validated, Graph!StartResolve, Graph!ResolveNext, Graph!Resolved, Graph!Focus
  <2> QED
    BY <2>1
<1>8. CASE UNCHANGED Graph!vars
  BY <1>8 DEF Graph!vars
<1> QED
  BY <1>1, <1>2, <1>3, <1>4, <1>5, <1>6, <1>7, <1>8 DEF Graph!Next

\* Without new dependencies the same is reached.
LEMMA SameReach ==
  ASSUME v1' = v1
  PROVE  /\ \A n : Graph!Reach(Graph!Edges, n)' = Graph!Reach(Graph!Edges, n)
         /\ Graph!Cyclic' = Graph!Cyclic
<1>1. Graph!Edges' = Graph!Edges
  BY DEF Graph!Edges
<1>2. \A n : Graph!Reach(Graph!Edges, n)' = Graph!Reach(Graph!Edges, n)
  BY <1>1
<1> QED
  BY <1>1, <1>2 DEF Graph!Cyclic

\* The search begins.
LEMMA SearchAsked ==
  ASSUME Graph!TypeOK, Graph!Ask
  PROVE  Graph!Search'
<1>1. v5' = <<>> /\ v8' = {} /\ v10' = "none" /\ \A n \in Graph!Nodes : v7'[n] = "white"
  BY DEF Graph!Ask, Graph!TypeOK, Graph!None
<1> QED
  BY <1>1 DEF Graph!Search, Graph!StackIsGray, Graph!StackIsPath, Graph!BlackIsLeft,
              Graph!WhiteIsNew, Graph!LookedAt, Graph!None

\* A white node is entered, or there is none left.
LEMMA SearchNextStart ==
  ASSUME Graph!GraphAssumption, Graph!TypeOK, Graph!Search, Graph!NextStart
  PROVE  Graph!Search'
<1>1. v5 = <<>> /\ v10 = "none" /\ UNCHANGED <<v1, v8>>
  BY DEF Graph!NextStart, Graph!None
<1>2. CASE \E n \in Graph!Nodes :
             v7[n] = "white" /\ v7' = [v7 EXCEPT ![n] = "gray"] /\ v5' = <<n>> /\ UNCHANGED v10
  <2>1. PICK n \in Graph!Nodes :
             v7[n] = "white" /\ v7' = [v7 EXCEPT ![n] = "gray"] /\ v5' = <<n>> /\ UNCHANGED v10
    BY <1>2
  <2>2. DOMAIN v5' = {1} /\ v5'[1] = n
    BY <2>1
  <2>3. /\ v7'[n] = "gray" /\ \A m \in Graph!Nodes : v7[m] # "gray"
        /\ \A m \in Graph!Nodes : m # n => v7'[m] = v7[m]
    BY <1>1, <2>1 DEF Graph!TypeOK, Graph!Search, Graph!StackIsGray
  <2>4. Graph!StackIsGray'
    BY <2>2, <2>3 DEF Graph!StackIsGray
  <2>5. Graph!StackIsPath'
    BY <2>2 DEF Graph!StackIsPath
  <2>6. Graph!BlackIsLeft'
    BY <1>1, <2>1, <2>3, SameReach DEF Graph!Search, Graph!BlackIsLeft
  <2>7. Graph!WhiteIsNew'
    BY <1>1, <2>1, <2>3 DEF Graph!Search, Graph!WhiteIsNew
  <2>8. Graph!LookedAt'
    BY <1>1, <2>1, <2>2 DEF Graph!Search, Graph!WhiteIsNew, Graph!LookedAt, Graph!Any
  <2> QED
    BY <1>1, <2>1, <2>4, <2>5, <2>6, <2>7, <2>8 DEF Graph!Search, Graph!None
<1>3. CASE (\A n \in Graph!Nodes : v7[n] # "white") /\ v10' = "acyclic" /\ UNCHANGED <<v5, v7>>
  <2>1. \A n \in Graph!Nodes : v7[n] = "black"
    BY <1>1, <1>3 DEF Graph!TypeOK, Graph!Search, Graph!StackIsGray
  <2>2. ~ Graph!Cyclic
    BY <2>1 DEF Graph!Cyclic, Graph!Search, Graph!BlackIsLeft
  <2>3. Graph!StackIsGray' /\ Graph!StackIsPath' /\ Graph!BlackIsLeft' /\ Graph!WhiteIsNew'
    BY <1>1, <1>3, SameReach DEF Graph!Search, Graph!StackIsGray, Graph!StackIsPath,
                                 Graph!BlackIsLeft, Graph!WhiteIsNew
  <2> QED
    BY <1>1, <1>3, <2>2, <2>3, SameReach DEF Graph!Search, Graph!None
<1> QED
  BY <1>2, <1>3 DEF Graph!NextStart

\* A frame is done: its node is black.
LEMMA SearchPopped ==
  ASSUME Graph!GraphAssumption, Graph!TypeOK, Graph!Search, v10 = "none", v5 # <<>>, v1' = v1, Popped
  PROVE  Graph!Search'
<1> DEFINE n == Head(v5)
<1> USE DEF Graph!Search
<1>1. /\ n \in Graph!Nodes /\ n = v5[1] /\ 1 \in DOMAIN v5 /\ v7[n] = "gray"
      /\ DOMAIN v5 = 1..Len(v5) /\ Len(v5) \in Nat
  <2>1. n \in Graph!Nodes /\ n = v5[1] /\ 1 \in DOMAIN v5 /\ DOMAIN v5 = 1..Len(v5) /\ Len(v5) \in Nat
    BY DEF Graph!TypeOK
  <2> QED
    BY <2>1 DEF Graph!StackIsGray
<1>2. /\ DOMAIN v5' = 1..(Len(v5) - 1)
      /\ \A i \in DOMAIN v5' : i + 1 \in DOMAIN v5 /\ v5'[i] = v5[i + 1]
      /\ \A i \in DOMAIN v5 : i # 1 => i - 1 \in DOMAIN v5' /\ v5'[i - 1] = v5[i]
  <2>1. v5' = Tail(v5)
    BY DEF Popped
  <2>2. Len(Tail(v5)) = Len(v5) - 1 /\ \A i \in 1..(Len(v5) - 1) : Tail(v5)[i] = v5[i + 1]
    BY DEF Graph!TypeOK
  <2>3. DOMAIN Tail(v5) = 1..(Len(v5) - 1)
    BY <2>2 DEF Graph!TypeOK
  <2> QED
    BY <1>1, <2>1, <2>2, <2>3
<1>3. /\ v7' \in [Graph!Nodes -> {"white", "gray", "black"}] /\ v7'[n] = "black"
      /\ \A m \in Graph!Nodes : m # n => v7'[m] = v7[m]
  BY <1>1 DEF Popped, Graph!TypeOK
<1>4. \A m \in v1[n] : <<n, m>> \in v8
  BY DEF Popped
<1>5. Graph!StackIsGray'
  <2>1. \A m \in Graph!Nodes : v7'[m] = "gray" => \E i \in DOMAIN v5' : v5'[i] = m
    BY <1>1, <1>2, <1>3 DEF Graph!StackIsGray
  <2>2. \A i \in DOMAIN v5' : v5'[i] # n
    BY <1>1, <1>2 DEF Graph!StackIsPath
  <2>3. \A m \in Graph!Nodes : (\E i \in DOMAIN v5' : v5'[i] = m) => v7'[m] = "gray"
    BY <1>1, <1>2, <1>3, <2>2 DEF Graph!StackIsGray
  <2> QED
    BY <2>1, <2>3 DEF Graph!StackIsGray
<1>6. Graph!StackIsPath'
  BY <1>1, <1>2, SameReach DEF Graph!StackIsPath
<1>7. Graph!BlackIsLeft'
  <2>1. \A m \in Graph!Nodes : m \in v1[n] => v7[m] = "black"
    <3>1. ASSUME NEW m \in Graph!Nodes, m \in v1[n] PROVE v7[m] = "black"
      <4>1. <<v5[1], m>> \in v8
        BY <1>1, <1>4, <3>1
      <4>2. v7[m] = "black" \/ (1 > 1 /\ m = v5[1 - 1])
        BY <1>1, <4>1 DEF Graph!LookedAt, Graph!None
      <4> QED
        BY <4>2
    <3> QED
      BY <3>1
  <2>2. n \notin Graph!Reach(Graph!Edges, n)
    <3> DEFINE T == {m \in Graph!Nodes : v7[m] = "black"} \cup {Graph!Foreign}
    <3>1. v1[n] \subseteq T
      BY <1>1, <2>1 DEF Graph!TypeOK, Graph!Any
    <3>2. \A p \in T \cap Graph!Nodes : v1[p] \subseteq T
      <4>1. ASSUME NEW p \in T \cap Graph!Nodes PROVE v1[p] \subseteq T
        <5>1. p \in Graph!Nodes /\ v7[p] = "black"
          BY DEF Graph!Nodes, Graph!Foreign
        <5> QED
          BY <5>1 DEF Graph!TypeOK, Graph!Any, Graph!BlackIsLeft
      <4> QED
        BY <4>1
    <3>3. n \notin T
      BY <1>1 DEF Graph!Nodes, Graph!Foreign
    <3> HIDE DEF T
    <3>4. Graph!Reach(Graph!Edges, n) \subseteq T
      BY <1>1, <3>1, <3>2, EdgesReach DEF Graph!TypeOK
    <3> QED
      BY <3>3, <3>4
  <2> QED
    BY <1>1, <1>3, <2>1, <2>2, SameReach DEF Graph!BlackIsLeft
<1>8. Graph!WhiteIsNew'
  BY <1>3 DEF Popped, Graph!WhiteIsNew
<1>9. Graph!LookedAt'
  <2>1. ASSUME NEW i \in DOMAIN v5', NEW m \in Graph!Nodes, <<v5'[i], m>> \in v8
        PROVE  v7'[m] = "black" \/ (i > 1 /\ m = v5'[i - 1])
    <3>1. v7[m] = "black" \/ m = v5[i]
      BY <1>2, <2>1 DEF Graph!LookedAt, Graph!None
    <3>2. i = 1 \/ (i > 1 /\ i \in DOMAIN v5 /\ v5'[i - 1] = v5[i])
      BY <1>1, <1>2
    <3> QED
      BY <1>1, <1>3, <3>1, <3>2
  <2> QED
    BY <2>1 DEF Graph!LookedAt, Popped
<1> QED
  BY <1>5, <1>6, <1>7, <1>8, <1>9 DEF Popped, Graph!None

\* A dependency that is white is entered.
LEMMA SearchPushed ==
  ASSUME Graph!GraphAssumption, Graph!TypeOK, Graph!Search, v10 = "none", v5 # <<>>, v1' = v1,
         NEW m \in v1[Head(v5)], v8' = v8 \cup {<<Head(v5), m>>}, Pushed(m)
  PROVE  Graph!Search'
<1> DEFINE n == Head(v5)
<1> USE DEF Graph!Search
<1>1. /\ n \in Graph!Nodes /\ n = v5[1] /\ 1 \in DOMAIN v5 /\ v7[n] = "gray" /\ v7[m] = "white"
      /\ DOMAIN v5 = 1..Len(v5) /\ Len(v5) \in Nat /\ m \in Graph!Nodes /\ m # n
      /\ \A i \in DOMAIN v5 : v5[i] \in Graph!Nodes
  <2>1. /\ n \in Graph!Nodes /\ n = v5[1] /\ 1 \in DOMAIN v5 /\ DOMAIN v5 = 1..Len(v5) /\ Len(v5) \in Nat
        /\ \A i \in DOMAIN v5 : v5[i] \in Graph!Nodes
    BY DEF Graph!TypeOK
  <2>2. v7[n] = "gray"
    BY <2>1 DEF Graph!StackIsGray
  <2> QED
    BY <2>1, <2>2 DEF Pushed
<1>2. /\ DOMAIN v5' = 1..(Len(v5) + 1) /\ v5'[1] = m
      /\ \A i \in DOMAIN v5' : i # 1 => i - 1 \in DOMAIN v5 /\ v5'[i] = v5[i - 1]
      /\ \A i \in DOMAIN v5 : i + 1 \in DOMAIN v5' /\ v5'[i + 1] = v5[i]
  <2>1. v5' = <<m>> \o v5 /\ <<m>> \in Seq(Graph!Nodes) /\ Len(<<m>>) = 1 /\ <<m>>[1] = m
    BY <1>1 DEF Pushed
  <2>2. /\ v5' \in Seq(Graph!Nodes) /\ Len(v5') = 1 + Len(v5)
        /\ \A i \in 1..(1 + Len(v5)) : v5'[i] = IF i <= 1 THEN <<m>>[i] ELSE v5[i - 1]
    BY <2>1, ConcatProperties DEF Graph!TypeOK
  <2> QED
    BY <1>1, <2>1, <2>2
<1>3. /\ v7' \in [Graph!Nodes -> {"white", "gray", "black"}] /\ v7'[m] = "gray"
      /\ \A p \in Graph!Nodes : p # m => v7'[p] = v7[p]
  BY <1>1 DEF Pushed, Graph!TypeOK
<1>4. Graph!StackIsGray'
  <2>1. ASSUME NEW p \in Graph!Nodes, v7'[p] = "gray" PROVE \E i \in DOMAIN v5' : v5'[i] = p
    <3>1. CASE p = m
      BY <1>1, <1>2, <3>1
    <3>2. CASE p # m
      <4>1. PICK i \in DOMAIN v5 : v5[i] = p
        BY <1>3, <2>1, <3>2 DEF Graph!StackIsGray
      <4> QED
        BY <1>2, <4>1
    <3> QED
      BY <3>1, <3>2
  <2>2. ASSUME NEW p \in Graph!Nodes, NEW i \in DOMAIN v5', v5'[i] = p PROVE v7'[p] = "gray"
    <3>1. p = m \/ (p # m /\ i - 1 \in DOMAIN v5 /\ v5[i - 1] = p)
      BY <1>2, <2>2
    <3> QED
      BY <1>3, <3>1 DEF Graph!StackIsGray
  <2> QED
    BY <2>1, <2>2 DEF Graph!StackIsGray
<1>5. Graph!StackIsPath'
  <2>1. ASSUME NEW i \in DOMAIN v5', NEW j \in DOMAIN v5', i < j
        PROVE  v5'[i] # v5'[j] /\ v5'[i] \in Graph!Reach(Graph!Edges, v5'[j])
    <3> DEFINE k == j - 1
    <3>1. k \in DOMAIN v5 /\ v5'[j] = v5[k]
      BY <1>2, <2>1
    <3>2. CASE i = 1
      <4>1. v7[v5[k]] = "gray" /\ v5[k] \in Graph!Nodes
        BY <1>1, <3>1 DEF Graph!StackIsGray
      <4>a. k = 1 \/ 1 < k
        BY <1>1, <1>2, <3>1
      <4>b. \A l \in DOMAIN v5 : 1 < l => v5[1] \in Graph!Reach(Graph!Edges, v5[l])
        BY <1>1 DEF Graph!StackIsPath
      <4>2. k = 1 \/ n \in Graph!Reach(Graph!Edges, v5[k])
        BY <1>1, <3>1, <4>a, <4>b
      <4>3. m \in Graph!Reach(Graph!Edges, v5[k])
        BY <1>1, <4>1, <4>2, EdgesReach DEF Graph!TypeOK
      <4> QED
        BY <1>1, <1>2, <3>1, <3>2, <4>1, <4>3
    <3>3. CASE i # 1
      <4>1. i - 1 \in DOMAIN v5 /\ i - 1 < k /\ v5'[i] = v5[i - 1]
        BY <1>1, <1>2, <2>1, <3>3
      <4> QED
        BY <3>1, <4>1 DEF Graph!StackIsPath
    <3> QED
      BY <3>2, <3>3
  <2> QED
    BY <2>1, SameReach DEF Graph!StackIsPath
<1>6. Graph!BlackIsLeft'
  BY <1>1, <1>3, SameReach DEF Graph!BlackIsLeft
<1>7. Graph!WhiteIsNew'
  <2>1. ASSUME NEW p \in Graph!Nodes, NEW q \in Graph!Any, v7'[p] = "white", <<p, q>> \in v8'
        PROVE  FALSE
    <3>1. p # m /\ p # n
      BY <1>1, <1>3, <2>1
    <3>2. <<p, q>> # <<n, m>>
      BY <3>1
    <3> QED
      BY <1>3, <2>1, <3>1, <3>2 DEF Graph!WhiteIsNew
  <2> QED
    BY <2>1 DEF Graph!WhiteIsNew
<1>8. Graph!LookedAt'
  <2>1. ASSUME NEW i \in DOMAIN v5', NEW q \in Graph!Nodes, <<v5'[i], q>> \in v8'
        PROVE  v7'[q] = "black" \/ (i > 1 /\ q = v5'[i - 1])
    <3>1. CASE i = 1
      <4>1. <<m, q>> \in v8
        BY <1>1, <1>2, <2>1, <3>1
      <4> QED
        BY <1>1, <4>1 DEF Graph!WhiteIsNew, Graph!Any
    <3>2. CASE i # 1
      <4> DEFINE k == i - 1
      <4>1. i > 1 /\ k \in DOMAIN v5 /\ v5'[i] = v5[k]
        BY <1>2, <3>2
      <4>2. CASE <<v5[k], q>> = <<n, m>>
        <5>1. q = m /\ v5[k] = n
          BY <4>2
        <5>a. k = 1 \/ 1 < k
          BY <1>1, <1>2, <4>1
        <5>b. \A l \in DOMAIN v5 : 1 < l => v5[1] # v5[l]
          BY <1>1 DEF Graph!StackIsPath
        <5>2. k = 1
          BY <1>1, <4>1, <5>1, <5>a, <5>b
        <5> QED
          BY <1>2, <4>1, <5>1, <5>2
      <4>3. CASE <<v5[k], q>> \in v8
        <5>1. v7[q] = "black" \/ (k > 1 /\ q = v5[k - 1])
          BY <4>1, <4>3 DEF Graph!LookedAt, Graph!None
        <5>2. CASE v7[q] = "black"
          BY <1>1, <1>3, <5>2
        <5>3. CASE k > 1 /\ q = v5[k - 1]
          <6>1. k - 1 \in DOMAIN v5 /\ k - 1 + 1 = k
            BY <1>1, <4>1, <5>3
          <6>2. v5'[k] = v5[k - 1]
            BY <1>2, <6>1
          <6> QED
            BY <4>1, <5>3, <6>2
        <5> QED
          BY <5>1, <5>2, <5>3
      <4> QED
        BY <2>1, <4>1, <4>2, <4>3
    <3> QED
      BY <3>1, <3>2
  <2> QED
    BY <2>1 DEF Graph!LookedAt
<1> QED
  BY <1>4, <1>5, <1>6, <1>7, <1>8 DEF Pushed, Graph!None

\* One that is gray closes a cycle, and one that is black or no node is passed.
LEMMA SearchClosedOrPassed ==
  ASSUME Graph!GraphAssumption, Graph!TypeOK, Graph!Search, v10 = "none", v5 # <<>>, v1' = v1,
         NEW m \in v1[Head(v5)], v8' = v8 \cup {<<Head(v5), m>>}, Closed(m) \/ Passed(m)
  PROVE  Graph!Search'
<1> DEFINE n == Head(v5)
<1> USE DEF Graph!Search
<1>1. /\ n \in Graph!Nodes /\ n = v5[1] /\ 1 \in DOMAIN v5 /\ v7[n] = "gray"
      /\ DOMAIN v5 = 1..Len(v5) /\ \A i \in DOMAIN v5 : v5[i] \in Graph!Nodes
  <2>1. /\ n \in Graph!Nodes /\ n = v5[1] /\ 1 \in DOMAIN v5 /\ DOMAIN v5 = 1..Len(v5)
        /\ \A i \in DOMAIN v5 : v5[i] \in Graph!Nodes
    BY DEF Graph!TypeOK
  <2> QED
    BY <2>1 DEF Graph!StackIsGray
<1>2. v5' = v5 /\ v7' = v7
  BY DEF Closed, Passed
<1>3. Graph!StackIsGray' /\ Graph!StackIsPath' /\ Graph!BlackIsLeft'
  BY <1>2, SameReach DEF Graph!StackIsGray, Graph!StackIsPath, Graph!BlackIsLeft
<1>4. Graph!WhiteIsNew'
  BY <1>1, <1>2 DEF Graph!WhiteIsNew
<1>5. CASE Closed(m)
  <2>1. PICK k \in DOMAIN v5 : v5[k] = m
    BY <1>5 DEF Closed, Graph!StackIsGray
  <2>2. k = 1 \/ n \in Graph!Reach(Graph!Edges, m)
    BY <1>1, <2>1 DEF Graph!StackIsPath
  <2>3. m \in Graph!Reach(Graph!Edges, m)
    BY <1>1, <2>1, <2>2, EdgesReach DEF Graph!TypeOK
  <2>4. Graph!Cyclic
    BY <1>1, <2>1, <2>3 DEF Graph!Cyclic
  <2> QED
    BY <1>3, <1>4, <1>5, <2>4, SameReach DEF Closed, Graph!None
<1>6. CASE Passed(m)
  <2>1. ASSUME NEW i \in DOMAIN v5, NEW q \in Graph!Nodes, <<v5[i], q>> \in v8'
        PROVE  v7[q] = "black" \/ (i > 1 /\ q = v5[i - 1])
    <3>1. CASE <<v5[i], q>> = <<n, m>>
      BY <1>6, <3>1 DEF Passed
    <3>2. CASE <<v5[i], q>> \in v8
      BY <3>2 DEF Graph!LookedAt, Graph!None
    <3> QED
      BY <2>1, <3>1, <3>2
  <2>2. Graph!LookedAt'
    BY <1>2, <2>1 DEF Graph!LookedAt
  <2> QED
    BY <1>3, <1>4, <1>6, <2>2 DEF Passed, Graph!None
<1> QED
  BY <1>5, <1>6

LEMMA SearchStep ==
  ASSUME Graph!GraphAssumption, Graph!TypeOK, v3 = "query" => Graph!Search,
         [Graph!Next]_(Graph!vars), v3' = "query"
  PROVE  Graph!Search'
<1>1. CASE Graph!Ask
  BY <1>1, SearchAsked
<1>2. CASE Graph!NextStart
  BY <1>2, SearchNextStart DEF Graph!NextStart
<1>3. CASE Graph!LookAt
  BY <1>3, LookAtDoes, SearchPopped, SearchPushed, SearchClosedOrPassed
<1>4. CASE UNCHANGED Graph!vars
  <2>1. UNCHANGED <<v1, v3, v5, v7, v8, v10>>
    BY <1>4 DEF Graph!vars
  <2> QED
    BY <2>1, SameReach DEF Graph!Search, Graph!StackIsGray, Graph!StackIsPath, Graph!BlackIsLeft,
                           Graph!WhiteIsNew, Graph!LookedAt, Graph!None
<1> QED
  BY <1>1, <1>2, <1>3, <1>4
     DEF Graph!Next, Graph!AskBatch, Graph!ReorderDeliverables, Graph!SelectReadyBatch,
         Graph!StartValidate, Graph!ValidateNext, Graph!Validated, Graph!StartResolve,
         Graph!ResolveNext, Graph!Resolved, Graph!Focus, Graph!Impact

(***************************************************************************)
(* The sum of the weights w of 1 .. N, taken up one by one.                *)
(***************************************************************************)
IsSum(g, N, w) == /\ g \in [0..N -> Nat] /\ g[0] = 0
                  /\ \A k \in 1..N : g[k] = g[k - 1] + w[k]

LEMMA SumNext ==
  ASSUME NEW N \in Nat, NEW w \in [1..N -> Nat], NEW g, IsSum(g, N, w), NEW n \in 0..(N - 1)
  PROVE  n + 1 \in 1..N /\ n \in 0..N /\ g[n] \in Nat /\ w[n + 1] \in Nat /\ g[n + 1] = g[n] + w[n + 1]
<1>1. n + 1 \in 1..N /\ n + 1 - 1 = n /\ n \in 0..N
  OBVIOUS
<1> QED
  BY <1>1 DEF IsSum

\* It is zero just when all weights are.
LEMMA SumZero ==
  ASSUME NEW N \in Nat, NEW w \in [1..N -> Nat], NEW g, IsSum(g, N, w)
  PROVE  g[N] = 0 <=> \A k \in 1..N : w[k] = 0
<1>0. g \in [0..N -> Nat] /\ g[0] = 0
  BY DEF IsSum
<1>1. ASSUME NEW n \in 0..(N - 1)
      PROVE  n + 1 \in 1..N /\ n \in 0..N /\ g[n] \in Nat /\ w[n + 1] \in Nat /\ g[n + 1] = g[n] + w[n + 1]
  BY SumNext
<1> DEFINE Good == {n \in 0..N : g[n] = 0 <=> \A k \in 1..n : w[k] = 0}
<1>2. 0 \in Good
  BY <1>0
<1>3. ASSUME NEW n \in 0..(N - 1), n \in Good PROVE n + 1 \in Good
  <2>1. \A k \in 1..(n + 1) : k \in 1..n \/ k = n + 1
    OBVIOUS
  <2>2. n + 1 \in 1..(n + 1) /\ \A k \in 1..n : k \in 1..(n + 1)
    OBVIOUS
  <2>3. g[n] = 0 <=> \A k \in 1..n : w[k] = 0
    BY <1>3
  <2>4. g[n + 1] = 0 <=> g[n] = 0 /\ w[n + 1] = 0
    BY <1>1
  <2>5. g[n + 1] = 0 <=> \A k \in 1..(n + 1) : w[k] = 0
    BY <2>1, <2>2, <2>3, <2>4
  <2>6. n + 1 \in 0..N
    OBVIOUS
  <2> QED
    BY <2>5, <2>6
<1> HIDE DEF Good
<1>4. \A n \in 0..N : n \in Good
  BY <1>2, <1>3, Induction
<1> QED
  BY <1>4 DEF Good

\* Without one weight it is less by that.
Lacks(z, w, x, N) == /\ w \in [1..N -> Nat] /\ z \in [1..N -> Nat]
                     /\ z[x] = 0
                     /\ \A k \in 1..N : k # x => z[k] = w[k]

LEMMA SumLess ==
  ASSUME NEW N \in Nat, NEW w, NEW z, NEW x \in 1..N, Lacks(z, w, x, N),
         NEW g, IsSum(g, N, w), NEW h, IsSum(h, N, z)
  PROVE  g[N] = h[N] + w[x]
<1>0. g \in [0..N -> Nat] /\ g[0] = 0 /\ h \in [0..N -> Nat] /\ h[0] = 0
  BY DEF IsSum
<1>w. w \in [1..N -> Nat] /\ z \in [1..N -> Nat]
  BY DEF Lacks
<1>1. ASSUME NEW n \in 0..(N - 1)
      PROVE  /\ n + 1 \in 1..N /\ n \in 0..N /\ g[n] \in Nat /\ h[n] \in Nat
             /\ g[n + 1] = g[n] + w[n + 1] /\ h[n + 1] = h[n] + z[n + 1]
             /\ w[n + 1] \in Nat /\ z[n + 1] \in Nat
  <2>1. n + 1 \in 1..N /\ n \in 0..N /\ g[n] \in Nat /\ w[n + 1] \in Nat /\ g[n + 1] = g[n] + w[n + 1]
    BY <1>w, SumNext
  <2>2. h[n] \in Nat /\ z[n + 1] \in Nat /\ h[n + 1] = h[n] + z[n + 1]
    BY <1>w, SumNext
  <2> QED
    BY <2>1, <2>2
<1> DEFINE Good == {n \in 0..N : g[n] = h[n] + IF n < x THEN 0 ELSE w[x]}
<1>2. 0 \in Good
  BY <1>0
<1>3. ASSUME NEW n \in 0..(N - 1), n \in Good PROVE n + 1 \in Good
  <2>1. g[n] = h[n] + IF n < x THEN 0 ELSE w[x]
    BY <1>3
  <2>2. n + 1 \in 0..N /\ w[x] \in Nat
    BY <1>w
  <2>3. CASE n + 1 = x
    <3>1. n < x /\ ~ (n + 1 < x) /\ z[n + 1] = 0 /\ w[n + 1] = w[x]
      BY <2>3 DEF Lacks
    <3>2. g[n + 1] = h[n + 1] + w[x]
      BY <1>1, <2>1, <2>2, <3>1
    <3> QED
      BY <2>2, <3>1, <3>2
  <2>4. CASE n + 1 # x
    <3>1. (n < x <=> n + 1 < x) /\ z[n + 1] = w[n + 1]
      BY <1>1, <2>4 DEF Lacks
    <3>2. CASE n < x
      BY <1>1, <2>1, <2>2, <3>1, <3>2
    <3>3. CASE ~ (n < x)
      <4>1. g[n] = h[n] + w[x]
        BY <2>1, <3>3
      <4> DEFINE a == g[n]
                 b == h[n]
                 c == w[n + 1]
                 d == w[x]
      <4>a. a \in Nat /\ b \in Nat /\ c \in Nat /\ d \in Nat /\ a = b + d
        BY <1>1, <2>2, <4>1
      <4>b. g[n + 1] = a + c /\ h[n + 1] = b + c
        BY <1>1, <3>1
      <4> HIDE DEF a, b, c
      <4>2. g[n + 1] = h[n + 1] + w[x]
        BY <4>a, <4>b
      <4> QED
        BY <2>2, <3>1, <3>3, <4>2
    <3> QED
      BY <3>2, <3>3
  <2> QED
    BY <2>3, <2>4
<1> HIDE DEF Good
<1>4. \A n \in 0..N : n \in Good
  BY <1>2, <1>3, Induction
<1>5. N \in 0..N /\ ~ (N < x)
  OBVIOUS
<1> QED
  BY <1>4, <1>5 DEF Good

\* What is listed by the others is such a sum.
Weights(P, m) == [n \in 1..DeliverableCount |-> IF n \in P THEN 0 ELSE Graph!Occurs(n, m)]

LEMMA LeftIsSum ==
  ASSUME Graph!GraphAssumption, NEW P, NEW m
  PROVE  /\ Weights(P, m) \in [1..DeliverableCount -> Nat]
         /\ \E g : IsSum(g, DeliverableCount, Weights(P, m)) /\ Graph!Left(P, m) = g[DeliverableCount]
<1> DEFINE N == DeliverableCount
           w == Weights(P, m)
           Body(u) == [n \in 0..N |->
                         IF n = 0 THEN 0 ELSE u[n - 1] + IF n \in P THEN 0 ELSE Graph!Occurs(n, m)]
           U == CHOOSE u : u = Body(u)
           step == [k \in 1..N |-> [s \in Nat |-> s + w[k]]]
<1>1. Graph!Left(P, m) = U[N]
  BY DEF Graph!Left
<1>2. N \in Nat
  BY DEF Graph!GraphAssumption
<1>3. w \in [1..N -> Nat] /\ \A n \in 1..N : w[n] = IF n \in P THEN 0 ELSE Graph!Occurs(n, m)
  BY DEF Weights, Graph!Occurs
<1> HIDE DEF w, N
<1>4. step \in [1..N -> [Nat -> Nat]] /\ 0 \in Nat
  BY <1>3
<1> HIDE DEF step
<1>5. PICK g : IsRecursion(g, N, Nat, 0, step)
  BY <1>2, <1>4, Recursion
<1>6. g \in [0..N -> Nat] /\ g[0] = 0 /\ \A k \in 1..N : g[k] = g[k - 1] + w[k]
  <2>1. g \in [0..N -> Nat] /\ g[0] = 0 /\ \A k \in 1..N : g[k] = step[k][g[k - 1]]
    BY <1>5 DEF IsRecursion
  <2>2. \A k \in 1..N : g[k - 1] \in Nat
    BY <1>2, <2>1
  <2> QED
    BY <2>1, <2>2 DEF step
<1>7. \A k \in 0..N : g[k] = Body(g)[k]
  <2>1. \A k \in 0..N : k = 0 \/ k \in 1..N
    BY <1>2
  <2> QED
    BY <1>3, <1>6, <2>1
<1>8. g = Body(g)
  BY <1>6, <1>7
<1>9. U = Body(U)
  <2> HIDE DEF Body
  <2> QED
    BY <1>8
<1>10. U[N] = g[N]
  <2> HIDE DEF U
  <2>1. 0 \in 0..N /\ \A k \in 1..N : k \in 0..N /\ k # 0
    BY <1>2
  <2>2. U[0] = g[0]
    <3>1. Body(U)[0] = Body(g)[0]
      BY <2>1
    <3> HIDE DEF Body
    <3> QED
      BY <1>8, <1>9, <3>1
  <2>3. ASSUME NEW k \in 1..N, U[k - 1] = g[k - 1]
        PROVE  U[k] = g[k]
    <3>1. Body(U)[k] = Body(g)[k]
      BY <2>1, <2>3
    <3> HIDE DEF Body
    <3> QED
      BY <1>8, <1>9, <3>1
  <2> HIDE DEF Body
  <2> QED
    BY <1>2, <2>2, <2>3, SameScan
<1>11. IsSum(g, N, w)
  BY <1>6 DEF IsSum
<1> QED
  BY <1>1, <1>3, <1>10, <1>11 DEF w, N

\* Nothing is left just when no other lists it, and each other that is taken
\* away takes its listings with it.
LEMMA LeftIs ==
  ASSUME Graph!GraphAssumption, NEW P, NEW m
  PROVE  /\ Graph!Left(P, m) \in Nat
         /\ Graph!Left(P, m) = 0 <=> \A n \in Graph!Nodes : m \in v1[n] => n \in P
         /\ \A n \in Graph!Nodes : n \notin P =>
              Graph!Left(P, m) = Graph!Left(P \cup {n}, m) + Graph!Occurs(n, m)
<1> DEFINE N == DeliverableCount
<1>1. N \in Nat /\ Graph!Nodes = 1..N
  BY DEF Graph!GraphAssumption, Graph!Nodes
<1> HIDE DEF N
<1>2. PICK g : IsSum(g, N, Weights(P, m)) /\ Graph!Left(P, m) = g[N]
  BY LeftIsSum DEF N
<1>3. Weights(P, m) \in [1..N -> Nat]
  BY LeftIsSum DEF N
<1>4. g[N] \in Nat
  BY <1>1, <1>2 DEF IsSum
<1>5. g[N] = 0 <=> \A k \in 1..N : Weights(P, m)[k] = 0
  BY <1>1, <1>2, <1>3, SumZero
<1>6. \A k \in 1..N : Weights(P, m)[k] = 0 <=> (m \in v1[k] => k \in P)
  BY DEF Weights, Graph!Occurs, N
<1>7. ASSUME NEW n \in 1..N, n \notin P
      PROVE  Graph!Left(P, m) = Graph!Left(P \cup {n}, m) + Graph!Occurs(n, m)
  <2> DEFINE w == Weights(P, m)
             z == Weights(P \cup {n}, m)
  <2>1. PICK h : IsSum(h, N, z) /\ Graph!Left(P \cup {n}, m) = h[N]
    BY LeftIsSum DEF N
  <2>2. z \in [1..N -> Nat]
    BY LeftIsSum DEF N
  <2>3. z[n] = 0 /\ w[n] = Graph!Occurs(n, m) /\ \A k \in 1..N : k # n => z[k] = w[k]
    BY <1>7 DEF Weights, N
  <2>4. w \in [1..N -> Nat] /\ IsSum(g, N, w)
    BY <1>2, <1>3
  <2> HIDE DEF w, z
  <2>5. g[N] = h[N] + w[n]
    <3>1. Lacks(z, w, n, N)
      BY <2>2, <2>3, <2>4 DEF Lacks
    <3>2. N \in Nat /\ n \in 1..N
      BY <1>1
    <3>3. IsSum(g, N, w) /\ IsSum(h, N, z)
      BY <2>1, <2>4
    <3> QED
      BY <3>1, <3>2, <3>3, SumLess
  <2> QED
    BY <1>2, <2>1, <2>3, <2>5
<1> QED
  BY <1>1, <1>2, <1>4, <1>5, <1>6, <1>7

Members(s) == {s[i] : i \in DOMAIN s}
IsSorted(s, must) ==
  /\ s \in Seq(Graph!Nodes)
  /\ \A i, j \in DOMAIN s : i # j => s[i] # s[j]
  /\ \A i \in DOMAIN s : \A n \in must[s[i]] : \E j \in 1..(i - 1) : s[j] = n

\* What may come next is put at the end.
LEMMA Appended ==
  ASSUME NEW must, NEW s, IsSorted(s, must), NEW n \in Graph!Nodes,
         n \notin Members(s), must[n] \subseteq Members(s)
  PROVE  IsSorted(Append(s, n), must) /\ Members(Append(s, n)) = Members(s) \cup {n}
<1> DEFINE t == Append(s, n)
           k == Len(s) + 1
<1>1. s \in Seq(Graph!Nodes) /\ DOMAIN s = 1..Len(s) /\ Len(s) \in Nat
  BY DEF IsSorted
<1>2. t \in Seq(Graph!Nodes) /\ Len(t) = k /\ t[k] = n /\ \A i \in DOMAIN s : t[i] = s[i]
  BY <1>1, AppendProperties
<1>3. DOMAIN t = 1..k
  BY <1>2
<1>4. /\ k \in DOMAIN t
      /\ \A i \in DOMAIN s : i \in DOMAIN t /\ i < k
      /\ \A i \in DOMAIN t : i # k => i \in DOMAIN s
  BY <1>1, <1>3
<1> HIDE DEF t, k
<1>5. Members(t) = Members(s) \cup {n}
  BY <1>2, <1>4 DEF Members
<1>6. \A i \in DOMAIN s : s[i] # n
  BY DEF Members
<1>7. ASSUME NEW i \in DOMAIN t, NEW j \in DOMAIN t, i # j PROVE t[i] # t[j]
  <2>1. CASE i = k
    BY <1>2, <1>4, <1>6, <1>7, <2>1
  <2>2. CASE j = k
    BY <1>2, <1>4, <1>6, <1>7, <2>2
  <2>3. CASE i # k /\ j # k
    BY <1>2, <1>4, <1>7, <2>3 DEF IsSorted
  <2> QED
    BY <2>1, <2>2, <2>3
<1>8. ASSUME NEW i \in DOMAIN t, NEW m \in must[t[i]] PROVE \E j \in 1..(i - 1) : t[j] = m
  <2>1. CASE i = k
    <3>1. m \in Members(s)
      BY <1>2, <1>8, <2>1
    <3>2. PICK j \in DOMAIN s : s[j] = m
      BY <3>1 DEF Members
    <3>3. j \in 1..(i - 1) /\ t[j] = m
      BY <1>1, <1>2, <1>4, <2>1, <3>2 DEF k
    <3> QED
      BY <3>3
  <2>2. CASE i # k
    <3>1. i \in DOMAIN s /\ t[i] = s[i]
      BY <1>2, <1>4, <2>2
    <3>2. PICK j \in 1..(i - 1) : s[j] = m
      BY <1>8, <3>1 DEF IsSorted
    <3>3. j \in DOMAIN s
      BY <1>1, <3>1
    <3> QED
      BY <1>2, <3>2, <3>3
  <2> QED
    BY <2>1, <2>2
<1>9. IsSorted(t, must)
  BY <1>2, <1>7, <1>8 DEF IsSorted
<1> QED
  BY <1>5, <1>9 DEF t

LEMMA NothingSorted == ASSUME NEW must PROVE IsSorted(<<>>, must) /\ Members(<<>>) = {}
BY DEF IsSorted, Members

\* It has all nodes just when it is as long as they are many.
LEMMA SortedCounts ==
  ASSUME Graph!GraphAssumption, NEW must, NEW s, IsSorted(s, must)
  PROVE  Members(s) \subseteq Graph!Nodes /\ (Len(s) = DeliverableCount <=> Members(s) = Graph!Nodes)
<1> DEFINE N == DeliverableCount
<1>1. N \in Nat /\ Graph!Nodes = 1..N
  BY DEF Graph!GraphAssumption, Graph!Nodes
<1> HIDE DEF N
<1>2. s \in Seq(Graph!Nodes) /\ DOMAIN s = 1..Len(s) /\ Len(s) \in Nat
  BY DEF IsSorted
<1>3. s \in [1..Len(s) -> 1..N] /\ \A i, j \in 1..Len(s) : i # j => s[i] # s[j]
  <2>1. s \in [1..Len(s) -> Graph!Nodes]
    BY <1>2
  <2>2. \A i, j \in 1..Len(s) : i # j => s[i] # s[j]
    BY <1>2 DEF IsSorted
  <2> QED
    BY <1>1, <2>1, <2>2
<1>4. s \in Injection(1..Len(s), 1..N)
  BY <1>3 DEF Injection, IsInjective
<1>5. IsFiniteSet(1..N) /\ Cardinality(1..N) = N /\ Cardinality(1..Len(s)) = Len(s)
  <2>1. IsFiniteSet(1..N) /\ Cardinality(1..N) = N
    BY <1>1, FS_Interval
  <2>2. Cardinality(1..Len(s)) = Len(s)
    <3>1. 1 \in Int /\ Len(s) \in Int /\ Len(s) >= 0
      BY <1>2
    <3> QED
      BY <1>2, <3>1, FS_Interval
  <2> QED
    BY <2>1, <2>2
<1>6. Len(s) = N <=> s \in Surjection(1..Len(s), 1..N)
  BY <1>4, <1>5, FS_Injection
<1>7. s \in Surjection(1..Len(s), 1..N) <=> \A n \in 1..N : \E i \in 1..Len(s) : s[i] = n
  BY <1>3 DEF Surjection
<1>8. Members(s) \subseteq 1..N /\ (Members(s) = 1..N <=> \A n \in 1..N : \E i \in 1..Len(s) : s[i] = n)
  BY <1>2, <1>3 DEF Members
<1> QED
  BY <1>1, <1>6, <1>7, <1>8 DEF N

\* Where all nodes come after those that depend on them there is no cycle.
LEMMA SortedIsAcyclic ==
  ASSUME Graph!GraphAssumption, v1 \in [Graph!Nodes -> SUBSET Graph!Any],
         NEW s, IsSorted(s, Graph!Users), Members(s) = Graph!Nodes
  PROVE  ~ Graph!Cyclic
<1> SUFFICES ASSUME NEW n \in Graph!Nodes, n \in Graph!Reach(Graph!Edges, n)
             PROVE  FALSE
  BY DEF Graph!Cyclic
<1>1. DOMAIN s = 1..Len(s) /\ Len(s) \in Nat /\ \A j \in DOMAIN s : s[j] \in Graph!Nodes
  BY DEF IsSorted
<1>2. PICK i \in DOMAIN s : s[i] = n
  BY DEF Members
<1> DEFINE T == {s[j] : j \in {k \in DOMAIN s : i < k}} \cup {Graph!Foreign}
<1>3. ASSUME NEW j \in DOMAIN s, NEW m \in v1[s[j]], m \in Graph!Nodes
      PROVE  \E k \in DOMAIN s : j < k /\ m = s[k]
  <2>1. PICK k \in DOMAIN s : s[k] = m
    BY <1>3 DEF Members
  <2>2. s[j] \in Graph!Users[m]
    BY <1>1, <1>3 DEF Graph!Users
  <2>3. PICK l \in 1..(k - 1) : s[l] = s[j]
    BY <2>1, <2>2 DEF IsSorted
  <2>4. l \in DOMAIN s
    BY <1>1, <2>1, <2>3
  <2>5. l = j
    BY <2>3, <2>4 DEF IsSorted
  <2> QED
    BY <1>1, <2>1, <2>3, <2>5
<1>4. \A m : m \in Graph!Any => m \in Graph!Nodes \/ m = Graph!Foreign
  BY DEF Graph!Any
<1>5. v1[n] \subseteq T
  BY <1>2, <1>3, <1>4
<1>6. \A p \in T \cap Graph!Nodes : v1[p] \subseteq T
  <2>1. ASSUME NEW p \in T, p \in Graph!Nodes, NEW m \in v1[p] PROVE m \in T
    <3>1. PICK j \in DOMAIN s : i < j /\ p = s[j]
      BY <2>1 DEF Graph!Nodes, Graph!Foreign
    <3>2. CASE m = Graph!Foreign
      BY <3>2
    <3>3. CASE m \in Graph!Nodes
      <4>1. PICK k \in DOMAIN s : j < k /\ m = s[k]
        BY <1>3, <2>1, <3>1, <3>3
      <4>2. i < k
        BY <1>1, <1>2, <3>1, <4>1
      <4> QED
        BY <4>1, <4>2
    <3> QED
      BY <1>4, <2>1, <3>2, <3>3
  <2> QED
    BY <2>1
<1>7. n \notin T
  <2>1. n # Graph!Foreign
    BY DEF Graph!Nodes, Graph!Foreign
  <2>2. \A k \in DOMAIN s : i < k => s[k] # n
    BY <1>1, <1>2 DEF IsSorted
  <2> QED
    BY <2>1, <2>2
<1> HIDE DEF T
<1>8. Graph!Reach(Graph!Edges, n) \subseteq T
  BY <1>5, <1>6, EdgesReach
<1> QED
  BY <1>7, <1>8

LEMMA SameLeft ==
  ASSUME v1' = v1, v2' = v2
  PROVE  \A P, m : Graph!Left(P, m)' = Graph!Left(P, m)
BY DEF Graph!Left, Graph!Occurs

\* The conjuncts of Counting once the count is taken.
IsCounted ==
  /\ Graph!Foreign \in v8 /\ v8 \subseteq Graph!Any
  /\ IsSorted(v9, Graph!Users)
  /\ v6 = [m \in Graph!Nodes |-> Graph!Left(Members(v9), m)]
  /\ \A m \in Graph!Nodes : m \in v8 <=> m \notin Members(v9) /\ Graph!Users[m] \subseteq Members(v9)

LEMMA CountingIs ==
  Graph!Counting <=>
    /\ v8 = {} => v9 = <<>> /\ v10 = "none"
    /\ v8 # {} => IsCounted
    /\ v10 # "none" => (v10 = "cyclic" <=> Graph!Cyclic)
BY DEF Graph!Counting, IsCounted, IsSorted, Members, Graph!Sorted, Graph!Done, Graph!None

LEMMA StartValidateCounts ==
  ASSUME Graph!GraphAssumption, Graph!TypeOK, Graph!StartValidate
  PROVE  IsCounted'
<1>1. /\ v9 = <<>> /\ v8 = {} /\ UNCHANGED <<v1, v2, v9>>
      /\ v6' = [m \in Graph!Nodes |-> Graph!Left({}, m)]
      /\ v8' = {n \in Graph!Nodes : v6'[n] = 0} \cup {Graph!Foreign}
  BY DEF Graph!StartValidate
<1>2. Members(v9') = {} /\ IsSorted(v9', Graph!Users')
  BY <1>1, NothingSorted
<1>3. v6' = [m \in Graph!Nodes |-> Graph!Left(Members(v9), m)']
  <2>1. \A m : Graph!Left(Members(v9), m)' = Graph!Left({}, m)
    <3>1. \A m : Graph!Left(Members(v9), m)' = Graph!Left(Members(v9), m)
      BY <1>1 DEF Graph!Left, Graph!Occurs
    <3>2. Members(v9) = {}
      BY <1>1, NothingSorted
    <3> QED
      BY <3>1, <3>2
  <2> QED
    BY <1>1, <2>1
<1>4. Graph!Users' = Graph!Users /\ \A m \in Graph!Nodes : Graph!Users[m] = {n \in Graph!Nodes : m \in v1[n]}
  BY <1>1 DEF Graph!Users
<1>5. ASSUME NEW m \in Graph!Nodes
      PROVE  m \in v8' <=> Graph!Users[m] \subseteq {}
  <2>1. m # Graph!Foreign
    BY DEF Graph!Nodes, Graph!Foreign
  <2>2. v6'[m] = Graph!Left({}, m)
    BY <1>1
  <2>3. Graph!Left({}, m) = 0 <=> \A n \in Graph!Nodes : m \in v1[n] => n \in {}
    BY LeftIs
  <2>4. m \in v8' <=> v6'[m] = 0
    BY <1>1, <2>1
  <2> QED
    BY <1>4, <2>2, <2>3, <2>4
<1>6. Graph!Foreign \in v8' /\ v8' \subseteq Graph!Any
  BY <1>1 DEF Graph!Any
<1> QED
  BY <1>2, <1>3, <1>4, <1>5, <1>6 DEF IsCounted

LEMMA ValidateNextCounts ==
  ASSUME Graph!GraphAssumption, Graph!TypeOK, IsCounted, Graph!ValidateNext
  PROVE  IsCounted'
<1> DEFINE D == Members(v9)
           U == Graph!Users
<1>1. PICK n \in v8 \cap Graph!Nodes :
        /\ v9' = Append(v9, n)
        /\ v6' = [m \in Graph!Nodes |-> v6[m] - Graph!Occurs(n, m)]
        /\ v8' = (v8 \ {n}) \cup {m \in v1[n] \cap Graph!Nodes : v6'[m] = 0}
  BY DEF Graph!ValidateNext
<1>2. UNCHANGED <<v1, v2>> /\ v1 \in [Graph!Nodes -> SUBSET Graph!Any]
  BY DEF Graph!ValidateNext, Graph!TypeOK
<1>3. U' = U /\ \A m, p \in Graph!Nodes : p \in U[m] <=> m \in v1[p]
  BY <1>2 DEF Graph!Users
<1>3a. \A m \in Graph!Nodes : U[m] \subseteq Graph!Nodes
  BY DEF Graph!Users
<1>4. n \in Graph!Nodes /\ n # Graph!Foreign /\ n \notin D /\ U[n] \subseteq D /\ IsSorted(v9, U)
  BY <1>1 DEF IsCounted, Graph!Nodes, Graph!Foreign
<1>5. IsSorted(v9', U) /\ Members(v9') = D \cup {n}
  BY <1>1, <1>4, Appended
<1>6. ASSUME NEW m \in Graph!Nodes
      PROVE  /\ v6'[m] = Graph!Left(D \cup {n}, m)
             /\ v6'[m] = 0 <=> U[m] \subseteq D \cup {n}
  <2>1. v6[m] = Graph!Left(D, m)
    BY DEF IsCounted
  <2>2. Graph!Left(D, m) = Graph!Left(D \cup {n}, m) + Graph!Occurs(n, m)
    BY <1>4, LeftIs
  <2>3. Graph!Left(D \cup {n}, m) \in Nat /\ Graph!Occurs(n, m) \in Nat
    BY LeftIs DEF Graph!Occurs
  <2>4. v6'[m] = v6[m] - Graph!Occurs(n, m)
    BY <1>1
  <2>5. v6'[m] = Graph!Left(D \cup {n}, m)
    <3> DEFINE a == Graph!Left(D \cup {n}, m)
               b == Graph!Occurs(n, m)
    <3>1. v6'[m] = (a + b) - b /\ a \in Nat /\ b \in Nat
      BY <2>1, <2>2, <2>3, <2>4
    <3> HIDE DEF a, b
    <3>2. v6'[m] = a
      BY <3>1
    <3> QED
      BY <3>2 DEF a
  <2>6. Graph!Left(D \cup {n}, m) = 0 <=> \A p \in Graph!Nodes : m \in v1[p] => p \in D \cup {n}
    BY LeftIs
  <2> QED
    BY <1>3, <1>3a, <2>5, <2>6
<1>7. v6' = [m \in Graph!Nodes |-> Graph!Left(Members(v9), m)']
  <2>1. \A m : Graph!Left(Members(v9), m)' = Graph!Left(D \cup {n}, m)
    BY <1>2, <1>5 DEF Graph!Left, Graph!Occurs
  <2> QED
    BY <1>1, <1>6, <2>1
<1>8. ASSUME NEW m \in Graph!Nodes
      PROVE  m \in v8' <=> m \notin D \cup {n} /\ U[m] \subseteq D \cup {n}
  <2>1. m \in v8' <=> (m \in v8 /\ m # n) \/ (m \in v1[n] /\ U[m] \subseteq D \cup {n})
    BY <1>1, <1>6
  <2>2. m \in v8 <=> m \notin D /\ U[m] \subseteq D
    BY DEF IsCounted
  <2>3. m \in v1[n] <=> n \in U[m]
    BY <1>3, <1>4
  <2>4. n \in U[m] => m \notin D
    <3>1. ASSUME n \in U[m], m \in D PROVE FALSE
      <4>1. PICK i \in DOMAIN v9 : v9[i] = m
        BY <3>1 DEF Members
      <4>2. PICK j \in 1..(i - 1) : v9[j] = n
        BY <1>4, <3>1, <4>1 DEF IsSorted
      <4>3. DOMAIN v9 = 1..Len(v9) /\ Len(v9) \in Nat
        BY <1>4 DEF IsSorted
      <4>4. j \in DOMAIN v9
        BY <4>1, <4>2, <4>3
      <4> QED
        BY <1>4, <4>2, <4>4 DEF Members
    <3> QED
      BY <3>1
  <2>5. n \in U[m] => m # n
    BY <1>4
  <2> HIDE DEF D, U
  <2> QED
    BY <2>1, <2>2, <2>3, <2>4, <2>5
<1>9. Graph!Foreign \in v8' /\ v8' \subseteq Graph!Any
  BY <1>1, <1>4 DEF IsCounted, Graph!Any
<1> QED
  BY <1>3, <1>5, <1>7, <1>8, <1>9 DEF IsCounted

\* When nothing waits, what is left has a cycle, and there is none where nothing is.
LEMMA ValidatedIsRight ==
  ASSUME Graph!GraphAssumption, Graph!TypeOK, IsCounted, v8 = {Graph!Foreign}
  PROVE  Len(v9) # DeliverableCount <=> Graph!Cyclic
<1> DEFINE D == Members(v9)
           L == Graph!Nodes \ D
<1>1. v1 \in [Graph!Nodes -> SUBSET Graph!Any] /\ IsSorted(v9, Graph!Users)
  BY DEF Graph!TypeOK, IsCounted
<1>2. D \subseteq Graph!Nodes /\ (Len(v9) = DeliverableCount <=> D = Graph!Nodes)
  BY <1>1, SortedCounts
<1>3. CASE D = Graph!Nodes
  BY <1>1, <1>2, <1>3, SortedIsAcyclic
<1>4. CASE D # Graph!Nodes
  <2>1. L # {} /\ L \in SUBSET Graph!Nodes
    BY <1>2, <1>4
  <2>2. ASSUME NEW m \in L PROVE \E n \in L : m \in v1[n]
    <3>1. m \in Graph!Nodes /\ m \notin v8 /\ m \notin D
      BY DEF Graph!Nodes, Graph!Foreign
    <3>2. ~ (Graph!Users[m] \subseteq D)
      BY <3>1 DEF IsCounted
    <3> QED
      BY <3>1, <3>2 DEF Graph!Users
  <2> HIDE DEF L
  <2>3. Graph!Cyclic
    BY <1>1, <2>1, <2>2, Circle
  <2> QED
    BY <1>2, <1>4, <2>3
<1> QED
  BY <1>3, <1>4

LEMMA CountingStep ==
  ASSUME Graph!GraphAssumption, Graph!TypeOK, v3 = "validate" => Graph!Counting,
         [Graph!Next]_(Graph!vars), v3' = "validate"
  PROVE  Graph!Counting'
<1> DEFINE Is == /\ v8 = {} => v9 = <<>> /\ v10 = "none"
                 /\ v8 # {} => IsCounted
                 /\ v10 # "none" => (v10 = "cyclic" <=> Graph!Cyclic)
<1>1. Graph!Counting' <=> Is'
  BY DEF Graph!Counting, IsCounted, IsSorted, Members, Graph!Sorted, Graph!Done, Graph!None
<1>2. v3 = "validate" => Is
  BY CountingIs
<1>3. CASE Graph!Ask
  <2>1. v8' = {} /\ v9' = <<>> /\ v10' = "none"
    BY <1>3 DEF Graph!Ask, Graph!TypeOK, Graph!None
  <2> QED
    BY <1>1, <2>1
<1>4. CASE Graph!StartValidate
  <2>1. v10' = "none" /\ Graph!Foreign \in v8'
    BY <1>4 DEF Graph!StartValidate, Graph!None
  <2> QED
    BY <1>1, <1>4, <2>1, StartValidateCounts
<1>5. CASE Graph!ValidateNext
  <2>1. v3 = "validate" /\ v10' = "none" /\ v8 # {}
    BY <1>5 DEF Graph!ValidateNext, Graph!None
  <2>2. IsCounted'
    BY <1>2, <1>5, <2>1, ValidateNextCounts
  <2>3. v8' # {}
    BY <2>2 DEF IsCounted
  <2> QED
    BY <1>1, <2>1, <2>2, <2>3
<1>6. CASE Graph!Validated
  <2>1. /\ v3 = "validate" /\ v8 = {Graph!Foreign} /\ UNCHANGED <<v1, v2, v6, v8, v9>>
        /\ v10' = "cyclic" <=> Len(v9) # DeliverableCount
    BY <1>6 DEF Graph!Validated
  <2>2. IsCounted
    BY <1>2, <2>1
  <2>3. v10' = "cyclic" <=> Graph!Cyclic
    BY <2>1, <2>2, ValidatedIsRight
  <2>4. IsCounted'
    BY <2>1, <2>2 DEF IsCounted, Graph!Users, Graph!Left, Graph!Occurs
  <2> QED
    BY <1>1, <2>1, <2>3, <2>4, SameReach
<1>7. CASE UNCHANGED Graph!vars
  <2>1. UNCHANGED <<v1, v2, v3, v6, v8, v9, v10>>
    BY <1>7 DEF Graph!vars
  <2>2. IsCounted' <=> IsCounted
    BY <2>1 DEF IsCounted, Graph!Users, Graph!Left, Graph!Occurs
  <2> QED
    BY <1>1, <1>2, <2>1, <2>2, SameReach
<1> QED
  BY <1>3, <1>4, <1>5, <1>6, <1>7
     DEF Graph!Next, Graph!AskBatch, Graph!ReorderDeliverables, Graph!SelectReadyBatch,
         Graph!NextStart, Graph!LookAt, Graph!StartResolve,
         Graph!ResolveNext, Graph!Resolved, Graph!Focus, Graph!Impact

LEMMA NodesCardinality == \A S : Graph!Cardinality(S) = Cardinality(S)
BY DEF Graph!Cardinality, Cardinality

Doubled == \E n \in Graph!Nodes : v2[n] # {}

\* The conjuncts of Resolving while the queue is worked on.
IsQueued ==
  /\ IsSorted(v9, Graph!Needs) /\ v8 \cap Members(v9) = {}
  /\ \A m \in Graph!Nodes : m \notin Members(v9) =>
       /\ m \in v8 => Graph!Needs[m] \subseteq Members(v9)
       /\ m \notin v8 =>
            /\ v6[m] = Cardinality(Graph!Needs[m] \ Members(v9)) + Cardinality(v2[m])
            /\ v6[m] # 0

LEMMA ResolvingIs ==
  Graph!Resolving <=>
    /\ v8 = {} => v9 = <<>> /\ v10 = "none"
    /\ v8 # {} => Graph!Foreign \in v8 /\ v8 \subseteq Graph!Any
    /\ v8 # {} /\ v10 \in {"none", "sorted"} => IsQueued
    /\ v10 = "sorted" => Len(v9) = DeliverableCount
    /\ v10 \notin {"none", "sorted"} => Graph!Cyclic \/ Doubled
<1>1. \A m \in Graph!Nodes : Graph!Cardinality(Graph!Needs[m] \ Graph!Done) = Cardinality(Graph!Needs[m] \ Graph!Done)
                             /\ Graph!Cardinality(v2[m]) = Cardinality(v2[m])
  BY NodesCardinality
<1>2. IsSorted(v9, Graph!Needs) <=> Graph!Sorted(Graph!Needs)
  BY DEF IsSorted, Graph!Sorted
<1>3. Members(v9) = Graph!Done
  BY DEF Members, Graph!Done
<1>4. IsQueued <=>
        /\ Graph!Sorted(Graph!Needs) /\ v8 \cap Graph!Done = {}
        /\ \A m \in Graph!Nodes \ Graph!Done :
             IF m \in v8 THEN Graph!Needs[m] \subseteq Graph!Done
             ELSE /\ v6[m] = Graph!Cardinality(Graph!Needs[m] \ Graph!Done) + Graph!Cardinality(v2[m])
                  /\ v6[m] # 0
  BY <1>1, <1>2, <1>3 DEF IsQueued
<1> QED
  BY <1>4 DEF Graph!Resolving, Graph!None, Doubled

\* The nodes and the sets of them are finite.
LEMMA NodesAreFinite ==
  ASSUME Graph!GraphAssumption, NEW S \in SUBSET Graph!Nodes
  PROVE  IsFiniteSet(S) /\ Cardinality(S) \in Nat /\ (Cardinality(S) = 0 <=> S = {})
<1>1. IsFiniteSet(Graph!Nodes)
  BY FS_Interval DEF Graph!Nodes, Graph!GraphAssumption
<1>2. IsFiniteSet(S)
  BY <1>1, FS_Subset
<1> QED
  BY <1>2, FS_CardinalityType, FS_EmptySet

LEMMA StartResolveQueues ==
  ASSUME Graph!GraphAssumption, Graph!TypeOK, Graph!StartResolve
  PROVE  IsQueued'
<1>1. /\ v9 = <<>> /\ v8 = {} /\ UNCHANGED <<v1, v2, v9>>
      /\ v6' = [n \in Graph!Nodes |-> Cardinality(v1[n] \cap Graph!Nodes) + Cardinality(v2[n])]
      /\ v8' = {n \in Graph!Nodes : v6'[n] = 0} \cup {Graph!Foreign}
  BY NodesCardinality DEF Graph!StartResolve
<1>2. Members(v9') = {} /\ IsSorted(v9', Graph!Needs')
  BY <1>1, NothingSorted
<1>3. Graph!Needs' = Graph!Needs /\ \A m \in Graph!Nodes : Graph!Needs[m] = v1[m] \cap Graph!Nodes
  BY <1>1 DEF Graph!Needs
<1>4. ASSUME NEW m \in Graph!Nodes
      PROVE  /\ m \in v8' => Graph!Needs[m] \subseteq {}
             /\ m \notin v8' => v6'[m] = Cardinality(Graph!Needs[m] \ {}) + Cardinality(v2'[m]) /\ v6'[m] # 0
  <2>1. v6'[m] = Cardinality(Graph!Needs[m]) + Cardinality(v2[m])
    BY <1>1, <1>3
  <2>2. Graph!Needs[m] \subseteq Graph!Nodes /\ v2[m] \subseteq Graph!Nodes /\ Graph!Needs[m] \ {} = Graph!Needs[m]
    BY <1>3 DEF Graph!TypeOK
  <2>3. /\ Cardinality(Graph!Needs[m]) \in Nat /\ Cardinality(v2[m]) \in Nat
        /\ Cardinality(Graph!Needs[m]) = 0 => Graph!Needs[m] = {}
    BY <2>2, NodesAreFinite
  <2>4. m \in v8' <=> v6'[m] = 0
    <3>1. m # Graph!Foreign
      BY DEF Graph!Nodes, Graph!Foreign
    <3> QED
      BY <1>1, <3>1
  <2> QED
    BY <1>1, <2>1, <2>2, <2>3, <2>4
<1>5. v8' \cap {} = {}
  OBVIOUS
<1> QED
  BY <1>2, <1>3, <1>4, <1>5 DEF IsQueued

LEMMA ResolveNextQueues ==
  ASSUME Graph!GraphAssumption, Graph!TypeOK, IsQueued, Graph!ResolveNext
  PROVE  IsQueued'
<1> DEFINE D == Members(v9)
           n == Graph!Least(v8 \cap Graph!Nodes)
           freed == {m \in Graph!Nodes \ ((D \cup {n}) \cup v8) : n \in v1[m]}
           M == Graph!Needs
<1>1. /\ v9' = Append(v9, n)
      /\ v6' = [m \in Graph!Nodes |-> IF m \in freed THEN v6[m] - 1 ELSE v6[m]]
      /\ v8' = (v8 \ {n}) \cup {m \in freed : v6'[m] = 0}
      /\ UNCHANGED <<v1, v2>> /\ v8 \cap Graph!Nodes # {}
  BY DEF Graph!ResolveNext, Members
<1>2. n \in v8 /\ n \in Graph!Nodes
  <2>1. v8 \cap Graph!Nodes \in SUBSET Nat
    BY DEF Graph!Nodes
  <2> QED
    BY <1>1, <2>1, LeastIs
<1> HIDE DEF n
<1>3. M' = M /\ \A m \in Graph!Nodes : M[m] = v1[m] \cap Graph!Nodes
  BY <1>1 DEF Graph!Needs
<1>4. n \notin D /\ M[n] \subseteq D /\ IsSorted(v9, M) /\ v8 \cap D = {}
  BY <1>2 DEF IsQueued
<1>5. IsSorted(v9', M) /\ Members(v9') = D \cup {n}
  BY <1>1, <1>2, <1>4, Appended
<1>6. v8' \cap (D \cup {n}) = {}
  BY <1>1, <1>4
<1>7. ASSUME NEW m \in Graph!Nodes, m \notin D \cup {n}
      PROVE  /\ m \in v8' => M[m] \subseteq D \cup {n}
             /\ m \notin v8' => /\ v6'[m] = Cardinality(M[m] \ (D \cup {n})) + Cardinality(v2[m])
                                /\ v6'[m] # 0
  <2>1. CASE m \in v8
    <3>1. M[m] \subseteq D /\ m \in v8'
      BY <1>1, <1>7, <2>1 DEF IsQueued
    <3> QED
      BY <3>1
  <2>2. CASE m \notin v8 /\ n \notin v1[m]
    <3>1. m \notin freed /\ m \notin v8' /\ v6'[m] = v6[m]
      BY <1>1, <2>2
    <3>2. M[m] \ (D \cup {n}) = M[m] \ D
      BY <1>3, <2>2
    <3> QED
      BY <1>7, <2>2, <3>1, <3>2 DEF IsQueued
  <2>3. CASE m \notin v8 /\ n \in v1[m]
    <3> DEFINE A == M[m] \ D
               B == M[m] \ (D \cup {n})
    <3>1. m \in freed /\ v6'[m] = v6[m] - 1
      BY <1>1, <1>7, <2>3
    <3>2. v6[m] = Cardinality(A) + Cardinality(v2[m])
      BY <1>7, <2>3 DEF IsQueued
    <3>3. n \in A /\ B = A \ {n} /\ A \subseteq Graph!Nodes /\ v2[m] \subseteq Graph!Nodes
      BY <1>2, <1>3, <1>4, <2>3 DEF Graph!TypeOK
    <3>4. m \in v8' <=> v6'[m] = 0
      BY <1>1, <2>3, <3>1
    <3>5. (B = {}) => M[m] \subseteq D \cup {n}
      OBVIOUS
    <3> HIDE DEF A, B
    <3>6. IsFiniteSet(A) /\ Cardinality(A) \in Nat /\ Cardinality(v2[m]) \in Nat
      BY <3>3, NodesAreFinite
    <3>7. Cardinality(B) = Cardinality(A) - 1
      BY <3>3, <3>6, FS_RemoveElement
    <3>8. Cardinality(B) \in Nat /\ (Cardinality(B) = 0 => B = {})
      <4>1. B \subseteq Graph!Nodes
        BY <3>3
      <4> QED
        BY <4>1, NodesAreFinite
    <3>9. v6'[m] = Cardinality(B) + Cardinality(v2[m])
      BY <3>1, <3>2, <3>6, <3>7
    <3>10. v6'[m] = 0 => B = {}
      BY <3>6, <3>8, <3>9
    <3> QED
      BY <3>4, <3>5, <3>9, <3>10 DEF B
  <2> QED
    BY <2>1, <2>2, <2>3
<1> QED
  BY <1>1, <1>3, <1>5, <1>6, <1>7 DEF IsQueued

\* What is left when nothing waits needs what is left too, or names one twice.
LEMMA ResolvedIsRight ==
  ASSUME Graph!GraphAssumption, Graph!TypeOK, IsQueued, v8 = {Graph!Foreign}, Len(v9) # DeliverableCount
  PROVE  Graph!Cyclic \/ Doubled
<1> SUFFICES ASSUME ~ Doubled PROVE Graph!Cyclic
  OBVIOUS
<1> DEFINE D == Members(v9)
           L == Graph!Nodes \ D
<1>1. v1 \in [Graph!Nodes -> SUBSET Graph!Any] /\ IsSorted(v9, Graph!Needs)
  BY DEF Graph!TypeOK, IsQueued
<1>2. D \subseteq Graph!Nodes /\ D # Graph!Nodes
  BY <1>1, SortedCounts
<1>3. L # {} /\ L \in SUBSET Graph!Nodes
  BY <1>2
<1>4. ASSUME NEW m \in L PROVE \E n \in L : n \in v1[m]
  <2>1. m \in Graph!Nodes /\ m \notin v8 /\ m \notin D
    BY DEF Graph!Nodes, Graph!Foreign
  <2>2. v6[m] = Cardinality(Graph!Needs[m] \ D) + Cardinality(v2[m]) /\ v6[m] # 0
    BY <2>1 DEF IsQueued
  <2>3. Cardinality(v2[m]) = 0
    BY <2>1, FS_EmptySet DEF Doubled
  <2>4. Graph!Needs[m] = v1[m] \cap Graph!Nodes
    BY <2>1 DEF Graph!Needs
  <2>5. Cardinality(Graph!Needs[m] \ D) # 0
    <3>1. Graph!Needs[m] \ D \subseteq Graph!Nodes
      BY <2>4
    <3>2. Cardinality(Graph!Needs[m] \ D) \in Nat
      BY <3>1, NodesAreFinite
    <3> QED
      BY <2>2, <2>3, <3>2
  <2>6. Graph!Needs[m] \ D # {}
    BY <2>5, FS_EmptySet
  <2> QED
    BY <2>4, <2>6
<1> HIDE DEF L
<1> QED
  BY <1>1, <1>3, <1>4, Circle

LEMMA ResolvingStep ==
  ASSUME Graph!GraphAssumption, Graph!TypeOK, v3 = "resolve" => Graph!Resolving,
         [Graph!Next]_(Graph!vars), v3' = "resolve"
  PROVE  Graph!Resolving'
<1> DEFINE Is == /\ v8 = {} => v9 = <<>> /\ v10 = "none"
                 /\ v8 # {} => Graph!Foreign \in v8 /\ v8 \subseteq Graph!Any
                 /\ v8 # {} /\ v10 \in {"none", "sorted"} => IsQueued
                 /\ v10 = "sorted" => Len(v9) = DeliverableCount
                 /\ v10 \notin {"none", "sorted"} => Graph!Cyclic \/ Doubled
<1>1. Graph!Resolving' <=> Is'
  BY ResolvingIs, PTL
<1>2. v3 = "resolve" => Is
  BY ResolvingIs
<1>3. CASE Graph!Ask
  <2>1. v8' = {} /\ v9' = <<>> /\ v10' = "none"
    BY <1>3 DEF Graph!Ask, Graph!TypeOK, Graph!None
  <2> QED
    BY <1>1, <2>1
<1>4. CASE Graph!StartResolve
  <2>1. v10' = "none" /\ Graph!Foreign \in v8' /\ v8' \subseteq Graph!Any
    BY <1>4 DEF Graph!StartResolve, Graph!None, Graph!Any
  <2> QED
    BY <1>1, <1>4, <2>1, StartResolveQueues
<1>5. CASE Graph!ResolveNext
  <2>1. v3 = "resolve" /\ v10 = "none" /\ v10' = "none" /\ v8 # {}
    BY <1>5 DEF Graph!ResolveNext, Graph!None
  <2>2. IsQueued /\ Graph!Foreign \in v8 /\ v8 \subseteq Graph!Any
    BY <1>2, <2>1
  <2>3. IsQueued'
    BY <1>5, <2>2, ResolveNextQueues
  <2>4. Graph!Foreign \in v8' /\ v8' \subseteq Graph!Any
    <3> DEFINE n == Graph!Least(v8 \cap Graph!Nodes)
    <3>1. n \in Graph!Nodes
      <4>1. v8 \cap Graph!Nodes \in SUBSET Nat /\ v8 \cap Graph!Nodes # {}
        BY <1>5 DEF Graph!ResolveNext, Graph!Nodes
      <4> QED
        BY <4>1, LeastIs
    <3>2. v8 \ {n} \subseteq v8' /\ v8' \subseteq v8 \cup Graph!Nodes
      BY <1>5 DEF Graph!ResolveNext
    <3>3. n # Graph!Foreign
      BY <3>1 DEF Graph!Nodes, Graph!Foreign
    <3> HIDE DEF n
    <3> QED
      BY <2>2, <3>2, <3>3 DEF Graph!Any
  <2> QED
    BY <1>1, <2>1, <2>3, <2>4
<1>6. CASE Graph!Resolved
  <2>1. /\ v3 = "resolve" /\ v8 = {Graph!Foreign} /\ v10 = "none" /\ UNCHANGED <<v1, v2, v6, v8>>
        /\ \/ Len(v9) = DeliverableCount /\ v10' = "sorted" /\ v9' = v9
           \/ Len(v9) # DeliverableCount /\ v10' \in {"unsorted", "asked"}
    BY <1>6 DEF Graph!Resolved, Graph!None
  <2>2. IsQueued /\ v8' # {} /\ Graph!Foreign \in v8' /\ v8' \subseteq Graph!Any
    BY <1>2, <2>1
  <2>3. CASE Len(v9) = DeliverableCount /\ v10' = "sorted" /\ v9' = v9
    <3>1. IsQueued'
      BY <2>1, <2>2, <2>3 DEF IsQueued, Graph!Needs
    <3> QED
      BY <1>1, <2>2, <2>3, <3>1
  <2>4. CASE Len(v9) # DeliverableCount /\ v10' \in {"unsorted", "asked"}
    <3>1. Graph!Cyclic \/ Doubled
      BY <2>1, <2>2, <2>4, ResolvedIsRight
    <3>2. Graph!Cyclic' \/ Doubled'
      BY <2>1, <3>1, SameReach DEF Doubled
    <3> QED
      BY <1>1, <2>2, <2>4, <3>2
  <2> QED
    BY <2>1, <2>3, <2>4
<1>7. CASE UNCHANGED Graph!vars
  <2>1. UNCHANGED <<v1, v2, v3, v6, v8, v9, v10>>
    BY <1>7 DEF Graph!vars
  <2>2. (IsQueued' <=> IsQueued) /\ (Doubled' <=> Doubled)
    BY <2>1 DEF IsQueued, Graph!Needs, Doubled
  <2> QED
    BY <1>1, <1>2, <2>1, <2>2, SameReach
<1> QED
  BY <1>3, <1>4, <1>5, <1>6, <1>7
     DEF Graph!Next, Graph!AskBatch, Graph!ReorderDeliverables, Graph!SelectReadyBatch,
         Graph!NextStart, Graph!LookAt, Graph!StartValidate,
         Graph!ValidateNext, Graph!Validated, Graph!Focus, Graph!Impact

\* What AnswersAreRight says of a batch.
BatchIsRight ==
  /\ {v9[i] : i \in DOMAIN v9} =
       {n \in Graph!Nodes : /\ v11[n].status = "open"
                            /\ \A m \in v1[n] : m # Graph!Foreign /\ v11[m].status = "done"}
  /\ \A i, k \in DOMAIN v9 :
       LET named == {v5[p] : p \in DOMAIN v5}
       IN  i < k /\ {v9[i], v9[k]} \subseteq named =>
             Graph!LastAt(v5, v9[i]) < Graph!LastAt(v5, v9[k])

LEMMA RankedStep ==
  ASSUME Graph!GraphAssumption, Graph!TypeOK, v3 = "batch" => Graph!Ranked,
         [Graph!Next]_(Graph!vars), v3' = "batch"
  PROVE  Graph!Ranked'
<1>1. CASE Graph!AskBatch
  <2>1. v5' = <<>>
    BY <1>1 DEF Graph!AskBatch, Graph!TypeOK, Graph!None
  <2> QED
    BY <2>1 DEF Graph!Ranked
<1>2. CASE Graph!ReorderDeliverables
  <2>1. PICK k \in 0..MaxNamed : \E s \in [1..k -> Graph!Any] :
          /\ \A i \in DOMAIN s : s[i] \in Graph!Nodes
          /\ v5' = s
          /\ v11' = [n \in Graph!Nodes |->
                      IF \E i \in DOMAIN s : s[i] = n
                        THEN [v11[n] EXCEPT !.rank = Graph!LastAt(s, n) - 1] ELSE v11[n]]
    BY <1>2 DEF Graph!ReorderDeliverables
  <2>2. PICK s \in [1..k -> Graph!Any] :
          /\ \A i \in DOMAIN s : s[i] \in Graph!Nodes
          /\ v5' = s
          /\ v11' = [n \in Graph!Nodes |->
                      IF \E i \in DOMAIN s : s[i] = n
                        THEN [v11[n] EXCEPT !.rank = Graph!LastAt(s, n) - 1] ELSE v11[n]]
    BY <2>1
  <2>3. ASSUME NEW i \in DOMAIN v5'
        PROVE  v11'[v5'[i]].rank = Graph!LastAt(v5', v5'[i]) - 1
    <3> DEFINE n == s[i]
    <3>1. i \in DOMAIN s /\ v5'[i] = n /\ n \in Graph!Nodes
      BY <2>2, <2>3
    <3>2. v11'[n] = [v11[n] EXCEPT !.rank = Graph!LastAt(s, n) - 1]
      BY <2>2, <3>1
    <3>3. v11[n] \in [status: Graph!Statuses, rank: Nat]
      BY <3>1 DEF Graph!TypeOK
    <3> HIDE DEF n
    <3>4. v11'[n].rank = Graph!LastAt(s, n) - 1
      BY <3>2, <3>3
    <3> QED
      BY <2>2, <3>1, <3>4
  <2> QED
    BY <2>3 DEF Graph!Ranked, Graph!LastAt
<1>3. CASE UNCHANGED <<v5, v11>> /\ v3 = "batch"
  BY <1>3 DEF Graph!Ranked, Graph!LastAt
<1>4. Graph!Next \/ UNCHANGED Graph!vars
  OBVIOUS
<1>5. Graph!SelectReadyBatch \/ UNCHANGED Graph!vars => UNCHANGED <<v5, v11>> /\ v3 = "batch"
  BY DEF Graph!SelectReadyBatch, Graph!vars
<1> QED
  BY <1>1, <1>2, <1>3, <1>4, <1>5
     DEF Graph!Next, Graph!Ask, Graph!Questions, Graph!StartResolve, Graph!Resolved,
         Graph!NextStart, Graph!LookAt, Graph!StartValidate,
         Graph!ResolveNext, Graph!ValidateNext, Graph!Validated, Graph!Focus, Graph!Impact

\* A strictly ordered list of as many as there are has them all.
LEMMA BatchHasAll ==
  ASSUME NEW F, IsFiniteSet(F), NEW s \in [1..Cardinality(F) -> F],
         \A i, k \in DOMAIN s : i < k => s[i] # s[k]
  PROVE  {s[i] : i \in DOMAIN s} = F
<1> DEFINE c == Cardinality(F)
<1>1. c \in Nat
  BY FS_CardinalityType
<1>2. IsFiniteSet(1..c) /\ Cardinality(1..c) = c
  <2> HIDE DEF c
  <2>1. (~ (1 > c) \/ c = 0) /\ 1 \in Int /\ c \in Int
    BY <1>1
  <2> QED
    BY <1>1, <2>1, FS_Interval
<1>3. s \in Injection(1..c, F)
  <2>1. ASSUME NEW a \in 1..c, NEW b \in 1..c, s[a] = s[b] PROVE a = b
    <3>1. a < b \/ b < a \/ a = b
      BY <1>1
    <3> QED
      BY <2>1, <3>1
  <2> QED
    BY <2>1 DEF Injection, IsInjective
<1> HIDE DEF c
<1>4. s \in Surjection(1..c, F)
  BY <1>2, <1>3, FS_Injection DEF c
<1>5. DOMAIN s = 1..c
  BY DEF c
<1>6. \A t \in F : \E i \in 1..c : s[i] = t
  BY <1>4 DEF Surjection
<1>7. \A i \in 1..c : s[i] \in F
  BY DEF c
<1> QED
  BY <1>5, <1>6, <1>7

LEMMA SelectedIsRight ==
  ASSUME Graph!GraphAssumption, Graph!TypeOK, Graph!Ranked, Graph!SelectReadyBatch
  PROVE  BatchIsRight'
<1> DEFINE satisfied == {n \in Graph!Nodes : v11[n].status = "done"}
           F == {n \in Graph!Nodes : v11[n].status = "open" /\ v1[n] \subseteq satisfied}
<1>1. PICK s \in [1..Cardinality(F) -> F] :
        /\ \A i, k \in DOMAIN s : i < k =>
             \/ v11[s[i]].rank < v11[s[k]].rank
             \/ v11[s[i]].rank = v11[s[k]].rank /\ s[i] < s[k]
        /\ v9' = s
  BY NodesCardinality DEF Graph!SelectReadyBatch
<1>2. UNCHANGED <<v1, v5, v11>>
  BY DEF Graph!SelectReadyBatch
<1>3. F \subseteq Graph!Nodes /\ IsFiniteSet(F)
  <2>1. F \subseteq Graph!Nodes
    OBVIOUS
  <2> HIDE DEF F
  <2> QED
    BY <2>1, NodesAreFinite
<1>4. F = {n \in Graph!Nodes : /\ v11[n].status = "open"
                               /\ \A m \in v1[n] : m # Graph!Foreign /\ v11[m].status = "done"}
  <2>1. ASSUME NEW n \in Graph!Nodes
        PROVE  v1[n] \subseteq satisfied <=> \A m \in v1[n] : m # Graph!Foreign /\ v11[m].status = "done"
    <3>1. \A m \in v1[n] : m \in Graph!Nodes <=> m # Graph!Foreign
      BY DEF Graph!TypeOK, Graph!Any, Graph!Nodes, Graph!Foreign
    <3> QED
      BY <3>1
  <2> QED
    BY <2>1
<1>5. \A n \in Graph!Nodes : n \in Int /\ v11[n].rank \in Nat
  BY DEF Graph!TypeOK, Graph!Nodes
<1> HIDE DEF F
<1>6. \A i \in DOMAIN s : s[i] \in Graph!Nodes
  BY <1>3
<1>7. \A i, k \in DOMAIN s : i < k => s[i] # s[k]
  BY <1>1, <1>5, <1>6
<1>8. {s[i] : i \in DOMAIN s} = F
  BY <1>3, <1>7, BatchHasAll
<1>9. ASSUME NEW i \in DOMAIN s, NEW k \in DOMAIN s, i < k,
             NEW p \in DOMAIN v5, s[i] = v5[p], NEW q \in DOMAIN v5, s[k] = v5[q]
      PROVE  Graph!LastAt(v5, s[i]) < Graph!LastAt(v5, s[k])
  <2> DEFINE a == Graph!LastAt(v5, s[i])
             b == Graph!LastAt(v5, s[k])
  <2>1. v5 \in Seq(Graph!Nodes) /\ \A l \in DOMAIN v5 : l \in Int
    BY DEF Graph!TypeOK
  <2>2. a \in DOMAIN v5 /\ v5[a] = s[i] /\ b \in DOMAIN v5 /\ v5[b] = s[k]
    BY <1>9, <2>1, LastAtIs
  <2>3. v11[s[i]].rank = a - 1 /\ v11[s[k]].rank = b - 1
    BY <1>9 DEF Graph!Ranked
  <2>4. a # b
    BY <1>7, <1>9, <2>2
  <2>5. v11[s[i]].rank <= v11[s[k]].rank
    BY <1>1, <1>5, <1>6, <1>9
  <2> HIDE DEF a, b
  <2>6. a < b
    BY <2>1, <2>2, <2>3, <2>4, <2>5
  <2> QED
    BY <2>6 DEF a, b
<1>10. \A i, k \in DOMAIN v9' :
         i < k /\ {v9'[i], v9'[k]} \subseteq {v5[p] : p \in DOMAIN v5} =>
           Graph!LastAt(v5, v9'[i]) < Graph!LastAt(v5, v9'[k])
  BY <1>1, <1>9
<1>11. {v9'[i] : i \in DOMAIN v9'} = F
  BY <1>1, <1>8
<1> QED
  BY <1>2, <1>4, <1>10, <1>11 DEF BatchIsRight, Graph!LastAt

\* It stays right: nothing is changed after it.
LEMMA BatchStep ==
  ASSUME Graph!GraphAssumption, Graph!TypeOK, v3 = "batch" => Graph!Ranked,
         v3 = "batch" /\ v10 # "none" => BatchIsRight,
         [Graph!Next]_(Graph!vars), v3' = "batch", v10' # "none"
  PROVE  BatchIsRight'
<1>1. CASE Graph!SelectReadyBatch
  <2>1. v3 = "batch"
    BY <1>1 DEF Graph!SelectReadyBatch
  <2> QED
    BY <1>1, <2>1, SelectedIsRight
<1>2. CASE UNCHANGED Graph!vars
  BY <1>2 DEF Graph!vars, BatchIsRight, Graph!LastAt
<1>3. CASE Graph!AskBatch
  BY <1>3 DEF Graph!AskBatch, Graph!TypeOK, Graph!None
<1> QED
  BY <1>1, <1>2, <1>3
     DEF Graph!Next, Graph!Ask, Graph!Questions, Graph!StartResolve, Graph!Resolved, Graph!ReorderDeliverables,
         Graph!NextStart, Graph!LookAt, Graph!StartValidate, Graph!None,
         Graph!ResolveNext, Graph!ValidateNext, Graph!Validated, Graph!Focus, Graph!Impact

Both == Graph!Edges \cup {<<e[2], e[1]>> : e \in Graph!Edges}

LEMMA BothIs ==
  ASSUME v1 \in [Graph!Nodes -> SUBSET Graph!Any]
  PROVE  \A p, m : <<p, m>> \in Both <=> \/ p \in Graph!Nodes /\ m \in v1[p]
                                         \/ m \in Graph!Nodes /\ p \in v1[m]
<1>1. \A p, m : <<p, m>> \in Graph!Edges <=> p \in Graph!Nodes /\ m \in v1[p]
  BY DEF Graph!Edges
<1>2. \A p, m : <<p, m>> \in {<<e[2], e[1]>> : e \in Graph!Edges} <=> <<m, p>> \in Graph!Edges
  <2>1. ASSUME NEW p, NEW m, <<p, m>> \in {<<e[2], e[1]>> : e \in Graph!Edges}
        PROVE  <<m, p>> \in Graph!Edges
    <3>1. PICK e \in Graph!Edges : <<p, m>> = <<e[2], e[1]>>
      BY <2>1
    <3>2. e \in Graph!Nodes \X Graph!Any
      BY DEF Graph!Edges
    <3>3. e = <<m, p>>
      BY <3>1, <3>2
    <3> QED
      BY <3>3
  <2>2. ASSUME NEW p, NEW m, <<m, p>> \in Graph!Edges
        PROVE  <<p, m>> \in {<<e[2], e[1]>> : e \in Graph!Edges}
    <3>1. <<p, m>> = <<(<<m, p>>)[2], (<<m, p>>)[1]>>
      OBVIOUS
    <3> QED
      BY <2>2, <3>1
  <2> QED
    BY <2>1, <2>2
<1> QED
  BY <1>1, <1>2 DEF Both

\* What is around, in terms of deps (v1).
LEMMA AroundIs ==
  ASSUME Graph!GraphAssumption, v1 \in [Graph!Nodes -> SUBSET Graph!Any], v4 \in Graph!Nodes
  PROVE  /\ v4 \in Graph!Around /\ Graph!Around \subseteq Graph!Any
         /\ \A n \in Graph!Nodes, m \in Graph!Any : m \in v1[n] => (n \in Graph!Around <=> m \in Graph!Around)
         /\ \A T : /\ v4 \in T
                   /\ \A n \in Graph!Nodes, m \in Graph!Any : m \in v1[n] => (n \in T <=> m \in T)
                   => Graph!Around \subseteq T
<1> DEFINE S == Graph!Reach(Both, v4)
<1>1. Graph!Around = S \cup {v4} /\ v4 \in Graph!Any /\ \A n \in Graph!Nodes : n \in Graph!Any
  BY DEF Graph!Around, Both, Graph!Any
<1>2. /\ S \subseteq Graph!Any
      /\ \A m \in Graph!Any : <<v4, m>> \in Both => m \in S
      /\ \A p \in S, m \in Graph!Any : <<p, m>> \in Both => m \in S
      /\ \A T : /\ \A m \in Graph!Any : <<v4, m>> \in Both => m \in T
                /\ \A p \in T, m \in Graph!Any : <<p, m>> \in Both => m \in T
                => S \subseteq T
  BY <1>1, ReachIs
<1>3. \A p, m : <<p, m>> \in Both <=> \/ p \in Graph!Nodes /\ m \in v1[p]
                                      \/ m \in Graph!Nodes /\ p \in v1[m]
  BY BothIs
<1> HIDE DEF S
<1>4. ASSUME NEW n \in Graph!Nodes, NEW m \in Graph!Any, m \in v1[n]
      PROVE  n \in Graph!Around <=> m \in Graph!Around
  <2>1. <<n, m>> \in Both /\ <<m, n>> \in Both /\ n \in Graph!Any
    BY <1>1, <1>3, <1>4
  <2> QED
    BY <1>1, <1>2, <2>1
<1>5. ASSUME NEW T, v4 \in T,
             \A n \in Graph!Nodes, m \in Graph!Any : m \in v1[n] => (n \in T <=> m \in T)
      PROVE  Graph!Around \subseteq T
  <2>1. ASSUME NEW p \in T, NEW m \in Graph!Any, <<p, m>> \in Both PROVE m \in T
    <3>1. CASE p \in Graph!Nodes /\ m \in v1[p]
      BY <1>5, <2>1, <3>1
    <3>2. CASE m \in Graph!Nodes /\ p \in v1[m]
      BY <1>5, <2>1, <3>2
    <3> QED
      BY <1>3, <2>1, <3>1, <3>2
  <2>2. S \subseteq T
    BY <1>2, <1>5, <2>1
  <2> QED
    BY <1>1, <1>5, <2>2
<1> QED
  BY <1>1, <1>2, <1>4, <1>5

LEMMA FocusingStep ==
  ASSUME Graph!GraphAssumption, Graph!TypeOK, v3 = "focus" => Graph!Focusing,
         [Graph!Next]_(Graph!vars), v3' = "focus"
  PROVE  Graph!Focusing'
<1>1. CASE Graph!Ask
  BY <1>1 DEF Graph!Ask, Graph!TypeOK, Graph!Focusing, Graph!None
<1>2. CASE Graph!Focus
  <2> DEFINE here == v8 \cup {v4}
             more == {m \in Graph!Any : \E n \in Graph!Nodes \cap here : m \in v1[n]}
                     \cup {n \in Graph!Nodes : v1[n] \cap here # {}}
             A == Graph!Around
  <2>1. /\ v3 = "focus" /\ UNCHANGED <<v1, v4>> /\ v8' = here \cup more
        /\ v10' = IF more \subseteq here THEN "focused" ELSE "none"
    BY <1>2 DEF Graph!Focus, Graph!None
  <2>2. v8 \subseteq A /\ v1 \in [Graph!Nodes -> SUBSET Graph!Any] /\ v4 \in Graph!Nodes
    BY <2>1 DEF Graph!Focusing, Graph!TypeOK
  <2>3. /\ v4 \in A /\ A \subseteq Graph!Any
        /\ \A n \in Graph!Nodes, m \in Graph!Any : m \in v1[n] => (n \in A <=> m \in A)
        /\ \A T : /\ v4 \in T
                  /\ \A n \in Graph!Nodes, m \in Graph!Any : m \in v1[n] => (n \in T <=> m \in T)
                  => A \subseteq T
    BY <2>2, AroundIs
  <2>4. A' = A
    <3>1. Graph!Edges' = Graph!Edges
      BY <2>1 DEF Graph!Edges
    <3> QED
      BY <2>1, <3>1 DEF Graph!Around
  <2> HIDE DEF A
  <2>5. \A n \in Graph!Nodes : v1[n] \subseteq Graph!Any
    BY <2>2
  <2>6. v8' \subseteq A
    BY <2>1, <2>2, <2>3, <2>5
  <2>7. CASE more \subseteq here
    <3>1. v8' = here
      BY <2>1, <2>7
    <3>2. \A n \in Graph!Nodes, m \in Graph!Any : m \in v1[n] => (n \in here <=> m \in here)
      BY <2>7
    <3>3. A \subseteq here
      <4> HIDE DEF here
      <4>1. v4 \in here
        BY DEF here
      <4> QED
        BY <2>3, <3>2, <4>1
    <3> QED
      BY <2>4, <2>6, <3>1, <3>3 DEF Graph!Focusing, A
  <2>8. CASE ~ (more \subseteq here)
    BY <2>1, <2>4, <2>6, <2>8 DEF Graph!Focusing, Graph!None, A
  <2> QED
    BY <2>7, <2>8
<1>3. CASE UNCHANGED Graph!vars
  <2>1. UNCHANGED <<v1, v3, v4, v8, v10>>
    BY <1>3 DEF Graph!vars
  <2>2. Graph!Edges' = Graph!Edges
    BY <2>1 DEF Graph!Edges
  <2> QED
    BY <2>1, <2>2 DEF Graph!Focusing, Graph!Around, Graph!None
<1> QED
  BY <1>1, <1>2, <1>3
     DEF Graph!Next, Graph!AskBatch, Graph!ReorderDeliverables, Graph!SelectReadyBatch,
         Graph!NextStart, Graph!LookAt, Graph!StartValidate, Graph!StartResolve,
         Graph!ResolveNext, Graph!Resolved, Graph!ValidateNext, Graph!Validated, Graph!Impact

LEMMA MembersOf ==
  ASSUME NEW S, NEW s \in Seq(S)
  PROVE  /\ \A t \in Seq(S) : Members(s \o t) = Members(s) \cup Members(t)
         /\ \A x \in S : Members(Append(s, x)) = Members(s) \cup {x}
         /\ s # <<>> => Head(s) \in S /\ Tail(s) \in Seq(S) /\ Members(s) = {Head(s)} \cup Members(Tail(s))
<1>1. DOMAIN s = 1..Len(s) /\ Len(s) \in Nat
  OBVIOUS
<1>2. ASSUME NEW t \in Seq(S) PROVE Members(s \o t) = Members(s) \cup Members(t)
  <2> DEFINE u == s \o t
  <2>1. DOMAIN t = 1..Len(t) /\ Len(t) \in Nat
    OBVIOUS
  <2>2. /\ u \in Seq(S) /\ Len(u) = Len(s) + Len(t)
        /\ \A i \in 1..(Len(s) + Len(t)) : u[i] = IF i <= Len(s) THEN s[i] ELSE t[i - Len(s)]
    BY ConcatProperties
  <2>3. DOMAIN u = 1..(Len(s) + Len(t))
    BY <2>2
  <2> HIDE DEF u
  <2>4. ASSUME NEW i \in DOMAIN u PROVE u[i] \in Members(s) \cup Members(t)
    <3>1. CASE i <= Len(s)
      BY <1>1, <2>1, <2>2, <2>3, <3>1 DEF Members
    <3>2. CASE ~ (i <= Len(s))
      <4>1. i - Len(s) \in DOMAIN t /\ u[i] = t[i - Len(s)]
        BY <1>1, <2>1, <2>2, <2>3, <3>2
      <4> QED
        BY <4>1 DEF Members
    <3> QED
      BY <3>1, <3>2
  <2>5. ASSUME NEW i \in DOMAIN s PROVE s[i] \in Members(u)
    <3>1. i \in DOMAIN u /\ u[i] = s[i]
      BY <1>1, <2>1, <2>2, <2>3
    <3> QED
      BY <3>1 DEF Members
  <2>6. ASSUME NEW i \in DOMAIN t PROVE t[i] \in Members(u)
    <3> DEFINE k == i + Len(s)
    <3>1. k \in DOMAIN u /\ ~ (k <= Len(s)) /\ k - Len(s) = i
      BY <1>1, <2>1, <2>3
    <3> HIDE DEF k
    <3>2. u[k] = t[i]
      BY <2>2, <2>3, <3>1
    <3> QED
      BY <3>1, <3>2 DEF Members
  <2>7. Members(u) \subseteq Members(s) \cup Members(t)
    BY <2>4 DEF Members
  <2>8. Members(s) \subseteq Members(u) /\ Members(t) \subseteq Members(u)
    BY <2>5, <2>6 DEF Members
  <2> QED
    BY <2>7, <2>8 DEF u
<1>3. ASSUME NEW x \in S PROVE Members(Append(s, x)) = Members(s) \cup {x}
  <2>1. <<x>> \in Seq(S) /\ Members(<<x>>) = {x}
    BY DEF Members
  <2>2. Append(s, x) = s \o <<x>>
    BY AppendIsConcat
  <2> QED
    BY <1>2, <2>1, <2>2
<1>4. ASSUME s # <<>>
      PROVE  Head(s) \in S /\ Tail(s) \in Seq(S) /\ Members(s) = {Head(s)} \cup Members(Tail(s))
  <2> DEFINE t == Tail(s)
  <2>1. Head(s) \in S /\ t \in Seq(S) /\ Len(t) = Len(s) - 1 /\ Head(s) = s[1] /\ 1 \in DOMAIN s
        /\ \A i \in 1..Len(t) : t[i] = s[i + 1]
    BY <1>1, <1>4, HeadTailProperties
  <2>2. DOMAIN t = 1..Len(t)
    BY <2>1
  <2> HIDE DEF t
  <2>3. ASSUME NEW i \in DOMAIN s PROVE s[i] \in {Head(s)} \cup Members(t)
    <3>1. CASE i = 1
      BY <2>1, <3>1
    <3>2. CASE i # 1
      <4> DEFINE k == i - 1
      <4>1. k \in DOMAIN t /\ k + 1 = i
        BY <1>1, <2>1, <2>2, <3>2
      <4> HIDE DEF k
      <4>2. t[k] = s[i]
        BY <2>1, <2>2, <4>1
      <4> QED
        BY <4>1, <4>2 DEF Members
    <3> QED
      BY <3>1, <3>2
  <2>4. ASSUME NEW i \in DOMAIN t PROVE t[i] \in Members(s)
    <3>1. i + 1 \in DOMAIN s /\ t[i] = s[i + 1]
      BY <1>1, <2>1, <2>2
    <3> QED
      BY <3>1 DEF Members
  <2>5. Members(s) \subseteq {Head(s)} \cup Members(t)
    BY <2>3 DEF Members
  <2>6. Members(t) \subseteq Members(s) /\ Head(s) \in Members(s)
    BY <2>1, <2>4 DEF Members
  <2> QED
    BY <2>1, <2>5, <2>6 DEF t
<1> QED
  BY <1>2, <1>3, <1>4

\* The conjuncts of Judging once the failed one has been looked at.
IsFollowed ==
  /\ v8 \cup {v4} \subseteq Members(v9) \cup Members(v5)
  /\ Members(v5) \subseteq v8 \cup {v4}
  /\ \A m \in Members(v9), n \in Graph!Nodes : m \in v1[n] => n \in v8 \cup {v4}

LEMMA JudgingIs ==
  Graph!Judging <=>
    /\ v8 \subseteq Graph!Blocked /\ v9 \in Seq(Graph!Nodes)
    /\ v9 = <<>> => v8 = {} /\ (v5 = <<>> \/ v5 = <<v4>>)
    /\ v9 # <<>> => IsFollowed
    /\ v10 # "none" => v8 = Graph!Blocked
<1>1. \A n : n \in Members(v9) <=> n \in Graph!Done
  BY DEF Members, Graph!Done
<1>2. \A n : n \in Members(v5) <=> \E i \in DOMAIN v5 : v5[i] = n
  BY DEF Members
<1>3. IsFollowed <=>
        /\ \A n \in v8 \cup {v4} : n \in Graph!Done \/ \E i \in DOMAIN v5 : v5[i] = n
        /\ \A i \in DOMAIN v5 : v5[i] \in v8 \cup {v4}
        /\ \A m \in Graph!Done : \A n \in Graph!Nodes : m \in v1[n] => n \in v8 \cup {v4}
  <2>1. (v8 \cup {v4} \subseteq Members(v9) \cup Members(v5))
        <=> \A n \in v8 \cup {v4} : n \in Graph!Done \/ \E i \in DOMAIN v5 : v5[i] = n
    BY <1>1, <1>2
  <2>2. (Members(v5) \subseteq v8 \cup {v4}) <=> \A i \in DOMAIN v5 : v5[i] \in v8 \cup {v4}
    BY DEF Members
  <2>3. (\A m \in Members(v9), n \in Graph!Nodes : m \in v1[n] => n \in v8 \cup {v4})
        <=> \A m \in Graph!Done : \A n \in Graph!Nodes : m \in v1[n] => n \in v8 \cup {v4}
    BY <1>1
  <2> QED
    BY <2>1, <2>2, <2>3 DEF IsFollowed
<1> QED
  BY <1>3 DEF Graph!Judging, Graph!None

\* The head of the frontier is looked at: what depends on it is blocked.
LEMMA FollowedNext ==
  ASSUME Graph!GraphAssumption, Graph!TypeOK, v3 = "impact", Graph!Judging, v5 # <<>>, v1' = v1, v4' = v4,
         NEW more, more = {m \in Graph!Nodes \ (v8 \cup {v4}) : Head(v5) \in v1[m]},
         NEW s \in Seq(Graph!Nodes), Members(s) = more,
         v8' = v8 \cup more, v5' = s \o Tail(v5), v9' = Append(v9, Head(v5))
  PROVE  v8' \subseteq Graph!Blocked /\ v9' \in Seq(Graph!Nodes) /\ v9' # <<>> /\ IsFollowed'
<1> DEFINE n == Head(v5)
           N == Graph!Nodes
           E(m) == Graph!Reach(Graph!Edges, m)
<1>1. /\ v8 \subseteq Graph!Blocked /\ v9 \in Seq(N)
      /\ v9 = <<>> => v8 = {} /\ v5 = <<v4>>
      /\ v9 # <<>> => IsFollowed
  BY JudgingIs
<1>2. v1 \in [N -> SUBSET Graph!Any] /\ v4 \in N /\ v5 \in Seq(N)
  BY DEF Graph!TypeOK
<1>3. n \in N /\ Tail(v5) \in Seq(N) /\ Members(v5) = {n} \cup Members(Tail(v5))
  BY <1>2, MembersOf
<1>4. Members(v5') = more \cup Members(Tail(v5)) /\ Members(v9') = Members(v9) \cup {n}
  <2>1. \A t \in Seq(N) : Members(s \o t) = Members(s) \cup Members(t)
    BY MembersOf
  <2>2. \A x \in N : Members(Append(v9, x)) = Members(v9) \cup {x}
    BY <1>1, MembersOf
  <2> QED
    BY <1>3, <2>1, <2>2
<1>5. v9' \in Seq(N) /\ v9' # <<>>
  BY <1>1, <1>3, AppendProperties
<1>6. n \in v8 \cup {v4}
  BY <1>1, <1>3 DEF IsFollowed
<1>7. \A m \in N \ {v4} : m \in Graph!Blocked <=> v4 \in E(m)
  BY DEF Graph!Blocked
<1>8. ASSUME NEW m \in more PROVE m \in Graph!Blocked
  <2>1. m \in N /\ m # v4 /\ n \in v1[m]
    OBVIOUS
  <2>2. n \in E(m)
    BY <1>2, <2>1, EdgesReach
  <2>3. CASE n = v4
    BY <1>7, <2>1, <2>2, <2>3
  <2>4. CASE n # v4
    <3>1. v4 \in E(n)
      BY <1>1, <1>3, <1>6, <1>7, <2>4
    <3>2. E(n) \subseteq E(m)
      BY <1>2, <1>3, <2>1, <2>2, ReachFurther
    <3> QED
      BY <1>7, <2>1, <3>1, <3>2
  <2> QED
    BY <2>3, <2>4
<1>9. v8 \cup {v4} \subseteq Members(v9) \cup Members(v5)
  <2>1. CASE v9 = <<>>
    BY <1>1, <1>3, <2>1
  <2> QED
    BY <1>1, <2>1 DEF IsFollowed
<1>10. Members(v5) \subseteq v8 \cup {v4}
  <2>1. CASE v9 = <<>>
    BY <1>1, <2>1 DEF Members
  <2> QED
    BY <1>1, <2>1 DEF IsFollowed
<1>11. \A m \in Members(v9), p \in N : m \in v1[p] => p \in v8 \cup {v4}
  <2>1. CASE v9 = <<>>
    BY <2>1 DEF Members
  <2> QED
    BY <1>1, <2>1 DEF IsFollowed
<1>12. IsFollowed'
  <2>1. v8' \cup {v4} \subseteq Members(v9') \cup Members(v5')
    BY <1>3, <1>4, <1>9
  <2>2. Members(v5') \subseteq v8' \cup {v4}
    BY <1>3, <1>4, <1>10
  <2>3. \A m \in Members(v9'), p \in N : m \in v1[p] => p \in v8' \cup {v4}
    BY <1>4, <1>11
  <2> QED
    BY <2>1, <2>2, <2>3 DEF IsFollowed
<1> QED
  BY <1>1, <1>5, <1>8, <1>12

\* When the frontier is empty, no other leads to the failed one.
LEMMA FollowedAll ==
  ASSUME Graph!GraphAssumption, Graph!TypeOK, v3 = "impact", Graph!Judging, v9 # <<>>, v5 = <<>>
  PROVE  v8 = Graph!Blocked
<1> DEFINE H == v8 \cup {v4}
           T == Graph!Any \ H
<1>1. v8 \subseteq Graph!Blocked /\ IsFollowed
  BY JudgingIs
<1>2. v1 \in [Graph!Nodes -> SUBSET Graph!Any] /\ v4 \in Graph!Nodes
  BY DEF Graph!TypeOK
<1>3. Members(v5) = {}
  BY DEF Members
<1>4. \A m \in H, n \in Graph!Nodes : m \in v1[n] => n \in H
  BY <1>1, <1>3 DEF IsFollowed
<1>5. ASSUME NEW n \in Graph!Blocked PROVE n \in v8
  <2>1. n \in Graph!Nodes /\ n # v4 /\ v4 \in Graph!Reach(Graph!Edges, n)
    BY DEF Graph!Blocked
  <2>2. SUFFICES ASSUME n \notin H PROVE FALSE
    BY <2>1
  <2>3. v1[n] \subseteq T
    BY <1>2, <1>4, <2>1, <2>2
  <2>4. \A p \in T \cap Graph!Nodes : v1[p] \subseteq T
    BY <1>2, <1>4
  <2>5. v4 \notin T
    OBVIOUS
  <2> HIDE DEF T
  <2>6. Graph!Reach(Graph!Edges, n) \subseteq T
    BY <1>2, <2>1, <2>3, <2>4, EdgesReach
  <2> QED
    BY <2>1, <2>5, <2>6
<1> QED
  BY <1>1, <1>5

LEMMA JudgingStep ==
  ASSUME Graph!GraphAssumption, Graph!TypeOK, v3 = "impact" => Graph!Judging,
         [Graph!Next]_(Graph!vars), v3' = "impact"
  PROVE  Graph!Judging'
<1> DEFINE Is == /\ v8 \subseteq Graph!Blocked /\ v9 \in Seq(Graph!Nodes)
                 /\ v9 = <<>> => v8 = {} /\ (v5 = <<>> \/ v5 = <<v4>>)
                 /\ v9 # <<>> => IsFollowed
                 /\ v10 # "none" => v8 = Graph!Blocked
<1>1. Graph!Judging' <=> Is'
  BY JudgingIs, PTL
<1>2. v3 = "impact" => Is
  BY JudgingIs
<1>3. v1' = v1 /\ v4' = v4 => Graph!Blocked' = Graph!Blocked
  BY SameReach DEF Graph!Blocked
<1>4. CASE Graph!Ask
  <2>1. v8' = {} /\ v9' = <<>> /\ v5' = <<>> /\ v10' = "none"
    BY <1>4 DEF Graph!Ask, Graph!TypeOK, Graph!None
  <2> QED
    BY <1>1, <2>1
<1>5. CASE Graph!Impact
  <2>1. v3 = "impact" /\ v10 = "none" /\ v1' = v1 /\ v4' = v4 /\ Is
    BY <1>2, <1>5 DEF Graph!Impact, Graph!None
  <2>2. CASE v9 = <<>> /\ v5 = <<>> /\ v5' = <<v4>> /\ UNCHANGED <<v8, v9, v10>>
    BY <1>1, <1>3, <2>1, <2>2
  <2>3. CASE /\ v5 # <<>> /\ UNCHANGED v10
             /\ LET n == Head(v5)
                    more == {m \in Graph!Nodes \ (v8 \cup {v4}) : n \in v1[m]}
                IN  /\ v8' = v8 \cup more
                    /\ \E s \in [1..Cardinality(more) -> more] :
                         /\ {s[i] : i \in DOMAIN s} = more
                         /\ v5' = s \o Tail(v5)
                    /\ v9' = Append(v9, n)
    <3> DEFINE more == {m \in Graph!Nodes \ (v8 \cup {v4}) : Head(v5) \in v1[m]}
    <3>1. PICK s \in [1..Cardinality(more) -> more] :
            {s[i] : i \in DOMAIN s} = more /\ v5' = s \o Tail(v5)
      BY <2>3
    <3>2. s \in Seq(Graph!Nodes) /\ Members(s) = more
      <4>1. Cardinality(more) \in Nat
        BY NodesAreFinite
      <4>2. s \in [1..Cardinality(more) -> Graph!Nodes]
        OBVIOUS
      <4> QED
        BY <3>1, <4>1, <4>2, ListIs DEF Members
    <3>3. v5 # <<>> /\ v8' = v8 \cup more /\ v9' = Append(v9, Head(v5)) /\ UNCHANGED v10
      BY <2>3
    <3>4. v8' \subseteq Graph!Blocked /\ v9' \in Seq(Graph!Nodes) /\ v9' # <<>> /\ IsFollowed'
      BY <1>2, <2>1, <3>1, <3>2, <3>3, FollowedNext, JudgingIs
    <3> QED
      BY <1>1, <1>3, <2>1, <3>3, <3>4
  <2>4. CASE v9 # <<>> /\ v5 = <<>> /\ UNCHANGED <<v8, v9, v5>>
    <3>1. v8 = Graph!Blocked
      BY <2>1, <2>4, FollowedAll, JudgingIs
    <3>2. IsFollowed'
      BY <2>1, <2>4 DEF IsFollowed
    <3> QED
      BY <1>1, <1>3, <2>1, <2>4, <3>1, <3>2
  <2> QED
    BY <1>5, <2>2, <2>3, <2>4, NodesCardinality DEF Graph!Impact
<1>6. CASE UNCHANGED Graph!vars
  <2>1. UNCHANGED <<v1, v3, v4, v5, v8, v9, v10>>
    BY <1>6 DEF Graph!vars
  <2>2. IsFollowed' <=> IsFollowed
    BY <2>1 DEF IsFollowed
  <2> QED
    BY <1>1, <1>2, <1>3, <2>1, <2>2
<1> QED
  BY <1>4, <1>5, <1>6
     DEF Graph!Next, Graph!AskBatch, Graph!ReorderDeliverables, Graph!SelectReadyBatch,
         Graph!NextStart, Graph!LookAt, Graph!StartValidate, Graph!StartResolve,
         Graph!ResolveNext, Graph!Resolved, Graph!ValidateNext, Graph!Validated, Graph!Focus

\* What holds of each computation.
GraphParts ==
  /\ v3 = "query" => Graph!Search
  /\ v3 = "validate" => Graph!Counting
  /\ v3 = "resolve" => Graph!Resolving
  /\ v3 = "batch" => Graph!Ranked
  /\ v3 = "batch" /\ v10 # "none" => BatchIsRight
  /\ v3 = "focus" => Graph!Focusing
  /\ v3 = "impact" => Graph!Judging
GraphInv == part = "order" => Graph!TypeOK /\ GraphParts

\* The resolver's order has all of them, each after what it depends on.
LEMMA SortedIsRight ==
  ASSUME Graph!GraphAssumption, Graph!TypeOK, Graph!Resolving, v10 = "sorted"
  PROVE  LET at(n) == CHOOSE i \in DOMAIN v9 : v9[i] = n
         IN  /\ Len(v9) = DeliverableCount /\ {v9[i] : i \in DOMAIN v9} = Graph!Nodes
             /\ \A e \in Graph!Edges : e[2] \in Graph!Nodes => at(e[2]) < at(e[1])
<1> DEFINE at(n) == CHOOSE i \in DOMAIN v9 : v9[i] = n
<1>1. Len(v9) = DeliverableCount /\ IsSorted(v9, Graph!Needs)
  BY ResolvingIs DEF IsQueued
<1>2. Members(v9) = Graph!Nodes
  BY <1>1, SortedCounts
<1>3. DOMAIN v9 = 1..Len(v9) /\ Len(v9) \in Nat
  BY <1>1 DEF IsSorted
<1>4. ASSUME NEW n \in Graph!Nodes
      PROVE  at(n) \in DOMAIN v9 /\ v9[at(n)] = n /\ \A i \in DOMAIN v9 : v9[i] = n => at(n) = i
  <2>1. \E i \in DOMAIN v9 : v9[i] = n
    BY <1>2 DEF Members
  <2>2. at(n) \in DOMAIN v9 /\ v9[at(n)] = n
    BY <2>1
  <2> HIDE DEF at
  <2> QED
    BY <1>1, <2>2 DEF IsSorted
<1> HIDE DEF at
<1>5. ASSUME NEW e \in Graph!Edges, e[2] \in Graph!Nodes PROVE at(e[2]) < at(e[1])
  <2>1. e[1] \in Graph!Nodes /\ e[2] \in v1[e[1]]
    BY DEF Graph!Edges
  <2>2. e[2] \in Graph!Needs[v9[at(e[1])]]
    BY <1>4, <1>5, <2>1 DEF Graph!Needs
  <2>3. PICK j \in 1..(at(e[1]) - 1) : v9[j] = e[2]
    BY <1>1, <1>4, <2>1, <2>2 DEF IsSorted
  <2>4. at(e[1]) \in DOMAIN v9
    BY <1>4, <2>1
  <2>5. j \in DOMAIN v9 /\ j < at(e[1])
    BY <1>3, <2>3, <2>4
  <2>6. at(e[2]) = j
    BY <1>4, <1>5, <2>3, <2>5
  <2> QED
    BY <2>5, <2>6
<1> QED
  BY <1>1, <1>2, <1>5 DEF at, Members

LEMMA GraphInvInit ==
  ASSUME Graph!Init PROVE Graph!TypeOK /\ GraphParts
<1>1. v3 = "none"
  BY DEF Graph!Init, Graph!None
<1> QED
  BY <1>1, GraphTypeInit DEF GraphParts

LEMMA GraphInvStep ==
  ASSUME Graph!GraphAssumption, Graph!TypeOK, GraphParts, [Graph!Next]_(Graph!vars)
  PROVE  Graph!TypeOK' /\ GraphParts'
<1>1. Graph!TypeOK'
  BY GraphTypeStep
<1>2. v3' = "query" => Graph!Search'
  BY SearchStep DEF GraphParts
<1>3. v3' = "validate" => Graph!Counting'
  BY CountingStep DEF GraphParts
<1>4. v3' = "resolve" => Graph!Resolving'
  BY ResolvingStep DEF GraphParts
<1>5. v3' = "batch" => Graph!Ranked'
  BY RankedStep DEF GraphParts
<1>6. v3' = "batch" /\ v10' # "none" => BatchIsRight'
  BY BatchStep DEF GraphParts
<1>7. v3' = "focus" => Graph!Focusing'
  BY FocusingStep DEF GraphParts
<1>8. v3' = "impact" => Graph!Judging'
  BY JudgingStep DEF GraphParts
<1> QED
  BY <1>1, <1>2, <1>3, <1>4, <1>5, <1>6, <1>7, <1>8 DEF GraphParts

\* For any number of deliverables, any dependencies and any order the code
\* visits them in, both cycle checks, the resolver, the batch selection, focus
\* and the failure impact answer what a search of the whole graph would.
THEOREM AnswersAreRightHolds == Spec => []AnswersAreRight
<1>0. Graph!GraphAssumption
  BY ServicesAssumption
<1>1. Init => GraphInv
  BY GraphInvInit DEF Init, GraphInv
<1>2. GraphInv /\ [Next]_vars => GraphInv'
  BY <1>0, StepOfPart, GraphInvStep DEF GraphInv
<1>3. GraphInv => AnswersAreRight
  <2> SUFFICES ASSUME Graph!TypeOK, GraphParts PROVE Graph!AnswersAreRight
    BY DEF GraphInv, AnswersAreRight
  <2>1. v10 # "none" /\ v3 \in {"query", "validate"} => (v10 = "cyclic" <=> Graph!Cyclic)
    BY DEF GraphParts, Graph!Search, Graph!Counting, Graph!None
  <2>2. v3 = "resolve" /\ v10 = "sorted" =>
          LET at(n) == CHOOSE i \in DOMAIN v9 : v9[i] = n
          IN  /\ Len(v9) = DeliverableCount /\ {v9[i] : i \in DOMAIN v9} = Graph!Nodes
              /\ \A e \in Graph!Edges : e[2] \in Graph!Nodes => at(e[2]) < at(e[1])
    BY <1>0, SortedIsRight DEF GraphParts
  <2>3. v3 = "resolve" /\ v10 \in {"unsorted", "asked"} => Graph!Cyclic \/ Doubled
    BY ResolvingIs DEF GraphParts
  <2>4. v3 = "batch" /\ v10 # "none" => BatchIsRight
    BY DEF GraphParts
  <2>5. v3 = "focus" /\ v10 # "none" => v8 = Graph!Around
    BY DEF GraphParts, Graph!Focusing, Graph!None
  <2>6. v3 = "impact" /\ v10 # "none" => v8 = Graph!Blocked
    BY JudgingIs DEF GraphParts
  <2> QED
    BY <2>1, <2>2, <2>3, <2>4, <2>5, <2>6
       DEF Graph!AnswersAreRight, Graph!None, BatchIsRight, Doubled, Graph!Around, Graph!Blocked
<1> QED
  BY <1>1, <1>2, <1>3, PTL DEF Spec

-----------------------------------------------------------------------------
(***************************************************************************)
(* SkillCatalog: what an agent is given.  What was loaded is v8.  The      *)
(* matching skills are ranked, which is possible for any finite set of     *)
(* them, and the cascade ends: each round visits a name of those that the  *)
(* finitely many skills of the index refer to.                             *)
(***************************************************************************)
LEMMA OneTo == \A n \in Nat : IsFiniteSet(1..n) /\ Cardinality(1..n) = n
<1> TAKE n \in Nat
<1>1. 1 \in Int /\ n \in Int /\ (1 > n => n = 0)
  OBVIOUS
<1>2. IsFiniteSet(1..n) /\ Cardinality(1..n) = IF 1 > n THEN 0 ELSE n - 1 + 1
  BY <1>1, FS_Interval
<1> QED
  BY <1>1, <1>2

\* Each member of S once, those of higher priority first.
IsRanking(s, S) ==
  /\ s \in Seq(S)
  /\ \A i, j \in DOMAIN s : i # j => s[i] # s[j]
  /\ \A x \in S : \E i \in DOMAIN s : s[i] = x
  /\ \A j, k \in DOMAIN s : j < k => s[j].priority >= s[k].priority

LEMMA RankingExists ==
  ASSUME NEW S, IsFiniteSet(S), \A x \in S : x.priority \in Nat
  PROVE  \E s : IsRanking(s, S)
<1> DEFINE N == Cardinality(S)
           T == {n \in 0..N : \A U \in SUBSET S : Cardinality(U) = n => \E s : IsRanking(s, U)}
<1>1. N \in Nat
  BY FS_CardinalityType
<1>2. \A U \in SUBSET S : IsFiniteSet(U) /\ Cardinality(U) \in Nat
  BY FS_Subset, FS_CardinalityType
<1>3. 0 \in T
  <2>1. ASSUME NEW U \in SUBSET S, Cardinality(U) = 0 PROVE \E s : IsRanking(s, U)
    <3>1. U = {}
      BY <1>2, <2>1, FS_EmptySet
    <3>2. IsRanking(<<>>, U)
      BY <3>1 DEF IsRanking
    <3> QED
      BY <3>2
  <2>2. 0 \in 0..N
    BY <1>1
  <2> QED
    BY <2>1, <2>2
<1>4. ASSUME NEW n \in 0..(N - 1), n \in T PROVE n + 1 \in T
  <2>1. n \in Nat /\ n + 1 \in 0..N
    BY <1>1
  <2>2. ASSUME NEW U \in SUBSET S, Cardinality(U) = n + 1 PROVE \E s : IsRanking(s, U)
    <3> DEFINE P == {x.priority : x \in U}
    <3>1. U # {}
      BY <2>1, <2>2, FS_EmptySet
    <3>2. P \in SUBSET Nat /\ P # {}
      BY <3>1
    <3>3. PICK p \in P : \A q \in P : p <= q
      <4> HIDE DEF P
      <4> QED
        BY <3>2, Least
    <3>4. PICK m \in U : m.priority = p
      OBVIOUS
    <3>5. \A x \in U : m.priority <= x.priority /\ x.priority \in Nat
      BY <3>3, <3>4
    <3> HIDE DEF P
    <3>6. Cardinality(U \ {m}) = n
      BY <1>2, <2>1, <2>2, FS_RemoveElement
    <3>7. PICK s : IsRanking(s, U \ {m})
      BY <1>4, <3>6
    <3> DEFINE t == Append(s, m)
               k == Len(s) + 1
    <3>8. s \in Seq(U) /\ s \in Seq(U \ {m}) /\ DOMAIN s = 1..Len(s) /\ Len(s) \in Nat
      <4>1. s \in Seq(U \ {m})
        BY <3>7 DEF IsRanking
      <4> QED
        BY <4>1
    <3>9. t \in Seq(U) /\ Len(t) = k /\ t[k] = m /\ DOMAIN t = 1..k
      BY <3>8, AppendProperties
    <3>10. \A i \in DOMAIN s : t[i] = s[i] /\ s[i] \in U /\ s[i] # m
      BY <3>8, AppendProperties
    <3>11. /\ k \in DOMAIN t /\ k \in Nat
           /\ \A i \in DOMAIN s : i \in DOMAIN t /\ i < k
           /\ \A i \in DOMAIN t : i # k => i \in DOMAIN s
           /\ \A i \in DOMAIN t : i <= k
      BY <3>8, <3>9
    <3> HIDE DEF t, k
    <3>12. \A i, j \in DOMAIN t : i # j => t[i] # t[j]
      BY <3>7, <3>9, <3>10, <3>11 DEF IsRanking
    <3>13. \A x \in U : \E i \in DOMAIN t : t[i] = x
      BY <3>7, <3>9, <3>10, <3>11 DEF IsRanking
    <3>14. ASSUME NEW i \in DOMAIN t, NEW j \in DOMAIN t, i < j
           PROVE  t[i].priority >= t[j].priority
      <4>1. i # k
        BY <3>9, <3>11, <3>14
      <4>2. i \in DOMAIN s /\ t[i] = s[i]
        BY <3>10, <3>11, <4>1
      <4>3. CASE j = k
        <5>1. t[j] = m /\ t[i] \in U /\ m \in U
          BY <3>9, <3>10, <4>2, <4>3
        <5>2. m.priority <= t[i].priority /\ t[i].priority \in Nat /\ m.priority \in Nat
          BY <3>5, <5>1
        <5> QED
          BY <5>1, <5>2
      <4>4. CASE j # k
        BY <3>7, <3>10, <3>11, <3>14, <4>2, <4>4 DEF IsRanking
      <4> QED
        BY <4>3, <4>4
    <3>15. IsRanking(t, U)
      BY <3>9, <3>12, <3>13, <3>14 DEF IsRanking
    <3> QED
      BY <3>15
  <2> QED
    BY <2>1, <2>2
<1> HIDE DEF T
<1>5. N \in T
  <2>1. \A n \in 0..(N - 1) : n \in T => n + 1 \in T
    BY <1>4
  <2> HIDE DEF N
  <2>2. \A n \in 0..N : n \in T
    BY <1>1, <1>3, <2>1, Induction
  <2> QED
    BY <1>1, <2>2
<1> QED
  BY <1>5 DEF T

LEMMA SkillCardinality == \A S : Skill!Cardinality(S) = Cardinality(S)
BY DEF Skill!Cardinality, Cardinality

\* The entries of an index, and what matches is ranked.
Entries(ix) == {i.entry : i \in ix}

LEMMA MatchedIs ==
  ASSUME Skill!CatalogAssumption, NEW ix \in Skill!Indexes, IsFiniteSet(ix), NEW c
  PROVE  IsRanking(Skill!Matched(ix, c), {e \in Entries(ix) : Skill!Matches(e, c)})
<1> DEFINE H == {i.entry : i \in {j \in ix : Skill!Matches(j.entry, c)}}
           D == 1..Cardinality(H)
           Sorts(s) == \A j, k \in DOMAIN s : j < k => s[j].priority >= s[k].priority
<1>1. H = {e \in Entries(ix) : Skill!Matches(e, c)}
  BY DEF Entries
<1>2. \A x \in H : x.priority \in Nat
  BY DEF Skill!CatalogAssumption, Skill!Indexes
<1>3. IsFiniteSet(H)
  <2> DEFINE J == {j \in ix : Skill!Matches(j.entry, c)}
             f == [i \in J |-> i.entry]
  <2>1. IsFiniteSet(J)
    BY FS_Subset
  <2>2. f \in Surjection(J, H)
    BY DEF Surjection
  <2> HIDE DEF f, J, H
  <2> QED
    BY <2>1, <2>2, FS_Surjection
<1>4. Skill!SetToSeqs(H) = {f \in [D -> H] : \A i, j \in D : i # j => f[i] # f[j]}
  BY SkillCardinality DEF Skill!SetToSeqs
<1>5. Skill!Matched(ix, c) = CHOOSE s \in Skill!SetToSeqs(H) : Sorts(s)
  BY DEF Skill!Matched
<1> HIDE DEF H
<1>6. Cardinality(H) \in Nat
  BY <1>3, FS_CardinalityType
<1>7. \E s \in Skill!SetToSeqs(H) : Sorts(s)
  <2>1. PICK s : IsRanking(s, H)
    BY <1>2, <1>3, RankingExists
  <2>2. s \in [1..Len(s) -> H] /\ Len(s) \in Nat
    BY <2>1 DEF IsRanking
  <2>3. s \in Bijection(1..Len(s), H)
    <3>1. DOMAIN s = 1..Len(s)
      BY <2>2
    <3>2. s \in Injection(1..Len(s), H)
      BY <2>1, <2>2, <3>1 DEF IsRanking, Injection, IsInjective
    <3>3. s \in Surjection(1..Len(s), H)
      BY <2>1, <2>2, <3>1 DEF IsRanking, Surjection
    <3> QED
      BY <3>2, <3>3 DEF Bijection
  <2>4. IsFiniteSet(1..Len(s)) /\ Cardinality(1..Len(s)) = Len(s)
    BY <2>2, OneTo
  <2>5. Cardinality(H) = Len(s)
    BY <2>3, <2>4, FS_Bijection DEF ExistsBijection
  <2> QED
    BY <1>4, <2>1, <2>2, <2>5 DEF IsRanking
<1> DEFINE s == Skill!Matched(ix, c)
<1>8. s \in Skill!SetToSeqs(H) /\ Sorts(s)
  BY <1>5, <1>7
<1> HIDE DEF s, Sorts
<1>9. s \in [D -> H] /\ \A i, j \in D : i # j => s[i] # s[j]
  BY <1>4, <1>8
<1>10. s \in Seq(H) /\ DOMAIN s = D
  <2> DEFINE n == Cardinality(H)
  <2>1. n \in Nat /\ s \in [1..n -> H]
    BY <1>6, <1>9
  <2> HIDE DEF n
  <2>2. s \in Seq(H) /\ DOMAIN s = 1..n
    BY <2>1, ListIs
  <2> QED
    BY <2>2 DEF n
<1>11. s \in Injection(D, H)
  BY <1>9 DEF Injection, IsInjective
<1>12. IsFiniteSet(D) /\ Cardinality(D) = Cardinality(H)
  BY <1>6, OneTo
<1>13. s \in Surjection(D, H)
  BY <1>3, <1>11, <1>12, FS_Injection
<1>14. \A x \in H : \E i \in DOMAIN s : s[i] = x
  BY <1>10, <1>13 DEF Surjection
<1>15. IsRanking(s, H)
  BY <1>8, <1>9, <1>10, <1>14 DEF IsRanking, Sorts
<1> QED
  BY <1>1, <1>15 DEF s
\* The members of a flattened sequence are those of its parts.
LEMMA FlattenIs ==
  ASSUME NEW V, NEW n \in Nat, NEW q \in [1..n -> Seq(V)]
  PROVE  /\ Skill!FlattenSeq(q) \in Seq(V)
         /\ \A x : x \in Members(Skill!FlattenSeq(q)) <=> \E i \in 1..n : x \in Members(q[i])
<1> DEFINE Body(u) == [i \in 1..n |-> IF i = 1 THEN q[i] ELSE u[i - 1] \o q[i]]
           U == CHOOSE u : u = Body(u)
           Is(k, a) == /\ a \in Seq(V)
                       /\ \A x : x \in Members(a) <=> \E i \in 1..k : x \in Members(q[i])
<1>1. Len(q) = n /\ q \in Seq(Seq(V))
  BY ListIs
<1>2. Skill!FlattenSeq(q) = IF n = 0 THEN q ELSE U[n]
  BY <1>1 DEF Skill!FlattenSeq
<1>3. CASE n = 0
  <2>1. q = <<>>
    BY <1>3
  <2>2. Is(0, <<>>)
    BY DEF Members
  <2> QED
    BY <1>2, <1>3, <2>1, <2>2
<1>4. CASE n # 0
  <2> DEFINE step == [f \in 1..n |-> [w \in Seq(V) |-> w \o q[f]]]
  <2>1. step \in [1..n -> [Seq(V) -> Seq(V)]] /\ <<>> \in Seq(V)
    OBVIOUS
  <2> HIDE DEF step
  <2>2. PICK g : IsRecursion(g, n, Seq(V), <<>>, step)
    BY <2>1, Recursion
  <2>3. g \in [0..n -> Seq(V)] /\ g[0] = <<>> /\ \A f \in 1..n : g[f] = step[f][g[f - 1]]
    BY <2>2 DEF IsRecursion
  <2>4. ASSUME NEW f \in 1..n PROVE g[f] = g[f - 1] \o q[f]
    <3>1. f - 1 \in 0..n
      OBVIOUS
    <3>2. g[f - 1] \in Seq(V)
      BY <2>3, <3>1
    <3>3. \A w \in Seq(V) : step[f][w] = w \o q[f]
      BY DEF step
    <3> QED
      BY <2>3, <3>2, <3>3
  <2>5. g[1] = q[1]
    <3>1. 1 \in 1..n /\ 1 - 1 = 0
      BY <1>4
    <3>2. g[1] = <<>> \o q[1] /\ q[1] \in Seq(V)
      BY <2>3, <2>4, <3>1
    <3> QED
      BY <3>2, ConcatEmptySeq
  <2> DEFINE h == [i \in 1..n |-> g[i]]
  <2>6. ASSUME NEW i \in 1..n PROVE g[i] = IF i = 1 THEN q[i] ELSE h[i - 1] \o q[i]
    <3>1. i # 1 => i - 1 \in 1..n
      OBVIOUS
    <3> QED
      BY <2>4, <2>5, <3>1
  <2>7. h = Body(h)
    BY <2>6
  <2>8. U = Body(U)
    <3> HIDE DEF Body, h
    <3> QED
      BY <2>7
  <2>9. \A i \in 1..n : U[i] = IF i = 1 THEN q[i] ELSE U[i - 1] \o q[i]
    <3> HIDE DEF U
    <3> QED
      BY <2>8
  <2> HIDE DEF U, Body, h
  <2> DEFINE T == {k \in 0..(n - 1) : Is(k + 1, U[k + 1])}
  <2>10. n - 1 \in Nat
    BY <1>4
  <2>11. 0 \in T
    <3>1. U[1] = q[1] /\ q[1] \in Seq(V) /\ 0 \in 0..(n - 1)
      BY <1>4, <2>9
    <3>2. \A i \in 1..1 : i = 1
      OBVIOUS
    <3>3. Is(1, U[1])
      BY <3>1, <3>2
    <3> QED
      BY <3>1, <3>3
  <2>12. ASSUME NEW k \in 0..(n - 1 - 1), k \in T PROVE k + 1 \in T
    <3>1. k + 2 \in 1..n /\ k + 1 \in 0..(n - 1) /\ (k + 2) - 1 = k + 1 /\ k + 1 + 1 = k + 2 /\ k + 2 # 1
      BY <2>10
    <3>2. U[k + 2] = U[k + 1] \o q[k + 2]
      BY <2>9, <3>1
    <3>3. Is(k + 1, U[k + 1]) /\ q[k + 2] \in Seq(V)
      BY <2>12, <3>1
    <3>4. Members(U[k + 2]) = Members(U[k + 1]) \cup Members(q[k + 2]) /\ U[k + 2] \in Seq(V)
      BY <3>2, <3>3, MembersOf
    <3>5. \A i \in 1..(k + 2) : i = k + 2 \/ i \in 1..(k + 1)
      BY <3>1
    <3>6. 1..(k + 1) \subseteq 1..(k + 2) /\ k + 2 \in 1..(k + 2)
      BY <3>1
    <3>7. Is(k + 2, U[k + 2])
      BY <3>3, <3>4, <3>5, <3>6
    <3> HIDE DEF Is
    <3> QED
      BY <3>1, <3>7
  <2> HIDE DEF T
  <2>13. n - 1 \in T
    <3>1. \A k \in 0..(n - 1 - 1) : k \in T => k + 1 \in T
      BY <2>12
    <3> DEFINE m == n - 1
    <3>2. \A k \in 0..(m - 1) : k \in T => k + 1 \in T
      BY <3>1
    <3>3. m \in Nat
      BY <2>10
    <3> HIDE DEF m
    <3>4. \A k \in 0..m : k \in T
      BY <2>11, <3>2, <3>3, Induction
    <3> QED
      BY <3>3, <3>4 DEF m
  <2>14. Is(n, U[n])
    <3>1. n - 1 + 1 = n
      OBVIOUS
    <3> HIDE DEF Is
    <3> QED
      BY <2>13, <3>1 DEF T
  <2> QED
    BY <1>2, <1>4, <2>14
<1> QED
  BY <1>3, <1>4

\* What comes after a place of a sequence.
LEMMA RestIs ==
  ASSUME NEW S, NEW s \in Seq(S), NEW k \in DOMAIN s
  PROVE  /\ SubSeq(s, k + 1, Len(s)) \in Seq(S)
         /\ Members(SubSeq(s, k + 1, Len(s))) = {s[i] : i \in {j \in DOMAIN s : j > k}}
<1> DEFINE r == SubSeq(s, k + 1, Len(s))
<1>1. DOMAIN s = 1..Len(s) /\ Len(s) \in Nat /\ k \in 1..Len(s)
  OBVIOUS
<1>2. \A i \in (k + 1)..Len(s) : s[i] \in S
  BY <1>1
<1>3. /\ r \in Seq(S) /\ Len(r) = IF k + 1 <= Len(s) THEN Len(s) - (k + 1) + 1 ELSE 0
      /\ \A i \in 1..(Len(s) - (k + 1) + 1) : r[i] = s[(k + 1) + i - 1]
  <2>1. k + 1 \in Int /\ Len(s) \in Int
    BY <1>1
  <2> QED
    BY <1>2, <2>1, SubSeqProperties
<1> HIDE DEF r
<1>4. Len(r) = Len(s) - k /\ DOMAIN r = 1..(Len(s) - k) /\ \A i \in 1..(Len(s) - k) : r[i] = s[k + i]
  <2>1. Len(r) = Len(s) - k /\ Len(s) - (k + 1) + 1 = Len(s) - k
    BY <1>1, <1>3
  <2>2. \A i \in 1..(Len(s) - k) : (k + 1) + i - 1 = k + i
    BY <1>1
  <2>3. DOMAIN r = 1..Len(r)
    BY <1>3
  <2> QED
    BY <1>3, <2>1, <2>2, <2>3
<1>5. ASSUME NEW i \in DOMAIN s, i > k PROVE \E j \in DOMAIN r : r[j] = s[i]
  <2>1. i - k \in 1..(Len(s) - k) /\ k + (i - k) = i
    BY <1>1, <1>5
  <2> QED
    BY <1>4, <2>1
<1>6. ASSUME NEW j \in DOMAIN r PROVE k + j \in DOMAIN s /\ k + j > k /\ r[j] = s[k + j]
  BY <1>1, <1>4
<1>7. Members(r) = {s[i] : i \in {j \in DOMAIN s : j > k}}
  BY <1>5, <1>6 DEF Members
<1> QED
  BY <1>3, <1>7 DEF r
LEMMA SkillToSet == \A s : Skill!ToSet(s) = Members(s)
BY DEF Skill!ToSet, Members

\* The worklists of an index, and what is invariant of the one of some entries:
\* what has been visited is in the result if it is in the index, and what the
\* result refers to has been visited or waits.
Worklists(ix) == [result: Seq(Entries(ix)), visited: SUBSET SkillNames,
                  todo: Seq(Skill!Referenced(ix))]
IsCascaded(ix, entries, w) ==
  /\ \A i, j \in DOMAIN w.result : i # j => w.result[i] # w.result[j]
  /\ \A e \in Entries(ix) : e.name \in w.visited <=> \E i \in DOMAIN w.result : w.result[i] = e
  /\ \A i \in DOMAIN w.result : \A n \in Members(w.result[i].cascades) :
       n \in w.visited \/ n \in Members(w.todo)
  /\ \A n \in Members(w.todo) : \E i \in DOMAIN w.result : n \in Members(w.result[i].cascades)
  /\ Len(entries) <= Len(w.result) /\ \A i \in DOMAIN entries : w.result[i] = entries[i]
  /\ \A i \in DOMAIN w.result : i > Len(entries) =>
       \E j \in 1..(i - 1) : w.result[i].name \in Members(w.result[j].cascades)
\* An index has one entry for a name.
IsUnique(ix) == \A i, j \in ix : i.entry.name = j.entry.name => i = j

LEMMA EntriesAre ==
  ASSUME Skill!CatalogAssumption, NEW ix \in Skill!Indexes
  PROVE  /\ Skill!Referenced(ix) \subseteq SkillNames
         /\ \A e \in Entries(ix) : /\ e \in SkillFiles /\ e.name \in SkillNames
                                   /\ e.cascades \in Seq(Skill!Referenced(ix))
                                   /\ Members(e.cascades) \subseteq Skill!Referenced(ix)
         /\ \A n \in Skill!Referenced(ix) : \E e \in Entries(ix) : n \in Members(e.cascades)
<1>1. Skill!Referenced(ix) = UNION {Members(i.entry.cascades) : i \in ix}
  BY SkillToSet DEF Skill!Referenced
<1>2. \A i \in ix : i.entry \in SkillFiles
  BY DEF Skill!Indexes
<1>3. \A e \in Entries(ix) : e \in SkillFiles /\ e.name \in SkillNames /\ e.cascades \in Seq(SkillNames)
  BY <1>2 DEF Skill!CatalogAssumption, Entries
<1>4. \A e \in Entries(ix) : Members(e.cascades) \subseteq Skill!Referenced(ix)
  BY <1>1 DEF Entries
<1>5. ASSUME NEW e \in Entries(ix)
      PROVE  e.cascades \in Seq(Skill!Referenced(ix)) /\ Members(e.cascades) \subseteq SkillNames
  <2> DEFINE s == e.cascades
             R == Skill!Referenced(ix)
  <2>1. s \in Seq(SkillNames)
    BY <1>3
  <2>2. s \in [1..Len(s) -> SkillNames] /\ DOMAIN s = 1..Len(s) /\ Len(s) \in Nat
    BY <2>1
  <2>3. \A i \in 1..Len(s) : s[i] \in R
    BY <1>4, <2>2 DEF Members
  <2> HIDE DEF s, R
  <2>4. s \in [1..Len(s) -> R]
    BY <2>2, <2>3
  <2>5. s \in Seq(R)
    BY <2>2, <2>4, ListIs
  <2>6. Members(s) \subseteq SkillNames
    BY <2>2 DEF Members
  <2> QED
    BY <2>5, <2>6 DEF s, R
<1>6. \A n \in Skill!Referenced(ix) : \E e \in Entries(ix) : n \in Members(e.cascades)
  BY <1>1 DEF Entries
<1> QED
  BY <1>3, <1>4, <1>5, <1>6

\* The names that the skills of an index refer to are finitely many.
LEMMA ReferencedAreFinite ==
  ASSUME Skill!CatalogAssumption, NEW ix \in Skill!Indexes, IsFiniteSet(ix)
  PROVE  IsFiniteSet(Skill!Referenced(ix))
<1> DEFINE L == {Members(i.entry.cascades) : i \in ix}
           f == [i \in ix |-> Members(i.entry.cascades)]
<1>1. Skill!Referenced(ix) = UNION L
  BY SkillToSet DEF Skill!Referenced
<1>2. ASSUME NEW i \in ix PROVE IsFiniteSet(Members(i.entry.cascades))
  <2> DEFINE s == i.entry.cascades
             g == [k \in 1..Len(s) |-> s[k]]
  <2>1. s \in Seq(SkillNames)
    BY EntriesAre DEF Skill!Indexes, Skill!CatalogAssumption
  <2>2. Len(s) \in Nat /\ DOMAIN s = 1..Len(s)
    BY <2>1
  <2>3. g \in Surjection(1..Len(s), Members(s))
    BY <2>2 DEF Surjection, Members
  <2> HIDE DEF s, g
  <2>4. IsFiniteSet(Members(s))
    BY <2>2, <2>3, OneTo, FS_Surjection
  <2> QED
    BY <2>4 DEF s
<1>3. IsFiniteSet(L)
  <2>1. f \in Surjection(ix, L)
    BY DEF Surjection
  <2> HIDE DEF f, L
  <2> QED
    BY <2>1, FS_Surjection
<1>4. \A S \in L : IsFiniteSet(S)
  BY <1>2
<1> HIDE DEF L
<1> QED
  BY <1>1, <1>3, <1>4, FS_UNION

\* A round visits the first name that has not been visited.
LEMMA VisitDoes ==
  ASSUME Skill!CatalogAssumption, NEW ix \in Skill!Indexes, NEW w \in Worklists(ix),
         Skill!Unvisited(w) # {}
  PROVE  \E k \in Skill!Unvisited(w) :
           LET rest == SubSeq(w.todo, k + 1, Len(w.todo))
               seen == w.visited \cup {w.todo[k]}
           IN  /\ \A i \in Skill!Unvisited(w) : k <= i
               /\ \/ /\ \A e \in Entries(ix) : e.name # w.todo[k]
                     /\ Skill!Visit(ix, w) = [result |-> w.result, visited |-> seen, todo |-> rest]
                  \/ \E e \in Entries(ix) :
                       /\ e.name = w.todo[k]
                       /\ Skill!Visit(ix, w) = [result |-> Append(w.result, e), visited |-> seen,
                                                todo |-> rest \o e.cascades]
<1> DEFINE k == CHOOSE i \in Skill!Unvisited(w) : \A j \in Skill!Unvisited(w) : i <= j
           name == w.todo[k]
           rest == SubSeq(w.todo, k + 1, Len(w.todo))
           seen == w.visited \cup {name}
           found == {i.entry : i \in {j \in ix : j.entry.name = name}}
           e == CHOOSE e \in found : TRUE
<1>1. Skill!Visit(ix, w) = IF found = {} THEN [result |-> w.result, visited |-> seen, todo |-> rest]
                           ELSE [result |-> Append(w.result, e), visited |-> seen,
                                 todo |-> rest \o e.cascades]
  BY DEF Skill!Visit
<1>2. w.todo \in Seq(Skill!Referenced(ix))
  BY DEF Worklists
<1>3. Skill!Unvisited(w) \in SUBSET Nat
  BY <1>2 DEF Skill!Unvisited
<1>4. k \in Skill!Unvisited(w) /\ \A i \in Skill!Unvisited(w) : k <= i
  <2>1. \E i \in Skill!Unvisited(w) : \A j \in Skill!Unvisited(w) : i <= j
    BY <1>3, Least
  <2> QED
    BY <2>1
<1>5. found = {x \in Entries(ix) : x.name = name}
  BY DEF Entries
<1>6. found # {} => e \in found
  OBVIOUS
<1> HIDE DEF k, found, e
<1>7. CASE found = {}
  BY <1>1, <1>4, <1>5, <1>7
<1>8. CASE found # {}
  <2>1. e \in Entries(ix) /\ e.name = w.todo[k]
    BY <1>5, <1>6, <1>8
  <2> QED
    BY <1>1, <1>4, <1>8, <2>1
<1> QED
  BY <1>7, <1>8
\* What waited has been visited or still waits.
LEMMA VisitKeeps ==
  ASSUME NEW ix, NEW w \in Worklists(ix), NEW k \in Skill!Unvisited(w),
         \A i \in Skill!Unvisited(w) : k <= i
  PROVE  LET rest == SubSeq(w.todo, k + 1, Len(w.todo))
         IN  /\ rest \in Seq(Skill!Referenced(ix))
             /\ Members(rest) \subseteq Members(w.todo)
             /\ w.todo[k] \in Members(w.todo) /\ w.todo[k] \notin w.visited
             /\ w.todo[k] \in Skill!Referenced(ix)
             /\ \A n \in Members(w.todo) :
                  n \in w.visited \cup {w.todo[k]} \/ n \in Members(rest)
<1> DEFINE s == w.todo
           rest == SubSeq(s, k + 1, Len(s))
<1>1. s \in Seq(Skill!Referenced(ix)) /\ k \in DOMAIN s /\ s[k] \notin w.visited
  BY DEF Worklists, Skill!Unvisited
<1>2. \A i \in DOMAIN s : s[i] \in w.visited \/ k <= i
  BY DEF Skill!Unvisited
<1>3. DOMAIN s = 1..Len(s) /\ Len(s) \in Nat
  BY <1>1
<1> HIDE DEF s
<1>4. rest \in Seq(Skill!Referenced(ix)) /\ Members(rest) = {s[i] : i \in {j \in DOMAIN s : j > k}}
  BY <1>1, RestIs
<1> HIDE DEF rest
<1>5. \A i \in DOMAIN s : s[i] \in w.visited \/ i = k \/ i > k
  BY <1>1, <1>2, <1>3
<1>6. \A n \in Members(s) : n \in w.visited \cup {s[k]} \/ n \in Members(rest)
  BY <1>4, <1>5 DEF Members
<1>7. Members(rest) \subseteq Members(s) /\ s[k] \in Members(s)
  BY <1>1, <1>4 DEF Members
<1>8. s[k] \in Skill!Referenced(ix)
  BY <1>1
<1> QED
  BY <1>1, <1>4, <1>6, <1>7, <1>8 DEF s, rest

LEMMA VisitType ==
  ASSUME Skill!CatalogAssumption, NEW ix \in Skill!Indexes, NEW w \in Worklists(ix),
         Skill!Unvisited(w) # {}
  PROVE  /\ Skill!Visit(ix, w) \in Worklists(ix)
         /\ \E n \in Skill!Referenced(ix) \ w.visited : Skill!Visit(ix, w).visited = w.visited \cup {n}
<1> DEFINE v == Skill!Visit(ix, w)
           R == Skill!Referenced(ix)
<1>1. PICK k \in Skill!Unvisited(w) :
           LET rest == SubSeq(w.todo, k + 1, Len(w.todo))
               seen == w.visited \cup {w.todo[k]}
           IN  /\ \A i \in Skill!Unvisited(w) : k <= i
               /\ \/ /\ \A e \in Entries(ix) : e.name # w.todo[k]
                     /\ v = [result |-> w.result, visited |-> seen, todo |-> rest]
                  \/ \E e \in Entries(ix) :
                       /\ e.name = w.todo[k]
                       /\ v = [result |-> Append(w.result, e), visited |-> seen,
                               todo |-> rest \o e.cascades]
  BY VisitDoes
<1> HIDE DEF v
<1> DEFINE rest == SubSeq(w.todo, k + 1, Len(w.todo))
           seen == w.visited \cup {w.todo[k]}
<1>2. rest \in Seq(R) /\ w.todo[k] \in R /\ w.todo[k] \notin w.visited
  BY <1>1, VisitKeeps
<1> HIDE DEF rest
<1>3. w.result \in Seq(Entries(ix)) /\ seen \in SUBSET SkillNames
  <2>1. R \subseteq SkillNames
    BY EntriesAre
  <2> QED
    BY <1>2, <2>1 DEF Worklists
<1> HIDE DEF seen
<1>4. CASE v = [result |-> w.result, visited |-> seen, todo |-> rest]
  <2>1. v \in Worklists(ix) /\ v.visited = seen
    BY <1>2, <1>3, <1>4 DEF Worklists
  <2> QED
    BY <1>2, <2>1 DEF v, seen
<1>5. ASSUME NEW e \in Entries(ix),
             v = [result |-> Append(w.result, e), visited |-> seen, todo |-> rest \o e.cascades]
      PROVE  /\ v \in Worklists(ix)
             /\ \E n \in R \ w.visited : v.visited = w.visited \cup {n}
  <2>1. e.cascades \in Seq(R)
    BY EntriesAre
  <2>2. Append(w.result, e) \in Seq(Entries(ix)) /\ rest \o e.cascades \in Seq(R)
    BY <1>2, <1>3, <2>1, AppendProperties, ConcatProperties
  <2>3. v \in Worklists(ix) /\ v.visited = seen
    BY <1>3, <1>5, <2>2 DEF Worklists
  <2> QED
    BY <1>2, <2>3 DEF seen
<1> QED
  BY <1>1, <1>4, <1>5 DEF v, rest, seen

LEMMA VisitReaches ==
  ASSUME Skill!CatalogAssumption, NEW ix \in Skill!Indexes, IsUnique(ix),
         NEW entries \in Seq(Entries(ix)),
         NEW w \in Worklists(ix), IsCascaded(ix, entries, w), Skill!Unvisited(w) # {}
  PROVE  IsCascaded(ix, entries, Skill!Visit(ix, w))
<1> DEFINE v == Skill!Visit(ix, w)
           R == Skill!Referenced(ix)
<1>1. PICK k \in Skill!Unvisited(w) :
           LET rest == SubSeq(w.todo, k + 1, Len(w.todo))
               seen == w.visited \cup {w.todo[k]}
           IN  /\ \A i \in Skill!Unvisited(w) : k <= i
               /\ \/ /\ \A e \in Entries(ix) : e.name # w.todo[k]
                     /\ v = [result |-> w.result, visited |-> seen, todo |-> rest]
                  \/ \E e \in Entries(ix) :
                       /\ e.name = w.todo[k]
                       /\ v = [result |-> Append(w.result, e), visited |-> seen,
                               todo |-> rest \o e.cascades]
  BY VisitDoes
<1> HIDE DEF v
<1> DEFINE rest == SubSeq(w.todo, k + 1, Len(w.todo))
           name == w.todo[k]
           seen == w.visited \cup {name}
           s == w.result
<1>2. /\ rest \in Seq(R) /\ name \notin w.visited /\ name \in Members(w.todo)
      /\ Members(rest) \subseteq Members(w.todo)
      /\ \A n \in Members(w.todo) : n \in seen \/ n \in Members(rest)
  BY <1>1, VisitKeeps
<1>3. /\ s \in Seq(Entries(ix)) /\ DOMAIN s = 1..Len(s) /\ Len(s) \in Nat
      /\ Len(entries) \in Nat /\ DOMAIN entries = 1..Len(entries)
  BY DEF Worklists
<1>4. CASE (\A e \in Entries(ix) : e.name # name)
           /\ v = [result |-> s, visited |-> seen, todo |-> rest]
  <2> HIDE DEF rest, name
  <2>1. v.result = s /\ v.visited = seen /\ v.todo = rest
    BY <1>4
  <2>2. \A e \in Entries(ix) : e.name \in seen <=> \E i \in DOMAIN s : s[i] = e
    BY <1>4 DEF IsCascaded
  <2>3. \A i \in DOMAIN s : \A n \in Members(s[i].cascades) : n \in seen \/ n \in Members(rest)
    BY <1>2 DEF IsCascaded
  <2>4. \A n \in Members(rest) : \E i \in DOMAIN s : n \in Members(s[i].cascades)
    BY <1>2 DEF IsCascaded
  <2> QED
    BY <2>1, <2>2, <2>3, <2>4 DEF IsCascaded, v
<1>5. ASSUME NEW e \in Entries(ix), e.name = name,
             v = [result |-> Append(s, e), visited |-> seen, todo |-> rest \o e.cascades]
      PROVE  IsCascaded(ix, entries, v)
  <2> HIDE DEF rest, name
  <2> DEFINE t == Append(s, e)
             l == Len(s) + 1
             q == rest \o e.cascades
  <2>1. v.result = t /\ v.visited = seen /\ v.todo = q
    BY <1>5
  <2>2. t \in Seq(Entries(ix)) /\ Len(t) = l /\ t[l] = e /\ \A i \in DOMAIN s : t[i] = s[i]
    BY <1>3, AppendProperties
  <2>3. DOMAIN t = 1..l
    BY <2>2
  <2>4. /\ l \in DOMAIN t /\ l > Len(s) /\ l \in Nat
        /\ \A i \in DOMAIN s : i \in DOMAIN t /\ i < l
        /\ \A i \in DOMAIN t : i # l => i \in DOMAIN s
    BY <1>3, <2>3
  <2>5. e.cascades \in Seq(R)
    BY EntriesAre
  <2>6. Members(q) = Members(rest) \cup Members(e.cascades)
    BY <1>2, <2>5, MembersOf
  <2> HIDE DEF t, l, q
  <2>7. \A i \in DOMAIN s : s[i] # e
    BY <1>2, <1>5 DEF IsCascaded
  <2>8. \A i, j \in DOMAIN t : i # j => t[i] # t[j]
    BY <2>2, <2>4, <2>7 DEF IsCascaded
  <2>9. ASSUME NEW x \in Entries(ix) PROVE x.name \in seen <=> \E i \in DOMAIN t : t[i] = x
    <3>1. x.name \in w.visited <=> \E i \in DOMAIN s : s[i] = x
      BY DEF IsCascaded
    <3>2. x.name = name <=> x = e
      BY <1>5 DEF IsUnique, Entries
    <3>3. (\E i \in DOMAIN t : t[i] = x) <=> x = e \/ \E i \in DOMAIN s : s[i] = x
      BY <2>2, <2>4
    <3> QED
      BY <3>1, <3>2, <3>3
  <2>10. ASSUME NEW i \in DOMAIN t, NEW n \in Members(t[i].cascades)
         PROVE  n \in seen \/ n \in Members(q)
    <3>1. CASE i = l
      BY <2>2, <2>6, <2>10, <3>1
    <3>2. CASE i # l
      <4>1. i \in DOMAIN s /\ t[i] = s[i]
        BY <2>2, <2>4, <3>2
      <4>2. n \in w.visited \/ n \in Members(w.todo)
        BY <2>10, <4>1 DEF IsCascaded
      <4> QED
        BY <1>2, <2>6, <4>2
    <3> QED
      BY <3>1, <3>2
  <2>11. ASSUME NEW n \in Members(q) PROVE \E i \in DOMAIN t : n \in Members(t[i].cascades)
    <3>1. CASE n \in Members(e.cascades)
      BY <2>2, <2>4, <3>1
    <3>2. CASE n \in Members(rest)
      <4>1. PICK i \in DOMAIN s : n \in Members(s[i].cascades)
        BY <1>2, <3>2 DEF IsCascaded
      <4> QED
        BY <2>2, <2>4, <4>1
    <3> QED
      BY <2>6, <3>1, <3>2
  <2>12. Len(entries) <= Len(t) /\ \A i \in DOMAIN entries : t[i] = entries[i]
    <3>1. Len(entries) <= Len(s) /\ \A i \in DOMAIN entries : s[i] = entries[i]
      BY DEF IsCascaded
    <3>2. \A i \in DOMAIN entries : i \in DOMAIN s
      BY <1>3, <3>1
    <3>3. Len(entries) <= l
      BY <1>3, <3>1 DEF l
    <3> QED
      BY <2>2, <3>1, <3>2, <3>3
  <2>13. ASSUME NEW i \in DOMAIN t, i > Len(entries)
         PROVE  \E j \in 1..(i - 1) : t[i].name \in Members(t[j].cascades)
    <3>1. CASE i = l
      <4>1. PICK j \in DOMAIN s : name \in Members(s[j].cascades)
        BY <1>2 DEF IsCascaded
      <4>2. j \in 1..(i - 1)
        BY <1>3, <3>1, <4>1 DEF l
      <4> QED
        BY <1>5, <2>2, <3>1, <4>1, <4>2
    <3>2. CASE i # l
      <4>1. i \in DOMAIN s /\ t[i] = s[i]
        BY <2>2, <2>4, <3>2
      <4>2. PICK j \in 1..(i - 1) : s[i].name \in Members(s[j].cascades)
        BY <2>13, <4>1 DEF IsCascaded
      <4>3. j \in DOMAIN s
        BY <1>3, <4>1
      <4> QED
        BY <2>2, <4>1, <4>2, <4>3
    <3> QED
      BY <3>1, <3>2
  <2> QED
    BY <2>1, <2>8, <2>9, <2>10, <2>11, <2>12, <2>13 DEF IsCascaded
<1> QED
  BY <1>1, <1>4, <1>5 DEF v, rest, name
\* Where the worklist begins.
LEMMA StartReaches ==
  ASSUME Skill!CatalogAssumption, NEW ix \in Skill!Indexes, IsUnique(ix),
         NEW entries \in Seq(Entries(ix)),
         \A i, j \in DOMAIN entries : i # j => entries[i] # entries[j]
  PROVE  LET start == [result |-> entries, visited |-> {entries[i].name : i \in DOMAIN entries},
                       todo |-> Skill!FlattenSeq([i \in DOMAIN entries |-> entries[i].cascades])]
         IN  start \in Worklists(ix) /\ IsCascaded(ix, entries, start)
<1> DEFINE R == Skill!Referenced(ix)
           n == Len(entries)
           q == [i \in DOMAIN entries |-> entries[i].cascades]
           todo == Skill!FlattenSeq(q)
           visited == {entries[i].name : i \in DOMAIN entries}
           start == [result |-> entries, visited |-> visited, todo |-> todo]
<1>1. DOMAIN entries = 1..n /\ n \in Nat /\ \A i \in DOMAIN entries : entries[i] \in Entries(ix)
  OBVIOUS
<1>2. \A e \in Entries(ix) : e.name \in SkillNames /\ e.cascades \in Seq(R)
  BY EntriesAre
<1>3. q \in [1..n -> Seq(R)]
  BY <1>1, <1>2
<1>4. \A i \in 1..n : q[i] = entries[i].cascades
  BY <1>1
<1> HIDE DEF q, n
<1>5. todo \in Seq(R) /\ \A x : x \in Members(todo) <=> \E i \in 1..n : x \in Members(q[i])
  BY <1>1, <1>3, FlattenIs
<1> HIDE DEF todo
<1>6. visited \in SUBSET SkillNames
  BY <1>1, <1>2
<1>7. ASSUME NEW e \in Entries(ix) PROVE e.name \in visited <=> \E i \in DOMAIN entries : entries[i] = e
  <2>1. \A i \in DOMAIN entries : entries[i].name = e.name => entries[i] = e
    BY <1>1 DEF IsUnique, Entries
  <2> QED
    BY <2>1
<1> HIDE DEF visited
<1>8. start.result = entries /\ start.visited = visited /\ start.todo = todo
  OBVIOUS
<1>9. start \in Worklists(ix)
  BY <1>5, <1>6 DEF Worklists
<1> HIDE DEF start
<1>10. \A i \in DOMAIN entries : ~ (i > n)
  BY <1>1
<1>11. IsCascaded(ix, entries, start)
  BY <1>1, <1>4, <1>5, <1>7, <1>8, <1>10 DEF IsCascaded, n
<1> QED
  BY <1>9, <1>11 DEF start, visited, todo, q

\* The cascade ends with nothing unvisited: each round visits one of the names
\* that are referred to.
LEMMA CascadeIs ==
  ASSUME Skill!CatalogAssumption, NEW ix \in Skill!Indexes, IsFiniteSet(ix), IsUnique(ix),
         NEW entries \in Seq(Entries(ix)),
         \A i, j \in DOMAIN entries : i # j => entries[i] # entries[j]
  PROVE  \E w \in Worklists(ix) : /\ IsCascaded(ix, entries, w) /\ Skill!Unvisited(w) = {}
                                  /\ Skill!Cascade(ix, entries) = w.result
<1> DEFINE R == Skill!Referenced(ix)
           W == Worklists(ix)
           N == Cardinality(R)
           start == [result |-> entries, visited |-> {entries[i].name : i \in DOMAIN entries},
                     todo |-> Skill!FlattenSeq([i \in DOMAIN entries |-> entries[i].cascades])]
           After(w) == IF Skill!Unvisited(w) = {} THEN w ELSE Skill!Visit(ix, w)
           Body(u) == [k \in 0..N |-> IF k = 0 THEN start
                                      ELSE IF Skill!Unvisited(u[k - 1]) = {} THEN u[k - 1]
                                      ELSE Skill!Visit(ix, u[k - 1])]
           U == CHOOSE u : u = Body(u)
<1>1. IsFiniteSet(R) /\ N \in Nat
  BY ReferencedAreFinite, FS_CardinalityType
<1>2. Skill!Cascade(ix, entries) = U[N].result
  BY SkillCardinality DEF Skill!Cascade
<1>3. start \in W /\ IsCascaded(ix, entries, start)
  BY StartReaches
<1> HIDE DEF start, N, R, W
<1>4. \A w \in W : After(w) \in W
  BY VisitType DEF W
<1> DEFINE step == [k \in 1..N |-> [w \in W |-> After(w)]]
<1>5. step \in [1..N -> [W -> W]]
  BY <1>4
<1>6. \A k \in 1..N, w \in W : step[k][w] = After(w)
  OBVIOUS
<1> HIDE DEF step
<1>7. PICK g : IsRecursion(g, N, W, start, step)
  BY <1>1, <1>3, <1>5, Recursion
<1>8. g \in [0..N -> W] /\ g[0] = start /\ \A k \in 1..N : g[k] = step[k][g[k - 1]]
  BY <1>7 DEF IsRecursion
<1>9. ASSUME NEW k \in 0..N PROVE g[k] = IF k = 0 THEN start ELSE After(g[k - 1])
  <2>1. CASE k = 0
    BY <1>8, <2>1
  <2>2. CASE k # 0
    <3>1. k \in 1..N /\ k - 1 \in 0..N
      BY <1>1, <2>2
    <3>2. g[k - 1] \in W
      BY <1>8, <3>1
    <3> HIDE DEF After
    <3> QED
      BY <1>6, <1>8, <2>2, <3>1, <3>2
  <2> QED
    BY <2>1, <2>2
<1>10. g = Body(g)
  BY <1>8, <1>9
<1>11. U = Body(U)
  <2> HIDE DEF Body
  <2> QED
    BY <1>10
<1>12. \A k \in 0..N : U[k] = IF k = 0 THEN start ELSE After(U[k - 1])
  <2> HIDE DEF U
  <2> QED
    BY <1>11
<1> HIDE DEF U, Body, After
<1> DEFINE Is(k, w) == /\ w \in W /\ IsCascaded(ix, entries, w)
                       /\ Skill!Unvisited(w) = {} \/ Cardinality(R \cap w.visited) >= k
           T == {k \in 0..N : Is(k, U[k])}
<1>13. \A S : IsFiniteSet(R \cap S) /\ Cardinality(R \cap S) \in Nat
  BY <1>1, FS_Intersection, FS_CardinalityType
<1>14. 0 \in T
  <2>1. 0 \in 0..N /\ U[0] = start
    BY <1>1, <1>12
  <2>2. Cardinality(R \cap start.visited) \in Nat
    BY <1>13
  <2>3. Cardinality(R \cap start.visited) >= 0
    BY <2>2
  <2> QED
    BY <1>3, <2>1, <2>3
<1>15. ASSUME NEW k \in 0..(N - 1), k \in T PROVE k + 1 \in T
  <2>1. k + 1 \in 0..N /\ k + 1 # 0 /\ (k + 1) - 1 = k /\ k \in Nat
    BY <1>1
  <2>2. U[k + 1] = After(U[k])
    BY <1>12, <2>1
  <2>3. Is(k, U[k])
    BY <1>15
  <2> DEFINE w == U[k]
  <2>4. Is(k + 1, After(w))
    <3> HIDE DEF w
    <3>1. CASE Skill!Unvisited(w) = {}
      BY <2>3, <3>1 DEF After, w
    <3>2. CASE Skill!Unvisited(w) # {}
      <4> DEFINE v == Skill!Visit(ix, w)
      <4>1. w \in W /\ IsCascaded(ix, entries, w) /\ Cardinality(R \cap w.visited) >= k
        BY <2>3, <3>2 DEF w
      <4>2. v \in W /\ \E n \in R \ w.visited : v.visited = w.visited \cup {n}
        BY <3>2, <4>1, VisitType DEF W, R
      <4>3. IsCascaded(ix, entries, v)
        BY <3>2, <4>1, VisitReaches DEF W
      <4> HIDE DEF v
      <4>4. PICK n \in R \ w.visited : v.visited = w.visited \cup {n}
        BY <4>2
      <4>5. R \cap v.visited = (R \cap w.visited) \cup {n} /\ n \notin R \cap w.visited
        BY <4>4
      <4>6. Cardinality(R \cap v.visited) = Cardinality(R \cap w.visited) + 1
        BY <1>13, <4>5, FS_AddElement
      <4>7. Cardinality(R \cap v.visited) >= k + 1
        <5>1. Cardinality(R \cap w.visited) \in Nat
          BY <1>13
        <5> QED
          BY <2>1, <4>1, <4>6, <5>1
      <4>8. After(w) = v
        BY <3>2 DEF After, v
      <4> QED
        BY <4>2, <4>3, <4>7, <4>8
    <3> QED
      BY <3>1, <3>2
  <2> HIDE DEF Is
  <2> QED
    BY <2>1, <2>2, <2>4
<1> HIDE DEF T
<1>16. N \in T
  <2>1. \A k \in 0..(N - 1) : k \in T => k + 1 \in T
    BY <1>15
  <2>2. \A k \in 0..N : k \in T
    BY <1>1, <1>14, <2>1, Induction
  <2> QED
    BY <1>1, <2>2
<1>17. Is(N, U[N])
  BY <1>16 DEF T
<1>18. Skill!Unvisited(U[N]) = {}
  <2> DEFINE w == U[N]
  <2>1. SUFFICES ASSUME Cardinality(R \cap w.visited) >= N PROVE Skill!Unvisited(w) = {}
    BY <1>17
  <2> HIDE DEF w
  <2>2. R \cap w.visited \in SUBSET R
    OBVIOUS
  <2>3. /\ Cardinality(R \cap w.visited) <= Cardinality(R)
        /\ Cardinality(R) = Cardinality(R \cap w.visited) => R = R \cap w.visited
    BY <1>1, <2>2, FS_Subset
  <2>4. R \subseteq w.visited
    <3>1. Cardinality(R \cap w.visited) \in Nat
      BY <1>13
    <3>2. Cardinality(R) = Cardinality(R \cap w.visited)
      BY <1>1, <2>1, <2>3, <3>1 DEF N
    <3> QED
      BY <2>3, <3>2
  <2>5. w.todo \in Seq(R)
    BY <1>17 DEF w, W, R, Worklists
  <2>6. \A i \in DOMAIN w.todo : w.todo[i] \in R
    BY <2>5
  <2> QED
    BY <2>4, <2>6 DEF Skill!Unvisited
<1> QED
  BY <1>2, <1>17, <1>18 DEF W
\* An index of files has one entry for a name, and finitely many entries.
LEMMA IndexIsUnique ==
  ASSUME Skill!CatalogAssumption, NEW d \in [Skill!Files -> SkillFiles \cup {Nothing}]
  PROVE  LET ix == Skill!IndexOf(d)
         IN  ix \in Skill!Indexes /\ IsFiniteSet(ix) /\ IsUnique(ix)
<1> DEFINE ix == Skill!IndexOf(d)
           at == Skill!Scan(d)
<1>1. SkillPlaces \in Nat /\ Skill!Files = 1..SkillPlaces
  BY DEF Skill!CatalogAssumption, Skill!Files
<1>2. ASSUME NEW n \in SkillNames, at[n] # 0
      PROVE  at[n] \in Skill!Files /\ d[at[n]].name = n
  BY <1>2, SkillScan
<1> HIDE DEF at
<1>3. ix = {[file |-> at[n], entry |-> d[at[n]]] : n \in {m \in SkillNames : at[m] # 0}}
  BY DEF Skill!IndexOf, Skill!Nowhere, at
<1> HIDE DEF ix
<1>4. IsUnique(ix)
  BY <1>2, <1>3 DEF IsUnique
<1>5. IsFiniteSet(ix)
  <2> DEFINE f == [k \in Skill!Files |-> [file |-> k, entry |-> d[k]]]
             A == {[file |-> k, entry |-> d[k]] : k \in Skill!Files}
  <2>1. f \in Surjection(Skill!Files, A)
    BY DEF Surjection
  <2>2. ix \in SUBSET A
    BY <1>2, <1>3
  <2> HIDE DEF f, A
  <2>3. IsFiniteSet(Skill!Files)
    BY <1>1, OneTo
  <2> QED
    BY <2>1, <2>2, <2>3, FS_Surjection, FS_Subset
<1> QED
  BY <1>4, <1>5, SkillIndex DEF ix

\* What LoadedIsClosed says of what was loaded from an index.
IsClosed(ix) ==
  LET skills == {v8[i].skill : i \in DOMAIN v8}
      c == v8[1].for
      Direct(i) == Skill!Matches(v8[i].skill, c)
  IN  /\ Cardinality(skills) = Len(v8)
      /\ \A e \in Entries(ix) : Skill!Matches(e, c) => e \in skills
      /\ \A e \in Entries(ix) : (\E s \in skills : e.name \in Members(s.cascades)) => e \in skills
      /\ \A i \in DOMAIN v8 :
           \/ Direct(i) /\ \A j \in 1..(i - 1) : Direct(j)
                             /\ v8[j].skill.priority >= v8[i].skill.priority
           \/ \E j \in 1..(i - 1) : v8[i].skill.name \in Members(v8[j].skill.cascades)

\* Of what was matched and cascaded it holds.
LEMMA LoadIsClosed ==
  ASSUME Skill!CatalogAssumption, NEW c, Skill!LoadSkills(c),
         NEW ix \in Skill!Indexes, IsFiniteSet(ix), IsUnique(ix), ix = v5["worker"].of
  PROVE  v8' # <<>> => v8'[1].at = v5["worker"].at /\ IsClosed(ix)'
<1> DEFINE entries == Skill!Matched(ix, c)
           H == {e \in Entries(ix) : Skill!Matches(e, c)}
           s == Skill!Cascade(ix, entries)
<1>1. IsRanking(entries, H)
  BY MatchedIs
<1>2. v8' = [i \in DOMAIN s |-> [skill |-> s[i], body |-> Skill!Body(ix, s[i]),
                                 for |-> c, at |-> v5["worker"].at]]
  BY DEF Skill!LoadSkills
<1> HIDE DEF entries
<1>3. entries \in Seq(Entries(ix)) /\ \A i, j \in DOMAIN entries : i # j => entries[i] # entries[j]
  <2>1. entries \in Seq(H) /\ H \subseteq Entries(ix)
    BY <1>1 DEF IsRanking
  <2> HIDE DEF H
  <2>2. entries \in Seq(Entries(ix))
    BY <2>1
  <2> QED
    BY <1>1, <2>2 DEF IsRanking
<1>4. PICK w \in Worklists(ix) : /\ IsCascaded(ix, entries, w) /\ Skill!Unvisited(w) = {}
                                 /\ s = w.result
  BY <1>3, CascadeIs
<1> HIDE DEF s
<1>5. s \in Seq(Entries(ix)) /\ DOMAIN s = 1..Len(s) /\ Len(s) \in Nat
  BY <1>4 DEF Worklists
<1>6. Members(w.todo) \subseteq w.visited
  BY <1>4 DEF Skill!Unvisited, Members
<1> DEFINE V == {v8'[i] : i \in DOMAIN v8'}
<1>7. /\ DOMAIN v8' = 1..Len(s) /\ v8' \in Seq(V)
      /\ \A i \in 1..Len(s) : v8'[i].skill = s[i] /\ v8'[i].for = c /\ v8'[i].at = v5["worker"].at
  <2>1. DOMAIN v8' = 1..Len(s)
    BY <1>2, <1>5
  <2>2. \A i \in 1..Len(s) : v8'[i].skill = s[i] /\ v8'[i].for = c /\ v8'[i].at = v5["worker"].at
    BY <1>2, <1>5
  <2>3. v8' \in [1..Len(s) -> V]
    BY <1>2, <1>5
  <2> HIDE DEF V
  <2>4. v8' \in Seq(V)
    BY <1>5, <2>3, ListIs
  <2> QED
    BY <2>1, <2>2, <2>4
<1>8. SUFFICES ASSUME v8' # <<>> PROVE v8'[1].at = v5["worker"].at /\ IsClosed(ix)'
  OBVIOUS
<1>9. Len(v8') = Len(s) /\ Len(s) >= 1 /\ 1 \in 1..Len(s)
  <2>1. Len(v8') = Len(s)
    BY <1>5, <1>7
  <2>2. Len(s) # 0
    BY <1>7, <1>8, <2>1
  <2> QED
    BY <1>5, <2>1, <2>2
<1> DEFINE skills == {v8'[i].skill : i \in DOMAIN v8'}
<1>10. skills = Members(s)
  BY <1>5, <1>7 DEF Members
<1>11. Cardinality(Members(s)) = Len(s)
  <2> DEFINE f == s
  <2>1. \A i, j \in DOMAIN s : i # j => s[i] # s[j]
    BY <1>4 DEF IsCascaded
  <2>2. s \in [1..Len(s) -> Members(s)]
    BY <1>5 DEF Members
  <2>3. s \in Injection(1..Len(s), Members(s))
    BY <1>5, <2>1, <2>2 DEF Injection, IsInjective
  <2>4. s \in Surjection(1..Len(s), Members(s))
    BY <1>5, <2>2 DEF Surjection, Members
  <2>5. s \in Bijection(1..Len(s), Members(s))
    BY <2>3, <2>4 DEF Bijection
  <2>6. ExistsBijection(1..Len(s), Members(s))
    BY <2>5 DEF ExistsBijection
  <2> QED
    BY <1>5, <2>6, OneTo, FS_Bijection
<1>12. \A e \in Entries(ix) : e.name \in w.visited => e \in Members(s)
  BY <1>4 DEF IsCascaded, Members
<1>13. ASSUME NEW e \in Entries(ix), Skill!Matches(e, c) PROVE e \in Members(s)
  <2>1. PICK i \in DOMAIN entries : entries[i] = e
    BY <1>1, <1>13 DEF IsRanking
  <2>2. i \in DOMAIN s /\ s[i] = e
    <3>1. Len(entries) <= Len(s) /\ s[i] = entries[i]
      BY <1>4 DEF IsCascaded
    <3>2. i \in 1..Len(entries) /\ Len(entries) \in Nat
      BY <1>3
    <3> QED
      BY <1>5, <2>1, <3>1, <3>2
  <2> QED
    BY <2>2 DEF Members
<1>14. ASSUME NEW e \in Entries(ix), NEW x \in Members(s), e.name \in Members(x.cascades)
       PROVE  e \in Members(s)
  <2>1. PICK i \in DOMAIN s : s[i] = x
    BY DEF Members
  <2>2. e.name \in w.visited \/ e.name \in Members(w.todo)
    BY <1>4, <1>14, <2>1 DEF IsCascaded
  <2> QED
    BY <1>6, <1>12, <2>2
<1>15. ASSUME NEW i \in 1..Len(s)
       PROVE  \/ Skill!Matches(s[i], c) /\ \A j \in 1..(i - 1) : Skill!Matches(s[j], c)
                                              /\ s[j].priority >= s[i].priority
              \/ \E j \in 1..(i - 1) : s[i].name \in Members(s[j].cascades)
  <2>1. Len(entries) \in Nat /\ DOMAIN entries = 1..Len(entries)
    BY <1>3
  <2>2. CASE i <= Len(entries)
    <3>1. \A j \in 1..Len(entries) : s[j] = entries[j] /\ Skill!Matches(s[j], c)
      <4>1. \A j \in 1..Len(entries) : entries[j] \in H
        <5> HIDE DEF H
        <5> QED
          BY <1>1, <2>1 DEF IsRanking
      <4> QED
        BY <1>4, <2>1, <4>1 DEF IsCascaded
    <3>2. i \in 1..Len(entries) /\ \A j \in 1..(i - 1) : j \in 1..Len(entries) /\ j < i
      BY <2>1, <2>2
    <3>3. \A j \in 1..(i - 1) : entries[j].priority >= entries[i].priority
      BY <1>1, <2>1, <3>2 DEF IsRanking
    <3> QED
      BY <3>1, <3>2, <3>3
  <2>3. CASE i > Len(entries)
    BY <1>4, <1>5, <2>3 DEF IsCascaded
  <2> QED
    BY <2>1, <2>2, <2>3
<1>16. \A i \in 1..Len(s) : \A j \in 1..(i - 1) : j \in 1..Len(s)
  BY <1>5
<1>17. v8'[1].at = v5["worker"].at /\ v8'[1].for = c
  BY <1>7, <1>9
<1>18. IsClosed(ix)'
  <2>1. Cardinality(skills) = Len(v8')
    BY <1>9, <1>10, <1>11
  <2>2. ASSUME NEW i \in DOMAIN v8'
        PROVE  \/ Skill!Matches(v8'[i].skill, c) /\ \A j \in 1..(i - 1) : Skill!Matches(v8'[j].skill, c)
                              /\ v8'[j].skill.priority >= v8'[i].skill.priority
               \/ \E j \in 1..(i - 1) : v8'[i].skill.name \in Members(v8'[j].skill.cascades)
    <3>1. i \in 1..Len(s) /\ v8'[i].skill = s[i] /\ \A j \in 1..(i - 1) : v8'[j].skill = s[j]
      BY <1>7, <1>16
    <3> QED
      BY <1>15, <3>1
  <2> HIDE DEF skills
  <2>3. \A e \in Entries(ix) : (\E x \in skills : e.name \in Members(x.cascades)) => e \in skills
    BY <1>10, <1>14
  <2>4. \A e \in Entries(ix) : Skill!Matches(e, c) => e \in skills
    BY <1>10, <1>13
  <2> QED
    BY <1>17, <2>1, <2>2, <2>3, <2>4 DEF IsClosed, skills, Entries, Skill!Matches, Members
<1> QED
  BY <1>17, <1>18
(***************************************************************************)
(* Two indexes that are equally old are the same one, wherever they are    *)
(* held, and of that one of them that an agent was loaded from what was    *)
(* loaded is closed.                                                       *)
(***************************************************************************)
Known == {Skill!NoCopy, Skill!Snapshot, v3}
           \cup {v5[p] : p \in Skill!Processes} \cup {v7[r] : r \in Requests}
KnownAreIndexes == \A x \in Known : x.at <= v2 + 1 /\ IsFiniteSet(x.of) /\ IsUnique(x.of)
KnownAgree == \A x, y \in Known : x.at = y.at => x.of = y.of
LoadedStands ==
  v8 # <<>> => /\ v8[1].at \in Nat /\ v8[1].at <= v2 + 1
               /\ \A x \in Known : x.at = v8[1].at => IsClosed(x.of)
LoadInv == part = "skills" => KnownAreIndexes /\ KnownAgree /\ LoadedStands

LEMMA SameClosed == ASSUME NEW ix, v8' = v8 PROVE IsClosed(ix)' <=> IsClosed(ix)
BY DEF IsClosed, Entries, Members, Skill!Matches

LEMMA KnownTypes ==
  ASSUME Skill!CatalogAssumption, Skill!TypeOK
  PROVE  \A x \in Known : x \in Skill!Snapshots /\ x.at \in Nat /\ x.of \in Skill!Indexes
<1>1. Skill!NoCopy \in Skill!Snapshots
  BY DEF Skill!NoCopy, Skill!Snapshots, Skill!Indexes
<1>2. Skill!Snapshot \in Skill!Snapshots
  BY SkillSnapshot
<1>3. \A x \in Known : x \in Skill!Snapshots
  BY <1>1, <1>2 DEF Known, Skill!TypeOK
<1> QED
  BY <1>3 DEF Skill!Snapshots

\* A change of a file makes a new index to be known, and no other step does.
LEMMA KnownStep ==
  ASSUME Skill!CatalogAssumption, Skill!TypeOK, [Skill!Next]_(Skill!vars)
  PROVE  \/ /\ v1' = v1 /\ v2' = v2 /\ \A x \in Known' : x \in Known
            /\ \/ v8' = v8
               \/ v5' = v5 /\ \E c \in Contexts : Skill!LoadSkills(c)
         \/ /\ v2' = v2 + 1 /\ v8' = v8
            /\ \A x \in Known' : x \in Known \/ x = Skill!Snapshot'
<1> DEFINE snapshot == Skill!Snapshot
           none == Skill!NoCopy
           Held(c, i, q) == {c} \cup {i[p] : p \in Skill!Processes} \cup {q[r] : r \in Requests}
<1>1. Known = {none, snapshot} \cup Held(v3, v5, v7)
  BY DEF Known
<1>2. Known' = {none, snapshot'} \cup Held(v3', v5', v7')
  BY DEF Known, Skill!NoCopy
<1>3. CASE \E f \in Skill!Files : Skill!Edit(f)
  <2>1. v2' = v2 + 1 /\ v8' = v8 /\ v3' = v3 /\ v5' = v5 /\ v7' = v7
    BY <1>3 DEF Skill!Edit
  <2> HIDE DEF snapshot, none, Held
  <2>2. \A x \in Known' : x \in Known \/ x = snapshot'
    BY <1>1, <1>2, <2>1
  <2> QED
    BY <2>1, <2>2 DEF snapshot
<1>4. CASE ~ \E f \in Skill!Files : Skill!Edit(f)
  <2>1. /\ v1' = v1 /\ v2' = v2
        /\ \A x \in Held(v3', v5', v7') : x \in Held(v3, v5, v7) \cup {snapshot, none}
        /\ \/ v8' = v8
           \/ v5' = v5 /\ \E c \in Contexts : Skill!LoadSkills(c)
    <3> USE DEF Skill!TypeOK
    <3> HIDE DEF snapshot, none
    <3>1. CASE \E p \in Skill!Processes : Skill!Start(p)
      BY <3>1 DEF Skill!Start, snapshot
    <3>2. CASE \E p \in Skill!Processes : Skill!SaveAtStart(p) \/ Skill!Stop(p)
      BY <3>2 DEF Skill!SaveAtStart, Skill!Stop
    <3>3. CASE \E r \in Requests : Skill!Invalidate(r)
      BY <3>3 DEF Skill!Invalidate, none
    <3>4. CASE \E r \in Requests : Skill!Rescan(r)
      BY <3>4 DEF Skill!Rescan, snapshot
    <3>5. CASE \E r \in Requests : Skill!Save(r)
      BY <3>5 DEF Skill!Save
    <3>6. CASE \E c \in Contexts : Skill!LoadSkills(c)
      <4>1. UNCHANGED <<v1, v2, v3, v5, v7>>
        BY <3>6 DEF Skill!LoadSkills
      <4> QED
        BY <3>6, <4>1
    <3>7. CASE UNCHANGED Skill!vars
      BY <3>7 DEF Skill!vars
    <3> QED
      BY <1>4, <3>1, <3>2, <3>3, <3>4, <3>5, <3>6, <3>7 DEF Skill!Next
  <2>2. snapshot' = snapshot
    <3>1. v1' = v1 /\ v2' = v2
      BY <2>1
    <3>2. Skill!IndexOf(v1)' = Skill!IndexOf(v1)
      BY <3>1, Zenon
    <3> QED
      BY <3>1, <3>2 DEF Skill!Snapshot
  <2> HIDE DEF snapshot, none, Held
  <2>3. \A x \in Known' : x \in Known
    BY <1>1, <1>2, <2>1, <2>2
  <2> QED
    BY <2>1, <2>3
<1> QED
  BY <1>3, <1>4

LEMMA LoadInvStep ==
  ASSUME Skill!CatalogAssumption, Skill!TypeOK, Skill!TypeOK', [Skill!Next]_(Skill!vars),
         KnownAreIndexes, KnownAgree, LoadedStands
  PROVE  KnownAreIndexes' /\ KnownAgree' /\ LoadedStands'
<1>1. v2 \in Nat /\ v1' \in [Skill!Files -> SkillFiles \cup {Nothing}]
  BY DEF Skill!TypeOK
<1>2. \A x \in Known : /\ x.at \in Nat /\ x.of \in Skill!Indexes
                       /\ x.at <= v2 + 1 /\ IsFiniteSet(x.of) /\ IsUnique(x.of)
  BY KnownTypes DEF KnownAreIndexes
<1>3. CASE /\ v2' = v2 + 1 /\ v8' = v8
           /\ \A x \in Known' : x \in Known \/ x = Skill!Snapshot'
  <2> DEFINE new == Skill!Snapshot'
  <2>1. new.at = v2 + 1 + 1 /\ new.of = Skill!IndexOf(v1')
    BY <1>3 DEF Skill!Snapshot
  <2> HIDE DEF new
  <2>2. IsFiniteSet(new.of) /\ IsUnique(new.of)
    BY <1>1, <2>1, IndexIsUnique
  <2>3. \A x \in Known' : x \in Known \/ x = new
    BY <1>3 DEF new
  <2>4. \A x \in Known : x.at < new.at /\ x.at <= v2' + 1
    BY <1>1, <1>2, <1>3, <2>1
  <2>5. new.at <= v2' + 1 /\ new.at \in Nat
    BY <1>1, <1>3, <2>1
  <2>6. KnownAreIndexes'
    <3>1. \A x \in Known' : x.at <= v2' + 1 /\ IsFiniteSet(x.of) /\ IsUnique(x.of)
      BY <1>2, <2>2, <2>3, <2>4, <2>5
    <3> QED
      BY <3>1 DEF KnownAreIndexes, IsUnique
  <2>7. KnownAgree'
    <3>1. ASSUME NEW x \in Known', NEW y \in Known', x.at = y.at PROVE x.of = y.of
      <4>1. x = new <=> y = new
        BY <1>2, <2>3, <2>4, <2>5, <3>1
      <4> QED
        BY <2>3, <3>1, <4>1 DEF KnownAgree
    <3> QED
      BY <3>1 DEF KnownAgree
  <2>8. LoadedStands'
    <3>1. SUFFICES ASSUME v8 # <<>>
                   PROVE  /\ v8[1].at \in Nat /\ v8[1].at <= v2' + 1
                          /\ \A x \in Known' : x.at = v8[1].at => IsClosed(x.of)
      <4>1. \A x : IsClosed(x.of)' <=> IsClosed(x.of)
        BY <1>3, SameClosed
      <4>2. v8' # <<>> => /\ v8'[1].at \in Nat /\ v8'[1].at <= v2' + 1
                          /\ \A x \in Known' : x.at = v8'[1].at => IsClosed(x.of)'
        BY <1>3, <3>1, <4>1
      <4> QED
        BY <4>2 DEF LoadedStands
    <3>2. v8[1].at \in Nat /\ v8[1].at <= v2 + 1 /\ \A x \in Known : x.at = v8[1].at => IsClosed(x.of)
      BY <3>1 DEF LoadedStands
    <3> QED
      BY <1>1, <1>3, <2>1, <2>3, <3>2
  <2> QED
    BY <2>6, <2>7, <2>8
<1>4. CASE /\ v1' = v1 /\ v2' = v2 /\ \A x \in Known' : x \in Known
           /\ v8' = v8 \/ \E c \in Contexts : Skill!LoadSkills(c)
  <2>1. KnownAreIndexes' /\ KnownAgree'
    <3>1. \A x \in Known' : x.at <= v2' + 1 /\ IsFiniteSet(x.of) /\ IsUnique(x.of)
      BY <1>2, <1>4
    <3>2. \A x, y \in Known' : x.at = y.at => x.of = y.of
      BY <1>4 DEF KnownAgree
    <3>3. KnownAreIndexes'
      BY <3>1 DEF KnownAreIndexes, IsUnique
    <3>4. KnownAgree'
      BY <3>2 DEF KnownAgree
    <3> QED
      BY <3>3, <3>4
  <2>2. CASE v8' = v8
    <3>1. \A x \in Known : IsClosed(x.of)' <=> IsClosed(x.of)
      BY <2>2, SameClosed
    <3> QED
      BY <1>4, <2>1, <2>2, <3>1 DEF LoadedStands
  <2>3. ASSUME NEW c \in Contexts, Skill!LoadSkills(c)
        PROVE  LoadedStands'
    <3>1. v5["worker"] \in Known
      BY DEF Known, Skill!Processes
    <3>2. PICK w : w = v5["worker"]
      OBVIOUS
    <3>3. PICK ix : ix = w.of
      OBVIOUS
    <3>4. ix \in Skill!Indexes /\ IsFiniteSet(ix) /\ IsUnique(ix) /\ ix = v5["worker"].of
      BY <1>2, <3>1, <3>2, <3>3
    <3>5. v8' # <<>> => v8'[1].at = w.at /\ IsClosed(ix)'
      BY <2>3, <3>2, <3>4, LoadIsClosed
    <3>6. \A x \in Known : x.at = w.at => x.of = ix
      BY <3>1, <3>2, <3>3 DEF KnownAgree
    <3>7. w.at \in Nat /\ w.at <= v2' + 1
      BY <1>2, <1>4, <3>1, <3>2
    <3>8. ASSUME v8' # <<>>, NEW x \in Known', x.at = v8'[1].at PROVE IsClosed(x.of)'
      <4>1. x.of = ix
        BY <1>4, <3>5, <3>6, <3>8
      <4> QED
        BY <3>5, <3>8, <4>1
    <3>9. v8' # <<>> => v8'[1].at \in Nat /\ v8'[1].at <= v2' + 1
      BY <3>5, <3>7
    <3> QED
      BY <3>8, <3>9 DEF LoadedStands
  <2> QED
    BY <1>4, <2>1, <2>2, <2>3
<1> QED
  BY <1>3, <1>4, KnownStep

LEMMA LoadInvInit ==
  ASSUME Skill!CatalogAssumption, Skill!Init
  PROVE  KnownAreIndexes /\ KnownAgree /\ LoadedStands
<1>1. v1 \in [Skill!Files -> SkillFiles \cup {Nothing}] /\ v2 = 0 /\ v8 = <<>>
  BY DEF Skill!Init, Skill!CatalogAssumption
<1>2. \A x \in Known : x = Skill!NoCopy \/ x = Skill!Snapshot
  BY DEF Skill!Init, Known
<1>3. Skill!NoCopy.at = 0 /\ Skill!NoCopy.of = {}
  BY DEF Skill!NoCopy
<1>4. Skill!Snapshot.at = 1 /\ Skill!Snapshot.of = Skill!IndexOf(v1)
  BY <1>1 DEF Skill!Snapshot
<1>5. IsFiniteSet({}) /\ IsUnique({})
  BY FS_EmptySet DEF IsUnique
<1>6. IsFiniteSet(Skill!IndexOf(v1)) /\ IsUnique(Skill!IndexOf(v1))
  BY <1>1, IndexIsUnique
<1>7. KnownAreIndexes
  <2>1. ASSUME NEW x \in Known PROVE x.at <= v2 + 1 /\ IsFiniteSet(x.of) /\ IsUnique(x.of)
    <3>1. CASE x = Skill!NoCopy
      <4>1. x.of = {} /\ x.at = 0
        BY <1>3, <3>1
      <4>2. x.at <= v2 + 1
        BY <1>1, <4>1
      <4> QED
        BY <1>5, <4>1, <4>2
    <3>2. CASE x = Skill!Snapshot
      <4>1. x.of = Skill!IndexOf(v1) /\ x.at = 1
        BY <1>4, <3>2
      <4>2. IsFiniteSet(x.of) /\ IsUnique(x.of)
        BY <1>6, <4>1
      <4>3. x.at <= v2 + 1
        BY <1>1, <4>1
      <4> QED
        BY <4>2, <4>3
    <3> QED
      BY <1>2, <3>1, <3>2
  <2> QED
    BY <2>1 DEF KnownAreIndexes
<1>8. KnownAgree
  BY <1>2, <1>3, <1>4 DEF KnownAgree
<1> QED
  BY <1>1, <1>7, <1>8 DEF LoadedStands

\* Whatever refers to whatever, in cycles, twice or to nothing, and whoever
\* changes the files meanwhile, an agent has of the index it was loaded from each
\* skill that matches or that a loaded one refers to, once, and no other.
THEOREM LoadedIsClosedHolds == Spec => []LoadedIsClosed
<1>1. Init => LoadInv
  BY ServicesAssumption, LoadInvInit DEF Init, LoadInv
<1>2. SkillInv /\ SkillInv' /\ LoadInv /\ [Next]_vars => LoadInv'
  BY StepOfPart, LoadInvStep DEF SkillInv, LoadInv
<1>3. SkillInv /\ LoadInv => LoadedIsClosed
  <2> SUFFICES ASSUME SkillInv, LoadInv, part = "skills" PROVE Skill!LoadedIsClosed
    BY DEF LoadedIsClosed
  <2>1. Skill!ScanKeepsFirst
    BY ScanFromInv DEF ScanKeepsFirst
  <2>2. ASSUME v8 # <<>>, v8[1].at = v5["worker"].at PROVE IsClosed(v5["worker"].of)
    <3>1. v5["worker"] \in Known
      BY DEF Known, Skill!Processes
    <3> QED
      BY <2>2, <3>1 DEF LoadInv, LoadedStands
  <2> QED
    BY <2>1, <2>2, SkillCardinality, SkillToSet DEF Skill!LoadedIsClosed, IsClosed, Entries
<1> QED
  BY <1>1, <1>2, <1>3, SkillInvHolds, PTL DEF Spec

-----------------------------------------------------------------------------
(***************************************************************************)
(* ProjectFiles: what can be relied on after an answer.  Where one text    *)
(* occurs in another is said character by character; when an occurrence is *)
(* replaced by what has no character of the text looked for, none arises.  *)
(* file is v1, last is v3, earlier is v4.                                  *)
(***************************************************************************)
\* The text o begins at place i of s.
At(s, i, o) == /\ i + Len(o) <= Len(s) + 1
               /\ \A k \in 1..Len(o) : s[i + k - 1] = o[k]

\* The text s with the l characters from i on replaced by n.
Spliced(s, i, l, n) == SubSeq(s, 1, i - 1) \o n \o SubSeq(s, i + l, Len(s))

\* The first place of o in s.
First(s, i, o) == i \in 1..Len(s) /\ At(s, i, o) /\ \A k \in 1..(i - 1) : ~ At(s, k, o)

\* No character of one is one of the other.
Foreign(a, b) == \A i \in 1..Len(a), k \in 1..Len(b) : a[i] # b[k]

\* A part of a text, and one text behind another.
LEMMA PartIs ==
  ASSUME NEW V, NEW s \in Seq(V), NEW i \in Nat \ {0}, NEW k \in Nat, k <= Len(s), i <= k + 1
  PROVE  /\ SubSeq(s, i, k) \in Seq(V) /\ Len(SubSeq(s, i, k)) = k - i + 1
         /\ \A c \in 1..(k - i + 1) : SubSeq(s, i, k)[c] = s[i + c - 1]
<1>1. i \in 1..(Len(s) + 1) /\ k \in (i - 1)..Len(s) /\ Len(s) \in Nat
  OBVIOUS
<1>2. CASE k >= i
  BY <1>1, <1>2, SubSeqProperties
<1>3. CASE k = i - 1
  BY <1>1, <1>3, SubSeqProperties
<1> QED
  BY <1>2, <1>3

IsConcat(r, V, a, z) ==
  /\ r \in Seq(V) /\ Len(r) = Len(a) + Len(z)
  /\ \A c \in 1..Len(a) : r[c] = a[c]
  /\ \A c \in (Len(a) + 1)..(Len(a) + Len(z)) : r[c] = z[c - Len(a)]

LEMMA ConcatIs ==
  ASSUME NEW V, NEW a \in Seq(V), NEW z \in Seq(V)
  PROVE  IsConcat(a \o z, V, a, z)
<1>1. Len(a) \in Nat /\ Len(z) \in Nat
  OBVIOUS
<1>2. /\ \A c \in 1..Len(a) : c \in 1..(Len(a) + Len(z)) /\ c <= Len(a)
      /\ \A c \in (Len(a) + 1)..(Len(a) + Len(z)) : c \in 1..(Len(a) + Len(z)) /\ ~ (c <= Len(a))
  BY <1>1
<1> QED
  BY <1>2, ConcatProperties DEF IsConcat

IsSpliced(r, V, s, i, l, n) ==
  /\ r \in Seq(V) /\ Len(r) = Len(s) - l + Len(n)
  /\ \A k \in 1..(i - 1) : r[k] = s[k]
  /\ \A k \in i..(i + Len(n) - 1) : r[k] = n[k - i + 1]
  /\ \A k \in (i + Len(n))..(Len(s) - l + Len(n)) : r[k] = s[k - Len(n) + l]

LEMMA SplicedIs ==
  ASSUME NEW V, NEW s \in Seq(V), NEW n \in Seq(V), NEW i \in Nat \ {0}, NEW l \in Nat,
         i + l <= Len(s) + 1
  PROVE  IsSpliced(Spliced(s, i, l, n), V, s, i, l, n)
<1> DEFINE a == SubSeq(s, 1, i - 1)
           z == SubSeq(s, i + l, Len(s))
<1>0. Len(s) \in Nat /\ Len(n) \in Nat
  OBVIOUS
<1>1. a \in Seq(V) /\ Len(a) = i - 1 /\ \A c \in 1..(i - 1) : a[c] = s[c]
  <2>1. i - 1 \in Nat /\ i - 1 <= Len(s)
    BY <1>0
  <2> QED
    BY <2>1, PartIs
<1>2. /\ z \in Seq(V) /\ Len(z) = Len(s) - i - l + 1
      /\ \A c \in 1..(Len(s) - i - l + 1) : z[c] = s[i + l + c - 1]
  <2>1. i + l \in Nat \ {0}
    OBVIOUS
  <2> QED
    BY <1>0, <2>1, PartIs
<1> HIDE DEF a, z
<1> DEFINE b == a \o n
           r == b \o z
<1>3. /\ b \in Seq(V) /\ Len(b) = i - 1 + Len(n)
      /\ \A c \in 1..(i - 1) : b[c] = a[c]
      /\ \A c \in i..(i + Len(n) - 1) : b[c] = n[c - i + 1]
  <2>1. IsConcat(b, V, a, n)
    BY <1>1, ConcatIs
  <2> HIDE DEF b
  <2>2. \A c \in i..(i + Len(n) - 1) :
           c \in (Len(a) + 1)..(Len(a) + Len(n)) /\ c - Len(a) = c - i + 1
    BY <1>0, <1>1
  <2> QED
    BY <1>1, <2>1, <2>2 DEF IsConcat
<1>5. r = Spliced(s, i, l, n)
  BY DEF a, z, Spliced
<1> HIDE DEF b
<1>4. /\ r \in Seq(V) /\ Len(r) = Len(b) + Len(z)
      /\ \A c \in 1..Len(b) : r[c] = b[c]
      /\ \A c \in (Len(b) + 1)..(Len(b) + Len(z)) : r[c] = z[c - Len(b)]
  <2>1. IsConcat(r, V, b, z)
    BY <1>2, <1>3, ConcatIs
  <2> QED
    BY <2>1 DEF IsConcat
<1> HIDE DEF r
<1>l. Len(b) = i - 1 + Len(n) /\ Len(z) = Len(s) - i - l + 1
  BY <1>2, <1>3
<1>6. ASSUME NEW k \in 1..(i - 1) PROVE r[k] = s[k]
  <2>1. k \in 1..Len(b)
    BY <1>0, <1>3
  <2> QED
    BY <1>1, <1>3, <1>4, <2>1
<1>7. ASSUME NEW k \in i..(i + Len(n) - 1) PROVE r[k] = n[k - i + 1]
  <2>1. k \in 1..Len(b)
    BY SMTT(20), <1>0, <1>3
  <2> QED
    BY <1>3, <1>4, <2>1
<1>8. ASSUME NEW k \in (i + Len(n))..(Len(s) - l + Len(n))
      PROVE  r[k] = s[k - Len(n) + l]
  <2>0. k \in Int /\ i + Len(n) <= k /\ k <= Len(s) - l + Len(n)
    BY <1>0
  <2>1. k \in (Len(b) + 1)..(Len(b) + Len(z))
    BY <1>0, <1>l, <2>0
  <2>2. k - Len(b) \in 1..(Len(s) - i - l + 1)
    BY <1>0, <1>l, <2>0
  <2>3. i + l + (k - Len(b)) - 1 = k - Len(n) + l
    BY <1>0, <1>l, <2>0
  <2> QED
    BY <1>2, <1>4, <2>1, <2>2, <2>3
<1>9. Len(r) = Len(s) - l + Len(n)
  BY <1>0, <1>2, <1>3, <1>4
<1> QED
  BY <1>4, <1>5, <1>6, <1>7, <1>8, <1>9 DEF IsSpliced

\* Occurrences of what has no character of n are those before n and those after.
LEMMA Occurrences ==
  ASSUME NEW V, NEW s \in Seq(V), NEW n \in Seq(V) \ {<<>>}, NEW i \in Nat \ {0}, NEW l \in Nat,
         i + l <= Len(s) + 1, NEW o \in Seq(V) \ {<<>>}, Foreign(n, o), NEW k \in Nat \ {0}
  PROVE  At(Spliced(s, i, l, n), k, o) <=>
           \/ k + Len(o) <= i /\ At(s, k, o)
           \/ k >= i + Len(n) /\ At(s, k - Len(n) + l, o)
<1> DEFINE r == Spliced(s, i, l, n)
<1>1. /\ Len(r) = Len(s) - l + Len(n)
      /\ \A c \in 1..(i - 1) : r[c] = s[c]
      /\ \A c \in i..(i + Len(n) - 1) : r[c] = n[c - i + 1]
      /\ \A c \in (i + Len(n))..(Len(s) - l + Len(n)) : r[c] = s[c - Len(n) + l]
  <2>1. IsSpliced(r, V, s, i, l, n)
    BY SplicedIs
  <2> QED
    BY <2>1 DEF IsSpliced
<1> HIDE DEF r
<1>2. Len(s) \in Nat /\ Len(n) \in Nat \ {0} /\ Len(o) \in Nat \ {0}
  BY EmptySeq
<1>3. CASE k + Len(o) <= i
  <2>1. \A c \in 1..Len(o) : r[k + c - 1] = s[k + c - 1]
    <3>1. \A c \in 1..Len(o) : k + c - 1 \in 1..(i - 1)
      BY <1>2, <1>3
    <3> QED
      BY <1>1, <3>1
  <2>2. k + Len(o) <= Len(r) + 1 /\ k + Len(o) <= Len(s) + 1
    BY <1>1, <1>2, <1>3
  <2>3. At(r, k, o) <=> At(s, k, o)
    BY <2>1, <2>2 DEF At
  <2>4. ~ (k >= i + Len(n))
    BY <1>2, <1>3
  <2> QED
    BY <1>3, <2>3, <2>4 DEF r
<1>4. CASE k >= i + Len(n)
  <2>1. (k + Len(o) <= Len(r) + 1) <=> (k - Len(n) + l + Len(o) <= Len(s) + 1)
    BY <1>1, <1>2
  <2>2. ASSUME k + Len(o) <= Len(r) + 1, NEW c \in 1..Len(o)
        PROVE  r[k + c - 1] = s[k - Len(n) + l + c - 1]
    <3>1. k + c - 1 \in (i + Len(n))..(Len(s) - l + Len(n))
      BY <1>1, <1>2, <1>4, <2>2
    <3>2. (k + c - 1) - Len(n) + l = k - Len(n) + l + c - 1
      BY <1>2
    <3> QED
      BY <1>1, <3>1, <3>2
  <2>3. At(r, k, o) <=> At(s, k - Len(n) + l, o)
    BY <2>1, <2>2 DEF At
  <2>4. ~ (k + Len(o) <= i)
    BY <1>2, <1>4
  <2> QED
    BY <1>4, <2>3, <2>4 DEF r
<1>5. CASE ~ (k + Len(o) <= i) /\ ~ (k >= i + Len(n))
  <2> SUFFICES ASSUME At(r, k, o) PROVE FALSE
    BY <1>5 DEF r
  <2> DEFINE p == IF k >= i THEN k ELSE i
  <2>1. /\ p \in i..(i + Len(n) - 1) /\ p - i + 1 \in 1..Len(n)
        /\ p - k + 1 \in 1..Len(o) /\ k + (p - k + 1) - 1 = p
    BY <1>2, <1>5
  <2> HIDE DEF p
  <2>2. r[p] = n[p - i + 1]
    BY <1>1, <2>1
  <2>3. r[p] = o[p - k + 1]
    BY <2>1 DEF At
  <2> QED
    BY <2>1, <2>2, <2>3 DEF Foreign
<1> QED
  BY <1>2, <1>3, <1>4, <1>5

\* Two places that do not overlap can be replaced in either order.
LEMMA EitherOrder ==
  ASSUME NEW V, NEW s \in Seq(V), NEW n \in Seq(V), NEW m \in Seq(V),
         NEW i \in Nat \ {0}, NEW j \in Nat \ {0}, NEW a \in Nat, NEW b \in Nat,
         i + a <= j, j + b <= Len(s) + 1
  PROVE  Spliced(Spliced(s, i, a, n), j - a + Len(n), b, m) =
         Spliced(Spliced(s, j, b, m), i, a, n)
<1> DEFINE x == Spliced(s, i, a, n)
           y == Spliced(s, j, b, m)
           h == j - a + Len(n)
           v == Spliced(x, h, b, m)
           w == Spliced(y, i, a, n)
           N == Len(s) - a - b + Len(n) + Len(m)
<1>0. Len(s) \in Nat /\ Len(n) \in Nat /\ Len(m) \in Nat
  OBVIOUS
<1>1. /\ x \in Seq(V) /\ Len(x) = Len(s) - a + Len(n)
      /\ \A k \in 1..(i - 1) : x[k] = s[k]
      /\ \A k \in i..(i + Len(n) - 1) : x[k] = n[k - i + 1]
      /\ \A k \in (i + Len(n))..(Len(s) - a + Len(n)) : x[k] = s[k - Len(n) + a]
  <2>1. i + a <= Len(s) + 1
    BY <1>0
  <2>2. IsSpliced(x, V, s, i, a, n)
    BY <2>1, SplicedIs
  <2> QED
    BY <2>2 DEF IsSpliced
<1>2. /\ y \in Seq(V) /\ Len(y) = Len(s) - b + Len(m)
      /\ \A k \in 1..(j - 1) : y[k] = s[k]
      /\ \A k \in j..(j + Len(m) - 1) : y[k] = m[k - j + 1]
      /\ \A k \in (j + Len(m))..(Len(s) - b + Len(m)) : y[k] = s[k - Len(m) + b]
  <2>1. IsSpliced(y, V, s, j, b, m)
    BY SplicedIs
  <2> QED
    BY <2>1 DEF IsSpliced
<1> HIDE DEF x, y
<1>l. Len(x) = Len(s) - a + Len(n) /\ Len(y) = Len(s) - b + Len(m)
  BY <1>1, <1>2
<1>3. /\ v \in Seq(V) /\ Len(v) = Len(x) - b + Len(m)
      /\ \A k \in 1..(h - 1) : v[k] = x[k]
      /\ \A k \in h..(h + Len(m) - 1) : v[k] = m[k - h + 1]
      /\ \A k \in (h + Len(m))..(Len(x) - b + Len(m)) : v[k] = x[k - Len(m) + b]
  <2>1. h \in Nat \ {0} /\ h + b <= Len(x) + 1
    BY <1>0, <1>1
  <2> HIDE DEF h
  <2>2. IsSpliced(v, V, x, h, b, m)
    BY <1>1, <2>1, SplicedIs
  <2> QED
    BY <2>2 DEF IsSpliced
<1>4. /\ w \in Seq(V) /\ Len(w) = Len(y) - a + Len(n)
      /\ \A k \in 1..(i - 1) : w[k] = y[k]
      /\ \A k \in i..(i + Len(n) - 1) : w[k] = n[k - i + 1]
      /\ \A k \in (i + Len(n))..(Len(y) - a + Len(n)) : w[k] = y[k - Len(n) + a]
  <2>1. i + a <= Len(y) + 1
    BY <1>0, <1>2
  <2>2. IsSpliced(w, V, y, i, a, n)
    BY <1>2, <2>1, SplicedIs
  <2> QED
    BY <2>2 DEF IsSpliced
<1> HIDE DEF v, w
<1>5. Len(v) = N /\ Len(w) = N /\ N \in Nat
  BY <1>0, <1>1, <1>2, <1>3, <1>4
<1>6. ASSUME NEW k \in 1..N PROVE v[k] = w[k]
  <2>0. k \in Int /\ 1 <= k /\ k <= Len(s) - a - b + Len(n) + Len(m)
    BY <1>0
  <2>1. CASE k <= i - 1
    <3>1. k \in 1..(h - 1) /\ k \in 1..(i - 1) /\ k \in 1..(j - 1)
      BY <1>0, <2>1
    <3>2. v[k] = s[k]
      BY <1>1, <1>3, <3>1
    <3> QED
      BY <1>2, <1>4, <3>1, <3>2
  <2>2. CASE k \in i..(i + Len(n) - 1)
    <3>1. k \in 1..(h - 1)
      BY <1>0, <2>2
    <3>2. v[k] = n[k - i + 1]
      BY <1>1, <1>3, <2>2, <3>1
    <3> QED
      BY <1>4, <2>2, <3>2
  <2>3. CASE k \in (i + Len(n))..(h - 1)
    <3>1. /\ k \in 1..(h - 1) /\ k \in (i + Len(n))..(Len(s) - a + Len(n))
          /\ k \in (i + Len(n))..(Len(y) - a + Len(n)) /\ k - Len(n) + a \in 1..(j - 1)
      BY SMTT(20), <1>0, <1>l, <2>0, <2>3
    <3>2. v[k] = x[k]
      BY <1>3, <3>1
    <3>3. x[k] = s[k - Len(n) + a]
      BY <1>1, <3>1
    <3>4. w[k] = y[k - Len(n) + a]
      BY <1>4, <3>1
    <3>5. y[k - Len(n) + a] = s[k - Len(n) + a]
      BY <1>2, <3>1
    <3> QED
      BY <3>2, <3>3, <3>4, <3>5
  <2>4. CASE k \in h..(h + Len(m) - 1)
    <3>1. /\ k \in (i + Len(n))..(Len(y) - a + Len(n))
          /\ k - Len(n) + a \in j..(j + Len(m) - 1)
          /\ (k - Len(n) + a) - j + 1 = k - h + 1
      BY <1>0, <1>l, <2>0, <2>4
    <3>2. v[k] = m[k - h + 1]
      BY <1>3, <2>4
    <3>3. w[k] = y[k - Len(n) + a]
      BY <1>4, <3>1
    <3>4. y[k - Len(n) + a] = m[(k - Len(n) + a) - j + 1]
      BY <1>2, <3>1
    <3> QED
      BY <3>1, <3>2, <3>3, <3>4
  <2>5. CASE k >= h + Len(m)
    <3>1. /\ k \in (h + Len(m))..(Len(x) - b + Len(m))
          /\ k - Len(m) + b \in (i + Len(n))..(Len(s) - a + Len(n))
          /\ k \in (i + Len(n))..(Len(y) - a + Len(n))
          /\ k - Len(n) + a \in (j + Len(m))..(Len(s) - b + Len(m))
          /\ (k - Len(n) + a) - Len(m) + b = (k - Len(m) + b) - Len(n) + a
      BY <1>0, <1>l, <2>0, <2>5
    <3>2. v[k] = x[k - Len(m) + b]
      BY <1>3, <3>1
    <3>3. x[k - Len(m) + b] = s[(k - Len(m) + b) - Len(n) + a]
      BY <1>1, <3>1
    <3>4. w[k] = y[k - Len(n) + a]
      BY <1>4, <3>1
    <3>5. y[k - Len(n) + a] = s[(k - Len(n) + a) - Len(m) + b]
      BY <1>2, <3>1
    <3> QED
      BY <3>1, <3>2, <3>3, <3>4, <3>5
  <2>6. \/ k <= i - 1 \/ k \in i..(i + Len(n) - 1) \/ k \in (i + Len(n))..(h - 1)
        \/ k \in h..(h + Len(m) - 1) \/ k >= h + Len(m)
    BY <1>0
  <2> QED
    BY <2>1, <2>2, <2>3, <2>4, <2>5, <2>6
<1> HIDE DEF N
<1>7. v = w
  BY <1>3, <1>4, <1>5, <1>6, SeqEqual
<1> QED
  BY <1>7 DEF v, w, x, y

LEMMA IsAtIs ==
  ASSUME NEW V, NEW s \in Seq(V), NEW o \in Seq(V), NEW i \in Nat \ {0}
  PROVE  File!IsAt(s, i, o) <=> At(s, i, o)
<1>0. Len(s) \in Nat /\ Len(o) \in Nat
  OBVIOUS
<1>1. SUFFICES ASSUME i + Len(o) <= Len(s) + 1
               PROVE  SubSeq(s, i, i + Len(o) - 1) = o <=> \A k \in 1..Len(o) : s[i + k - 1] = o[k]
  BY DEF File!IsAt, At
<1> DEFINE p == SubSeq(s, i, i + Len(o) - 1)
<1>2. /\ p \in Seq(V) /\ Len(p) = Len(o) /\ \A k \in 1..Len(o) : p[k] = s[i + k - 1]
  <2>1. i + Len(o) - 1 \in Nat /\ i + Len(o) - 1 <= Len(s) /\ i <= i + Len(o) - 1 + 1
        /\ i + Len(o) - 1 - i + 1 = Len(o)
    BY <1>0, <1>1
  <2> QED
    BY <2>1, PartIs
<1> HIDE DEF p
<1>3. ASSUME \A k \in 1..Len(o) : s[i + k - 1] = o[k] PROVE p = o
  BY <1>2, <1>3, SeqEqual
<1>4. ASSUME p = o PROVE \A k \in 1..Len(o) : s[i + k - 1] = o[k]
  BY <1>2, <1>4
<1> QED
  BY <1>3, <1>4 DEF p

LEMMA AtIsWithin ==
  ASSUME NEW V, NEW s \in Seq(V), NEW o \in Seq(V) \ {<<>>}, NEW i \in Nat \ {0}, At(s, i, o)
  PROVE  i \in 1..Len(s)
<1>1. Len(s) \in Nat /\ Len(o) \in Nat \ {0}
  BY EmptySeq
<1> QED
  BY <1>1 DEF At

LEMMA ContainsIs ==
  ASSUME NEW V, NEW s \in Seq(V), NEW o \in Seq(V) \ {<<>>}
  PROVE  File!Contains(s, o) <=> \E i \in Nat \ {0} : At(s, i, o)
<1>0. Len(s) \in Nat /\ Len(o) \in Nat \ {0}
  BY EmptySeq
<1>1. ASSUME NEW i \in 1..(Len(s) + 1) PROVE File!IsAt(s, i, o) <=> At(s, i, o)
  <2>1. i \in Nat \ {0} /\ o \in Seq(V)
    BY <1>0
  <2> QED
    BY <2>1, IsAtIs
<1>2. ASSUME NEW i \in Nat \ {0}, At(s, i, o) PROVE i \in 1..(Len(s) + 1)
  BY <1>0, <1>2 DEF At
<1>3. \A i \in 1..(Len(s) + 1) : i \in Nat \ {0}
  BY <1>0
<1> QED
  BY <1>1, <1>2, <1>3 DEF File!Contains

\* What occurs in a text has a first place there, and replacing it splices.
LEMMA FirstExists ==
  ASSUME NEW V, NEW s \in Seq(V), NEW o \in Seq(V) \ {<<>>}, File!Contains(s, o)
  PROVE  \E i \in Nat : First(s, i, o)
<1> DEFINE S == {k \in Nat : k # 0 /\ At(s, k, o)}
<1>1. S # {}
  BY ContainsIs
<1>2. S \in SUBSET Nat
  OBVIOUS
<1> HIDE DEF S
<1>3. PICK i \in S : \A j \in S : i <= j
  BY <1>1, <1>2, Least
<1>4. i \in Nat \ {0} /\ At(s, i, o)
  BY <1>3 DEF S
<1>5. i \in 1..Len(s)
  BY <1>4, AtIsWithin
<1>6. ASSUME NEW k \in 1..(i - 1) PROVE ~ At(s, k, o)
  <2>0. i \in Nat
    BY <1>4
  <2>1. k \in Nat /\ k # 0 /\ ~ (i <= k)
    BY <2>0
  <2> QED
    BY <1>3, <2>1 DEF S
<1> QED
  BY <1>4, <1>5, <1>6 DEF First

LEMMA ReplacedFirst ==
  ASSUME NEW V, NEW s \in Seq(V), NEW e, e.old \in Seq(V) \ {<<>>}, NEW i, First(s, i, e.old)
  PROVE  File!ReplaceFirst(s, e) = Spliced(s, i, Len(e.old), e.new)
<1>0. Len(s) \in Nat
  OBVIOUS
<1> DEFINE S == {k \in 1..Len(s) : File!IsAt(s, k, e.old)}
<1>1. \A k \in 1..Len(s) : File!IsAt(s, k, e.old) <=> At(s, k, e.old)
  <2>1. \A k \in 1..Len(s) : k \in Nat \ {0}
    BY <1>0
  <2>2. e.old \in Seq(V)
    OBVIOUS
  <2> QED
    BY <2>1, <2>2, IsAtIs
<1>2. i \in S /\ \A k \in S : i <= k
  <2>1. i \in 1..Len(s) /\ At(s, i, e.old) /\ \A k \in 1..(i - 1) : ~ At(s, k, e.old)
    BY DEF First
  <2>2. \A k \in 1..Len(s) : k \in 1..(i - 1) \/ i <= k
    BY <1>0, <2>1
  <2> QED
    BY <1>1, <2>1, <2>2
<1>3. S \subseteq Nat
  BY <1>0
<1> HIDE DEF S
<1>4. File!Min(S) = i
  <2> DEFINE c == CHOOSE q \in S : \A y \in S : q <= y
  <2>1. c \in S /\ \A y \in S : c <= y
    BY <1>2
  <2> HIDE DEF c
  <2>2. c = i
    BY <1>2, <1>3, <2>1
  <2> QED
    BY <2>2 DEF c, File!Min
<1> QED
  BY <1>4 DEF S, File!ReplaceFirst, Spliced

\* Both edits find their place, whichever of them is first, with one result.
Swap(s, e, f) ==
  /\ File!Contains(File!ReplaceFirst(s, e), f.old)
  /\ File!Contains(File!ReplaceFirst(s, f), e.old)
  /\ File!ReplaceFirst(File!ReplaceFirst(s, e), f) =
       File!ReplaceFirst(File!ReplaceFirst(s, f), e)

\* In s, the a characters from i on, for n, and the b from j on, for m, do not overlap.
Apart(V, s, i, a, n, j, b, m) ==
  /\ s \in Seq(V) /\ n \in Seq(V) /\ m \in Seq(V) /\ i \in Nat \ {0} /\ j \in Nat \ {0}
  /\ a \in Nat /\ b \in Nat /\ i + a <= j /\ j + b <= Len(s) + 1

LEMMA ApartEither ==
  ASSUME NEW V, NEW s, NEW i, NEW a, NEW n, NEW j, NEW b, NEW m,
         Apart(V, s, i, a, n, j, b, m)
  PROVE  Spliced(Spliced(s, i, a, n), j - a + Len(n), b, m) =
         Spliced(Spliced(s, j, b, m), i, a, n)
  BY EitherOrder DEF Apart

LEMMA Swapped ==
  ASSUME NEW V, NEW s \in Seq(V), NEW e, NEW f,
         e.old \in Seq(V) \ {<<>>}, f.old \in Seq(V) \ {<<>>},
         e.new \in Seq(V) \ {<<>>}, f.new \in Seq(V) \ {<<>>},
         Foreign(e.old, f.old), Foreign(e.new, f.old), Foreign(f.new, e.old),
         NEW i, NEW j, First(s, i, e.old), First(s, j, f.old), i < j
  PROVE  Swap(s, e, f)
<1> DEFINE a == Len(e.old)
           b == Len(f.old)
           n == e.new
           m == f.new
           x == Spliced(s, i, a, n)
           y == Spliced(s, j, b, m)
           h == j - a + Len(n)
<1>0. Len(s) \in Nat /\ a \in Nat \ {0} /\ b \in Nat \ {0} /\ Len(n) \in Nat \ {0}
      /\ Len(m) \in Nat \ {0}
  BY EmptySeq
<1>1. /\ i \in 1..Len(s) /\ At(s, i, e.old) /\ \A k \in 1..(i - 1) : ~ At(s, k, e.old)
      /\ j \in 1..Len(s) /\ At(s, j, f.old) /\ \A k \in 1..(j - 1) : ~ At(s, k, f.old)
  BY DEF First
<1>2. i + a <= Len(s) + 1 /\ j + b <= Len(s) + 1
  BY <1>1 DEF At
<1>3. i + a <= j
  <2> SUFFICES ASSUME j < i + a PROVE FALSE
    BY <1>0, <1>1
  <2>1. j - i + 1 \in 1..a /\ i + (j - i + 1) - 1 = j /\ 1 \in 1..b /\ j + 1 - 1 = j
    BY <1>0, <1>1
  <2>2. s[j] = e.old[j - i + 1] /\ s[j] = f.old[1]
    BY <1>1, <2>1 DEF At
  <2> QED
    BY <2>1, <2>2 DEF Foreign
<1>4. i \in Nat \ {0} /\ j \in Nat \ {0} /\ a \in Nat /\ b \in Nat /\ h \in Nat \ {0}
  <2>1. i \in Nat \ {0} /\ j \in Nat \ {0}
    BY <1>0, <1>1
  <2> HIDE DEF a, b, n
  <2> QED
    BY <1>0, <1>3, <2>1
<1>5. x \in Seq(V) /\ y \in Seq(V)
  <2>1. IsSpliced(x, V, s, i, a, n) /\ IsSpliced(y, V, s, j, b, m)
    BY <1>2, <1>4, SplicedIs
  <2> QED
    BY <2>1 DEF IsSpliced
<1>6. ASSUME NEW k \in Nat \ {0}
      PROVE  At(x, k, f.old) <=> \/ k + b <= i /\ At(s, k, f.old)
                                 \/ k >= i + Len(n) /\ At(s, k - Len(n) + a, f.old)
  BY <1>2, <1>4, Occurrences
<1>7. ASSUME NEW k \in Nat \ {0}
      PROVE  At(y, k, e.old) <=> \/ k + a <= j /\ At(s, k, e.old)
                                 \/ k >= j + Len(m) /\ At(s, k - Len(m) + b, e.old)
  BY <1>2, <1>4, Occurrences
<1>10. File!ReplaceFirst(s, e) = x /\ File!ReplaceFirst(s, f) = y
  BY ReplacedFirst
<1>14. n \in Seq(V) /\ m \in Seq(V)
  OBVIOUS
<1> HIDE DEF a, b, n, m
<1>7a. h >= i + Len(n) /\ h - Len(n) + a = j
  <2>1. i \in Nat /\ j \in Nat /\ a \in Nat /\ Len(n) \in Nat
    BY <1>0, <1>4
  <2> QED
    BY <1>3, <2>1
<1>12. Spliced(x, h, b, m) = Spliced(y, i, a, n)
  <2>1. Apart(V, s, i, a, n, j, b, m)
    BY <1>2, <1>3, <1>4, <1>14 DEF Apart
  <2> QED
    BY <2>1, ApartEither
<1> HIDE DEF x, y
<1>8. First(x, h, f.old)
  <2>1. At(x, h, f.old)
    <3> HIDE DEF h
    <3> QED
      BY <1>1, <1>4, <1>6, <1>7a
  <2>2. h \in 1..Len(x)
    BY <1>4, <1>5, <2>1, AtIsWithin
  <2>3. ASSUME NEW k \in 1..(h - 1) PROVE ~ At(x, k, f.old)
    <3>1. k \in Nat \ {0}
      BY <1>4
    <3>2. k + b <= i => k \in 1..(j - 1)
      BY <1>0, <1>3, <1>4, <3>1
    <3>3. k >= i + Len(n) => k - Len(n) + a \in 1..(j - 1)
      BY <1>0, <1>3, <1>4, <3>1
    <3>4. At(x, k, f.old) <=> \/ k + b <= i /\ At(s, k, f.old)
                              \/ k >= i + Len(n) /\ At(s, k - Len(n) + a, f.old)
      BY <1>6, <3>1
    <3> QED
      BY <1>1, <3>2, <3>3, <3>4
  <2> QED
    BY <2>1, <2>2, <2>3 DEF First
<1>9. First(y, i, e.old)
  <2>1. At(y, i, e.old)
    BY <1>1, <1>3, <1>4, <1>7
  <2>2. i \in 1..Len(y)
    BY <1>4, <1>5, <2>1, AtIsWithin
  <2>3. ASSUME NEW k \in 1..(i - 1) PROVE ~ At(y, k, e.old)
    <3>1. k \in Nat \ {0} /\ ~ (k >= j + Len(m))
      BY <1>0, <1>1
    <3> QED
      BY <1>1, <1>7, <3>1
  <2> QED
    BY <2>1, <2>2, <2>3 DEF First
<1>11. File!ReplaceFirst(x, f) = Spliced(x, h, b, m) /\ File!ReplaceFirst(y, e) = Spliced(y, i, a, n)
  BY <1>5, <1>8, <1>9, ReplacedFirst DEF a, b, n, m
<1>13. File!Contains(x, f.old) /\ File!Contains(y, e.old)
  <2>1. At(x, h, f.old) /\ At(y, i, e.old)
    BY <1>8, <1>9 DEF First
  <2> QED
    BY <1>4, <1>5, <2>1, ContainsIs
<1> HIDE DEF h
<1> QED
  BY <1>10, <1>11, <1>12, <1>13 DEF Swap

Scans(V) == [skip : Nat, times : Nat, out : Seq(V)]

\* Of the first k characters of s: none, or some, or only one has o from it on.
NoneYet(s, o, k, w) == w.times = 0 => w.skip = 0 /\ \A j \in 1..k : ~ At(s, j, o)

SomeYet(s, o, k, w) == w.times > 0 => \E i \in 1..k : First(s, i, o)

OneYet(s, o, k, w) ==
  w.times = 1 => \E i \in 1..k :
                    /\ First(s, i, o) /\ \A j \in (i + Len(o))..k : ~ At(s, j, o)
                    /\ w.skip = IF k < i + Len(o) THEN i + Len(o) - 1 - k ELSE 0

\* The last r characters of the result are those of s, none of which begins o,
\* and the one before them is from n.
Copied(s, o, n, k, out, r) ==
  /\ r \in 0..k /\ r <= Len(out)
  /\ \A m \in 0..(r - 1) : out[Len(out) - m] = s[k - m] /\ ~ At(s, k - m, o)
  /\ r < Len(out) => \E b \in 1..Len(n) : out[Len(out) - r] = n[b]

Cleaned(s, o, n, k, w) ==
  /\ w.times > 0 => \E c \in Nat \ {0} : At(w.out, c, n)
  /\ \A c \in Nat \ {0} : ~ At(w.out, c, o)
  /\ \E r : Copied(s, o, n, k, w.out, r) /\ (w.skip > 0 => r = 0)

Scanning(V, s, o, n, k, w) ==
  /\ w \in Scans(V)
  /\ NoneYet(s, o, k, w) /\ SomeYet(s, o, k, w) /\ OneYet(s, o, k, w)
  /\ n # <<>> /\ Foreign(n, o) => Cleaned(s, o, n, k, w)

LEMMA ScanSkips ==
  ASSUME NEW V, NEW s \in Seq(V), NEW o \in Seq(V) \ {<<>>}, NEW n \in Seq(V),
         NEW k \in 1..Len(s), NEW w, Scanning(V, s, o, n, k - 1, w), w.skip > 0
  PROVE  Scanning(V, s, o, n, k, [w EXCEPT !.skip = @ - 1])
<1> DEFINE y == [w EXCEPT !.skip = @ - 1]
<1>0. Len(s) \in Nat /\ Len(o) \in Nat \ {0}
  BY EmptySeq
<1>1. /\ w \in Scans(V)
      /\ NoneYet(s, o, k - 1, w) /\ SomeYet(s, o, k - 1, w) /\ OneYet(s, o, k - 1, w)
      /\ n # <<>> /\ Foreign(n, o) => Cleaned(s, o, n, k - 1, w)
  BY DEF Scanning
<1>2. /\ y \in Scans(V) /\ y.times = w.times /\ y.out = w.out /\ y.skip = w.skip - 1
  <2>1. w.skip - 1 \in Nat
    BY <1>1 DEF Scans
  <2> QED
    BY <1>1, <2>1 DEF Scans
<1> HIDE DEF y
<1>3. w.times \in Nat \ {0} /\ w.skip \in Nat /\ Len(w.out) \in Nat
  BY <1>1 DEF NoneYet, Scans
<1>4. NoneYet(s, o, k, y)
  BY <1>2, <1>3 DEF NoneYet
<1>5. SomeYet(s, o, k, y)
  <2>1. \A i \in 1..(k - 1) : i \in 1..k
    BY <1>0
  <2> QED
    BY <1>1, <1>2, <2>1 DEF SomeYet
<1>6. OneYet(s, o, k, y)
  <2>1. SUFFICES ASSUME w.times = 1
                 PROVE  \E i \in 1..k :
                    /\ First(s, i, o) /\ \A j \in (i + Len(o))..k : ~ At(s, j, o)
                    /\ y.skip = IF k < i + Len(o) THEN i + Len(o) - 1 - k ELSE 0
    BY <1>2 DEF OneYet
  <2>2. PICK i \in 1..(k - 1) :
           /\ First(s, i, o)
           /\ w.skip = IF k - 1 < i + Len(o) THEN i + Len(o) - 1 - (k - 1) ELSE 0
    BY <1>1, <2>1 DEF OneYet
  <2>3. i \in 1..k /\ k < i + Len(o) /\ y.skip = i + Len(o) - 1 - k
    BY <1>0, <1>2, <1>3, <2>2
  <2>4. \A j \in (i + Len(o))..k : FALSE
    BY <1>0, <2>3
  <2> QED
    BY <2>2, <2>3, <2>4
<1>7. ASSUME n # <<>>, Foreign(n, o) PROVE Cleaned(s, o, n, k, y)
  <2>1. Cleaned(s, o, n, k - 1, w)
    BY <1>1, <1>7
  <2>2. PICK r : Copied(s, o, n, k - 1, w.out, r) /\ (w.skip > 0 => r = 0)
    BY <2>1 DEF Cleaned
  <2>3. Copied(s, o, n, k, y.out, 0)
    <3>1. 0 \in 0..k /\ 0 <= Len(y.out) /\ \A m \in 0..(0 - 1) : FALSE
      BY <1>0, <1>2, <1>3
    <3>2. 0 < Len(w.out) => \E b \in 1..Len(n) : w.out[Len(w.out) - 0] = n[b]
      BY <2>2 DEF Copied
    <3> QED
      BY <1>2, <3>1, <3>2 DEF Copied
  <2> QED
    BY <1>2, <2>1, <2>3 DEF Cleaned
<1> QED
  BY <1>2, <1>4, <1>5, <1>6, <1>7 DEF y, Scanning

LEMMA ScanFinds ==
  ASSUME NEW V, NEW s \in Seq(V), NEW o \in Seq(V) \ {<<>>}, NEW n \in Seq(V),
         NEW k \in 1..Len(s), NEW w, Scanning(V, s, o, n, k - 1, w), w.skip = 0, At(s, k, o)
  PROVE  Scanning(V, s, o, n, k,
                  [skip |-> Len(o) - 1, times |-> w.times + 1, out |-> w.out \o n])
<1> DEFINE z == w.out \o n
           y == [skip |-> Len(o) - 1, times |-> w.times + 1, out |-> z]
<1>0. Len(s) \in Nat /\ Len(o) \in Nat \ {0} /\ Len(n) \in Nat
  BY EmptySeq
<1>1. /\ w \in Scans(V)
      /\ NoneYet(s, o, k - 1, w) /\ SomeYet(s, o, k - 1, w) /\ OneYet(s, o, k - 1, w)
      /\ n # <<>> /\ Foreign(n, o) => Cleaned(s, o, n, k - 1, w)
  BY DEF Scanning
<1>3. w.times \in Nat /\ w.out \in Seq(V) /\ Len(w.out) \in Nat
  BY <1>1 DEF Scans
<1>c. IsConcat(z, V, w.out, n)
  BY <1>3, ConcatIs
<1> HIDE DEF z
<1>2. /\ y \in Scans(V) /\ y.times = w.times + 1 /\ y.out = z /\ y.skip = Len(o) - 1
  BY <1>0, <1>3, <1>c DEF Scans, IsConcat
<1> HIDE DEF y
<1>4. NoneYet(s, o, k, y)
  BY <1>2, <1>3 DEF NoneYet
<1>k. w.times = 0 => k \in 1..k /\ First(s, k, o)
  <2>1. k \in 1..k
    BY <1>0
  <2> QED
    BY <1>1, <2>1 DEF NoneYet, First
<1>5. SomeYet(s, o, k, y)
  <2>1. \A i \in 1..(k - 1) : i \in 1..k
    BY <1>0
  <2>2. w.times = 0 \/ w.times > 0
    BY <1>3
  <2> QED
    BY <1>1, <1>k, <2>1, <2>2 DEF SomeYet
<1>6. OneYet(s, o, k, y)
  <2>1. SUFFICES ASSUME w.times = 0
                 PROVE  \E i \in 1..k :
                    /\ First(s, i, o) /\ \A j \in (i + Len(o))..k : ~ At(s, j, o)
                    /\ y.skip = IF k < i + Len(o) THEN i + Len(o) - 1 - k ELSE 0
    BY <1>2, <1>3 DEF OneYet
  <2>2. k < k + Len(o) /\ k + Len(o) - 1 - k = Len(o) - 1
    BY <1>0
  <2>3. \A j \in (k + Len(o))..k : FALSE
    BY <1>0
  <2> QED
    BY <1>2, <1>k, <2>1, <2>2, <2>3
<1>7. ASSUME n # <<>>, Foreign(n, o) PROVE Cleaned(s, o, n, k, y)
  <2>1. Cleaned(s, o, n, k - 1, w)
    BY <1>1, <1>7
  <2>0. Len(n) \in Nat \ {0}
    BY <1>7, EmptySeq
  <2>2. /\ z \in Seq(V) /\ Len(z) = Len(w.out) + Len(n)
        /\ \A c \in 1..Len(w.out) : z[c] = w.out[c]
        /\ \A c \in (Len(w.out) + 1)..(Len(w.out) + Len(n)) : z[c] = n[c - Len(w.out)]
    BY <1>c DEF IsConcat
  <2>n. Len(w.out) \in Nat /\ Len(z) = Len(w.out) + Len(n)
    BY <1>3, <2>2
  <2>3. At(z, Len(w.out) + 1, n)
    <3>1. ASSUME NEW c \in 1..Len(n)
          PROVE  /\ Len(w.out) + 1 + c - 1 \in (Len(w.out) + 1)..(Len(w.out) + Len(n))
                 /\ (Len(w.out) + 1 + c - 1) - Len(w.out) = c
      <4>1. c \in Nat /\ 1 <= c /\ c <= Len(n)
        BY <2>0
      <4> QED
        BY <2>0, <2>n, <4>1
    <3>2. \A c \in 1..Len(n) : z[Len(w.out) + 1 + c - 1] = n[c]
      BY ZenonT(20), <2>2, <3>1
    <3>3. Len(w.out) + 1 + Len(n) <= Len(z) + 1
      BY <2>0, <2>n
    <3> QED
      BY <3>2, <3>3 DEF At
  <2>4. ASSUME NEW c \in Nat \ {0}, At(z, c, o) PROVE FALSE
    <3>1. CASE c + Len(o) <= Len(w.out) + 1
      <4>1. \A q \in 1..Len(o) : c + q - 1 \in 1..Len(w.out)
        BY <1>0, <1>3, <3>1
      <4>2. At(w.out, c, o)
        BY <2>2, <2>4, <3>1, <4>1 DEF At
      <4> QED
        BY <2>1, <4>2 DEF Cleaned
    <3>2. CASE ~ (c + Len(o) <= Len(w.out) + 1)
      <4>1. c + Len(o) <= Len(z) + 1 /\ Len(o) \in 1..Len(o) /\ z[c + Len(o) - 1] = o[Len(o)]
        <5>1. Len(o) \in 1..Len(o)
          BY <1>0
        <5> QED
          BY <2>4, <5>1 DEF At
      <4>2. /\ c + Len(o) - 1 \in (Len(w.out) + 1)..(Len(w.out) + Len(n))
            /\ (c + Len(o) - 1) - Len(w.out) \in 1..Len(n)
        <5>1. c + Len(o) <= Len(z) + 1
          BY <4>1
        <5> QED
          BY <1>0, <2>0, <2>n, <3>2, <5>1
      <4>3. z[c + Len(o) - 1] = n[(c + Len(o) - 1) - Len(w.out)]
        BY <2>2, <4>2
      <4> QED
        BY <1>7, <4>1, <4>2, <4>3 DEF Foreign
    <3> QED
      BY <3>1, <3>2
  <2>5. Copied(s, o, n, k, z, 0)
    <3>1. 0 \in 0..k /\ 0 <= Len(z) /\ \A m \in 0..(0 - 1) : FALSE
      BY <1>0, <1>3, <2>2
    <3>2. /\ Len(z) - 0 \in (Len(w.out) + 1)..(Len(w.out) + Len(n))
          /\ (Len(z) - 0) - Len(w.out) \in 1..Len(n)
      BY <2>0, <2>n
    <3> QED
      BY <2>2, <3>1, <3>2 DEF Copied
  <2>6. Len(w.out) + 1 \in Nat \ {0}
    BY <1>3
  <2> QED
    BY <1>2, <2>3, <2>4, <2>5, <2>6 DEF Cleaned
<1> QED
  BY <1>2, <1>4, <1>5, <1>6, <1>7 DEF y, z, Scanning

\* Counted from the end, a place of a text that has grown by one character.
LEMMA OneLonger ==
  ASSUME NEW l \in Nat, NEW m \in Nat, NEW r \in Nat, NEW k \in Nat, m # 0, m <= r, r <= l
  PROVE  /\ m - 1 \in 0..(r - 1) /\ k - 1 - (m - 1) = k - m
         /\ l - (m - 1) = (l + 1) - m /\ (l + 1) - m \in 1..l
  OBVIOUS

LEMMA ScanCopies ==
  ASSUME NEW V, NEW s \in Seq(V), NEW o \in Seq(V) \ {<<>>}, NEW n \in Seq(V),
         NEW k \in 1..Len(s), NEW w, Scanning(V, s, o, n, k - 1, w), w.skip = 0, ~ At(s, k, o)
  PROVE  Scanning(V, s, o, n, k, [w EXCEPT !.out = Append(@, s[k])])
<1> DEFINE z == Append(w.out, s[k])
           y == [w EXCEPT !.out = z]
<1>0. Len(s) \in Nat /\ Len(o) \in Nat \ {0} /\ Len(n) \in Nat /\ s[k] \in V
  BY EmptySeq
<1>1. /\ w \in Scans(V)
      /\ NoneYet(s, o, k - 1, w) /\ SomeYet(s, o, k - 1, w) /\ OneYet(s, o, k - 1, w)
      /\ n # <<>> /\ Foreign(n, o) => Cleaned(s, o, n, k - 1, w)
  BY DEF Scanning
<1>3. w.times \in Nat /\ w.out \in Seq(V) /\ Len(w.out) \in Nat
  BY <1>1 DEF Scans
<1>c. /\ z \in Seq(V) /\ Len(z) = Len(w.out) + 1 /\ z[Len(w.out) + 1] = s[k]
      /\ \A c \in 1..Len(w.out) : z[c] = w.out[c]
  BY <1>0, <1>3, AppendProperties
<1> HIDE DEF z
<1>2. /\ y \in Scans(V) /\ y.times = w.times /\ y.out = z /\ y.skip = 0
  BY <1>1, <1>c DEF Scans
<1> HIDE DEF y
<1>n. Len(z) = Len(w.out) + 1 /\ Len(z) \in Nat
  BY <1>3, <1>c
<1>s. \A j \in 1..k : j \in 1..(k - 1) \/ j = k
  BY <1>0
<1>4. NoneYet(s, o, k, y)
  BY <1>1, <1>2, <1>s DEF NoneYet
<1>5. SomeYet(s, o, k, y)
  <2>1. \A i \in 1..(k - 1) : i \in 1..k
    BY <1>0
  <2> QED
    BY <1>1, <1>2, <2>1 DEF SomeYet
<1>6. OneYet(s, o, k, y)
  <2>1. SUFFICES ASSUME w.times = 1
                 PROVE  \E i \in 1..k :
                    /\ First(s, i, o) /\ \A j \in (i + Len(o))..k : ~ At(s, j, o)
                    /\ y.skip = IF k < i + Len(o) THEN i + Len(o) - 1 - k ELSE 0
    BY <1>2 DEF OneYet
  <2>2. PICK i \in 1..(k - 1) :
           /\ First(s, i, o) /\ \A j \in (i + Len(o))..(k - 1) : ~ At(s, j, o)
           /\ w.skip = IF k - 1 < i + Len(o) THEN i + Len(o) - 1 - (k - 1) ELSE 0
    BY <1>1, <2>1 DEF OneYet
  <2>3. i \in 1..k /\ ~ (k < i + Len(o))
    BY <1>0, <2>2
  <2>4. \A j \in (i + Len(o))..k : j \in (i + Len(o))..(k - 1) \/ j = k
    BY <1>0, <2>3
  <2> QED
    BY <1>2, <2>2, <2>3, <2>4
<1>7. ASSUME n # <<>>, Foreign(n, o) PROVE Cleaned(s, o, n, k, y)
  <2>0. Len(n) \in Nat \ {0}
    BY <1>7, EmptySeq
  <2>1. Cleaned(s, o, n, k - 1, w)
    BY <1>1, <1>7
  <2>2. PICK r : Copied(s, o, n, k - 1, w.out, r)
    BY <2>1 DEF Cleaned
  <2>3. /\ r \in 0..(k - 1) /\ r <= Len(w.out)
        /\ \A m \in 0..(r - 1) : w.out[Len(w.out) - m] = s[k - 1 - m] /\ ~ At(s, k - 1 - m, o)
        /\ r < Len(w.out) => \E b \in 1..Len(n) : w.out[Len(w.out) - r] = n[b]
    BY <2>2 DEF Copied
  <2>n. r \in Nat /\ r <= k - 1 /\ r <= Len(w.out)
    BY <1>0, <2>3
  <2>4. ASSUME NEW m \in 0..r PROVE z[Len(z) - m] = s[k - m] /\ ~ At(s, k - m, o)
    <3>1. CASE m = 0
      BY <1>0, <1>3, <1>c, <3>1
    <3>2. CASE m # 0
      <4>1. /\ m - 1 \in 0..(r - 1) /\ k - 1 - (m - 1) = k - m
            /\ Len(w.out) - (m - 1) = Len(z) - m /\ Len(z) - m \in 1..Len(w.out)
        <5>1. m \in Nat /\ m <= r /\ k \in Nat /\ Len(w.out) \in Nat
          BY <1>0, <1>3, <2>n
        <5>2. Len(z) = Len(w.out) + 1
          BY <1>n
        <5>3. m # 0 /\ m <= r /\ r <= Len(w.out) /\ r \in Nat
          BY <2>n, <3>2, <5>1
        <5>4. /\ m - 1 \in 0..(r - 1) /\ k - 1 - (m - 1) = k - m
              /\ Len(w.out) - (m - 1) = (Len(w.out) + 1) - m
              /\ (Len(w.out) + 1) - m \in 1..Len(w.out)
          BY <5>1, <5>3, OneLonger
        <5> QED
          BY <5>2, <5>4
      <4>2. z[Len(z) - m] = w.out[Len(z) - m]
        BY <1>c, <4>1
      <4>3. /\ w.out[Len(w.out) - (m - 1)] = s[k - 1 - (m - 1)]
            /\ ~ At(s, k - 1 - (m - 1), o)
        BY <2>3, <4>1
      <4>4. w.out[Len(z) - m] = s[k - m] /\ ~ At(s, k - m, o)
        BY Zenon, <4>1, <4>3
      <4> QED
        BY <4>2, <4>4
    <3> QED
      BY <3>1, <3>2
  <2>5. r < Len(w.out) => \E b \in 1..Len(n) : z[Len(z) - (r + 1)] = n[b]
    <3>1. r < Len(w.out) => /\ Len(z) - (r + 1) = Len(w.out) - r
                            /\ Len(w.out) - r \in 1..Len(w.out)
      <4>1. Len(w.out) \in Nat
        BY <1>3
      <4> QED
        BY <1>n, <2>n, <4>1
    <3> QED
      BY <1>c, <2>3, <3>1
  <2>6. Copied(s, o, n, k, z, r + 1)
    <3>1. /\ r + 1 \in 0..k /\ r + 1 <= Len(z) /\ (r + 1) - 1 = r
          /\ r + 1 < Len(z) => r < Len(w.out)
      <4>1. Len(w.out) \in Nat /\ k \in Nat
        BY <1>0, <1>3
      <4> QED
        BY <1>n, <2>n, <4>1
    <3> QED
      BY <2>4, <2>5, <3>1 DEF Copied
  <2>7. ASSUME NEW c \in Nat \ {0}, At(w.out, c, n) PROVE At(z, c, n)
    <3>1. c + Len(n) <= Len(w.out) + 1 /\ \A q \in 1..Len(n) : w.out[c + q - 1] = n[q]
      BY <2>7 DEF At
    <3>2. \A q \in 1..Len(n) : c + q - 1 \in 1..Len(w.out)
      BY <1>3, <2>0, <3>1
    <3>3. c + Len(n) <= Len(z) + 1
      BY <1>3, <1>c, <2>0, <3>1
    <3> QED
      BY <1>c, <3>1, <3>2, <3>3 DEF At
  <2>8. ASSUME NEW c \in Nat \ {0}, At(z, c, o) PROVE FALSE
    <3>0. c + Len(o) <= Len(z) + 1 /\ \A q \in 1..Len(o) : z[c + q - 1] = o[q]
      BY <2>8 DEF At
    <3>n. c + Len(o) <= Len(z) + 1
      BY <3>0
    <3>1. CASE c + Len(o) <= Len(w.out) + 1
      <4>1. \A q \in 1..Len(o) : c + q - 1 \in 1..Len(w.out)
        BY <1>0, <1>3, <3>1
      <4>2. At(w.out, c, o)
        BY <1>c, <3>0, <3>1, <4>1 DEF At
      <4> QED
        BY <2>1, <4>2 DEF Cleaned
    <3>2. CASE ~ (c + Len(o) <= Len(w.out) + 1)
      <4>1. c + Len(o) = Len(z) + 1
        <5>1. \A a, b \in Nat : a <= b + 1 /\ ~ (a <= b) => a = b + 1
          OBVIOUS
        <5>2. c + Len(o) \in Nat /\ Len(w.out) + 1 \in Nat
          BY <1>0, <1>3
        <5>3. c + Len(o) <= (Len(w.out) + 1) + 1
          BY <1>n, <3>n
        <5> HIDE DEF z
        <5>4. c + Len(o) = (Len(w.out) + 1) + 1
          BY <3>2, <5>1, <5>2, <5>3
        <5> QED
          BY <1>n, <5>4
      <4>2. CASE Len(o) <= r + 1
        <5>1. Len(o) - 1 \in 0..r
          BY <1>0, <2>3, <4>2
        <5>2. k - (Len(o) - 1) + Len(o) <= Len(s) + 1
          BY <1>0
        <5>3. ASSUME NEW q \in 1..Len(o) PROVE s[k - (Len(o) - 1) + q - 1] = o[q]
          <6>1. /\ Len(o) - q \in 0..r /\ Len(z) - (Len(o) - q) = c + q - 1
                /\ k - (Len(o) - q) = k - (Len(o) - 1) + q - 1
            <7>1. k \in Int /\ q \in Nat /\ q >= 1 /\ q <= Len(o)
              BY <1>0
            <7>2. Len(z) = c + Len(o) - 1
              BY <1>0, <1>n, <4>1
            <7> QED
              BY <1>0, <2>n, <4>2, <7>1, <7>2
          <6>2. z[Len(z) - (Len(o) - q)] = s[k - (Len(o) - q)]
            BY <2>4, <6>1
          <6> QED
            BY <3>0, <6>1, <6>2
        <5>4. At(s, k - (Len(o) - 1), o)
          BY <5>2, <5>3 DEF At
        <5> QED
          BY <2>4, <5>1, <5>4
      <4>3. CASE ~ (Len(o) <= r + 1)
        <5>1. /\ r < Len(w.out) /\ Len(z) - (r + 1) = c + (Len(o) - 1 - r) - 1
              /\ Len(o) - 1 - r \in 1..Len(o)
          BY SMTT(20), <1>0, <1>3, <1>n, <2>n, <4>1, <4>3
        <5>2. PICK b \in 1..Len(n) : z[Len(z) - (r + 1)] = n[b]
          BY <2>5, <5>1
        <5>3. z[c + (Len(o) - 1 - r) - 1] = o[Len(o) - 1 - r]
          BY <3>0, <5>1
        <5> QED
          BY <1>7, <5>1, <5>2, <5>3 DEF Foreign
      <4> QED
        BY <4>2, <4>3
    <3> QED
      BY <3>1, <3>2
  <2> QED
    BY <1>2, <2>1, <2>6, <2>7, <2>8 DEF Cleaned
<1> QED
  BY <1>2, <1>4, <1>5, <1>6, <1>7 DEF y, z, Scanning

LEMMA LookIs ==
  ASSUME NEW V, NEW s \in Seq(V), NEW e, e.old \in Seq(V) \ {<<>>}, e.new \in Seq(V),
         NEW k \in 1..Len(s), NEW w \in Scans(V)
  PROVE  /\ File!Look(s, e, k, w) \in Scans(V)
         /\ Scanning(V, s, e.old, e.new, k - 1, w) =>
              Scanning(V, s, e.old, e.new, k, File!Look(s, e, k, w))
<1> DEFINE l == File!Look(s, e, k, w)
<1>0. Len(s) \in Nat /\ Len(e.old) \in Nat \ {0} /\ k \in Nat \ {0} /\ s[k] \in V
  BY EmptySeq
<1>1. File!IsAt(s, k, e.old) <=> At(s, k, e.old)
  <2>1. e.old \in Seq(V)
    OBVIOUS
  <2> QED
    BY <1>0, <2>1, IsAtIs
<1>2. w.skip \in Nat /\ w.times \in Nat /\ w.out \in Seq(V)
  BY DEF Scans
<1>3. CASE w.skip > 0
  <2>1. l = [w EXCEPT !.skip = @ - 1]
    BY <1>3 DEF File!Look
  <2>2. w.skip - 1 \in Nat
    BY <1>2, <1>3
  <2>3. l \in Scans(V)
    BY <2>1, <2>2 DEF Scans
  <2> HIDE DEF l
  <2> QED
    BY <1>3, <2>1, <2>3, ScanSkips DEF l
<1>4. CASE w.skip = 0 /\ At(s, k, e.old)
  <2>1. l = [skip |-> Len(e.old) - 1, times |-> w.times + 1, out |-> w.out \o e.new]
    <3>1. ~ (w.skip > 0)
      BY <1>4
    <3> QED
      BY <1>1, <1>4, <3>1 DEF File!Look
  <2>2. Len(e.old) - 1 \in Nat /\ w.times + 1 \in Nat /\ w.out \o e.new \in Seq(V)
    BY <1>0, <1>2
  <2>3. l \in Scans(V)
    BY <2>1, <2>2 DEF Scans
  <2> HIDE DEF l
  <2> QED
    BY ZenonT(20), <1>4, <2>1, <2>3, ScanFinds DEF l
<1>5. CASE w.skip = 0 /\ ~ At(s, k, e.old)
  <2>1. l = [w EXCEPT !.out = Append(@, s[k])]
    <3>1. ~ (w.skip > 0)
      BY <1>5
    <3> QED
      BY <1>1, <1>5, <3>1 DEF File!Look
  <2>2. Append(w.out, s[k]) \in Seq(V)
    BY <1>0, <1>2
  <2>3. l \in Scans(V)
    BY <2>1, <2>2 DEF Scans
  <2>4. ASSUME Scanning(V, s, e.old, e.new, k - 1, w)
        PROVE  Scanning(V, s, e.old, e.new, k, [w EXCEPT !.out = Append(@, s[k])])
    BY <1>5, <2>4, ScanCopies
  <2> HIDE DEF l
  <2> QED
    BY <2>1, <2>3, <2>4 DEF l
<1>6. w.skip > 0 \/ w.skip = 0
  BY <1>2
<1> HIDE DEF l
<1> QED
  BY <1>3, <1>4, <1>5, <1>6

LEMMA ScannedIs ==
  ASSUME NEW V, NEW s \in Seq(V), NEW e, e.old \in Seq(V) \ {<<>>}, e.new \in Seq(V)
  PROVE  Scanning(V, s, e.old, e.new, Len(s), File!Scanned(s, e))
<1> DEFINE N == Len(s)
           v == [skip |-> 0, times |-> 0, out |-> <<>>]
           Body(u) == [i \in 0..N |-> IF i = 0 THEN v ELSE File!Look(s, e, i, u[i - 1])]
           U == CHOOSE u : u = Body(u)
           step == [k \in 1..N |-> [w \in Scans(V) |-> File!Look(s, e, k, w)]]
<1>1. File!Scanned(s, e) = U[N]
  BY DEF File!Scanned
<1>2. N \in Nat
  OBVIOUS
<1>3. v \in Scans(V)
  BY DEF Scans
<1>4. step \in [1..N -> [Scans(V) -> Scans(V)]]
  BY LookIs
<1>v. /\ v.skip = 0 /\ v.times = 0 /\ v.out = <<>>
  OBVIOUS
<1> HIDE DEF step, N, v
<1>5. PICK g : IsRecursion(g, N, Scans(V), v, step)
  BY <1>2, <1>3, <1>4, Recursion
<1>6. g \in [0..N -> Scans(V)] /\ g[0] = v /\ \A k \in 1..N : g[k] = File!Look(s, e, k, g[k - 1])
  <2>1. g \in [0..N -> Scans(V)] /\ g[0] = v /\ \A k \in 1..N : g[k] = step[k][g[k - 1]]
    BY <1>5 DEF IsRecursion
  <2>2. \A k \in 1..N : g[k - 1] \in Scans(V)
    BY <1>2, <2>1
  <2> QED
    BY <2>1, <2>2 DEF step
<1>7. \A k \in 0..N : g[k] = Body(g)[k]
  <2>1. \A k \in 0..N : k = 0 \/ k \in 1..N
    BY <1>2
  <2> QED
    BY <1>6, <2>1
<1>8. g = Body(g)
  BY <1>6, <1>7
<1>9. U = Body(U)
  <2> HIDE DEF Body
  <2> QED
    BY <1>8
<1>10. U[N] = g[N]
  <2> HIDE DEF U
  <2>1. 0 \in 0..N /\ \A k \in 1..N : k \in 0..N /\ k # 0
    BY <1>2
  <2>2. U[0] = g[0]
    <3>1. Body(U)[0] = Body(g)[0]
      BY <2>1
    <3> HIDE DEF Body
    <3> QED
      BY <1>8, <1>9, <3>1
  <2>3. ASSUME NEW k \in 1..N, U[k - 1] = g[k - 1]
        PROVE  U[k] = g[k]
    <3>1. Body(U)[k] = Body(g)[k]
      BY <2>1, <2>3
    <3> HIDE DEF Body
    <3> QED
      BY <1>8, <1>9, <3>1
  <2> HIDE DEF Body
  <2> QED
    BY <1>2, <2>2, <2>3, SameScan
<1> HIDE DEF U, Body
<1> DEFINE Good == {k \in 0..N : Scanning(V, s, e.old, e.new, k, g[k])}
<1>11. 0 \in Good
  <2>1. \A c \in Nat \ {0} : ~ At(<<>>, c, e.old)
    <3>1. Len(<<>>) = 0 /\ Len(e.old) \in Nat \ {0}
      BY EmptySeq
    <3> QED
      BY <3>1 DEF At
  <2>2. Copied(s, e.old, e.new, 0, <<>>, 0)
    BY DEF Copied
  <2>3. Cleaned(s, e.old, e.new, 0, v)
    BY <1>v, <2>1, <2>2 DEF Cleaned
  <2>4. Scanning(V, s, e.old, e.new, 0, v)
    BY <1>3, <1>v, <2>3 DEF Scanning, NoneYet, SomeYet, OneYet
  <2> QED
    BY <1>2, <1>6, <2>4
<1>12. ASSUME NEW k \in 0..(N - 1), k \in Good PROVE k + 1 \in Good
  <2>1. k + 1 \in 1..Len(s) /\ k + 1 - 1 = k /\ k + 1 \in 0..N /\ k \in 0..N
    BY <1>2 DEF N
  <2>2. g[k] \in Scans(V) /\ g[k + 1] = File!Look(s, e, k + 1, g[k])
    BY <1>6, <2>1 DEF N
  <2>3. Scanning(V, s, e.old, e.new, k, g[k])
    BY <1>12
  <2>4. Scanning(V, s, e.old, e.new, k + 1, g[k + 1])
    BY <2>1, <2>2, <2>3, LookIs
  <2> QED
    BY <2>1, <2>4
<1>13. \A k \in 0..(N - 1) : k \in Good => k + 1 \in Good
  BY <1>12
<1> HIDE DEF Good
<1>14. N \in Good
  <2>1. \A k \in 0..N : k \in Good
    BY <1>2, <1>11, <1>13, Induction
  <2> QED
    BY <1>2, <2>1
<1> QED
  BY <1>1, <1>10, <1>14 DEF Good, N

LEMMA CountIs ==
  ASSUME NEW V, NEW s \in Seq(V), NEW e, e.old \in Seq(V) \ {<<>>}, e.new \in Seq(V)
  PROVE  /\ File!Count(s, e) \in Nat /\ File!ReplaceAll(s, e) \in Seq(V)
         /\ File!Count(s, e) = 0 <=> \A i \in Nat \ {0} : ~ At(s, i, e.old)
<1> DEFINE w == File!Scanned(s, e)
<1>1. /\ w \in Scans(V)
      /\ w.times = 0 => \A j \in 1..Len(s) : ~ At(s, j, e.old)
      /\ w.times > 0 => \E i \in 1..Len(s) : First(s, i, e.old)
  <2>1. Scanning(V, s, e.old, e.new, Len(s), w)
    BY ScannedIs
  <2> HIDE DEF w
  <2> QED
    BY <2>1 DEF Scanning, NoneYet, SomeYet
<1>2. File!Count(s, e) = w.times /\ File!ReplaceAll(s, e) = w.out
  BY DEF File!Count, File!ReplaceAll
<1> HIDE DEF w
<1>3. w.times \in Nat /\ w.out \in Seq(V)
  BY <1>1 DEF Scans
<1>4. ASSUME NEW i \in Nat \ {0}, At(s, i, e.old) PROVE i \in 1..Len(s)
  BY <1>4, AtIsWithin
<1>5. ASSUME w.times > 0 PROVE \E i \in Nat \ {0} : At(s, i, e.old)
  <2>1. PICK i \in 1..Len(s) : First(s, i, e.old)
    BY <1>1, <1>5
  <2>2. i \in Nat \ {0}
    OBVIOUS
  <2> QED
    BY <2>1, <2>2 DEF First
<1>6. w.times = 0 \/ w.times > 0
  BY <1>3
<1> QED
  BY <1>1, <1>2, <1>3, <1>4, <1>5, <1>6

\* When something has no character of what it replaces, nothing is left of that.
LEMMA AllReplaced ==
  ASSUME NEW V, NEW s \in Seq(V), NEW e, e.old \in Seq(V) \ {<<>>},
         e.new \in Seq(V) \ {<<>>}, Foreign(e.new, e.old), File!Count(s, e) > 0
  PROVE  LET r == File!ReplaceAll(s, e)
         IN  File!Count(r, e) = 0 /\ File!Contains(r, e.new)
<1> DEFINE w == File!Scanned(s, e)
           r == File!ReplaceAll(s, e)
<1>0. e.new \in Seq(V)
  OBVIOUS
<1>1. Cleaned(s, e.old, e.new, Len(s), w)
  <2>1. Scanning(V, s, e.old, e.new, Len(s), w)
    BY <1>0, ScannedIs
  <2> HIDE DEF w
  <2> QED
    BY <2>1 DEF Scanning
<1>2. w.times > 0 /\ r = w.out
  BY DEF File!Count, File!ReplaceAll
<1> HIDE DEF w
<1>3. r \in Seq(V)
  BY <1>0, CountIs
<1> HIDE DEF r
<1>4. /\ \E c \in Nat \ {0} : At(r, c, e.new)
      /\ \A c \in Nat \ {0} : ~ At(r, c, e.old)
  BY <1>1, <1>2 DEF Cleaned
<1>5. File!Count(r, e) = 0
  <2>1. File!Count(r, e) = 0 <=> \A c \in Nat \ {0} : ~ At(r, c, e.old)
    BY <1>0, <1>3, CountIs
  <2> QED
    BY <1>4, <2>1
<1>6. File!Contains(r, e.new)
  BY <1>3, <1>4, ContainsIs
<1> QED
  BY <1>5, <1>6 DEF r

LEMMA ReplacedIs ==
  ASSUME NEW V, NEW s \in Seq(V), NEW e, e.old \in Seq(V) \ {<<>>}, e.new \in Seq(V),
         NEW i, First(s, i, e.old)
  PROVE  /\ File!ReplaceFirst(s, e) \in Seq(V)
         /\ e.new # <<>> => File!Contains(File!ReplaceFirst(s, e), e.new)
<1> DEFINE r == Spliced(s, i, Len(e.old), e.new)
<1>0. Len(s) \in Nat /\ Len(e.old) \in Nat \ {0} /\ Len(e.new) \in Nat
  BY EmptySeq
<1>1. i \in Nat \ {0} /\ i + Len(e.old) <= Len(s) + 1
  BY <1>0 DEF First, At
<1>2. IsSpliced(r, V, s, i, Len(e.old), e.new)
  BY <1>0, <1>1, SplicedIs
<1>3. File!ReplaceFirst(s, e) = r
  BY ReplacedFirst
<1> HIDE DEF r
<1>4. /\ r \in Seq(V) /\ Len(r) = Len(s) - Len(e.old) + Len(e.new)
      /\ \A k \in i..(i + Len(e.new) - 1) : r[k] = e.new[k - i + 1]
  BY <1>2 DEF IsSpliced
<1>5. At(r, i, e.new)
  <2>1. i + Len(e.new) <= Len(r) + 1
    <3>1. \A a, b, c, d \in Nat : a + b <= c + 1 => a + d <= c - b + d + 1
      OBVIOUS
    <3>2. i \in Nat /\ Len(e.old) \in Nat
      BY <1>0, <1>1
    <3>3. i + Len(e.new) <= Len(s) - Len(e.old) + Len(e.new) + 1
      BY <1>0, <1>1, <3>1, <3>2
    <3> QED
      BY <1>4, <3>3
  <2>2. \A k \in 1..Len(e.new) : i + k - 1 \in i..(i + Len(e.new) - 1) /\ (i + k - 1) - i + 1 = k
    BY <1>0, <1>1
  <2> QED
    BY <1>4, <2>1, <2>2 DEF At
<1>6. ASSUME e.new # <<>> PROVE File!Contains(r, e.new)
  <2>1. e.new \in Seq(V) \ {<<>>}
    BY <1>6
  <2> QED
    BY <1>1, <1>4, <1>5, <2>1, ContainsIs
<1> QED
  BY <1>3, <1>4, <1>6

LEMMA OneReplaced ==
  ASSUME NEW V, NEW s \in Seq(V), NEW e, e.old \in Seq(V) \ {<<>>}, e.new \in Seq(V),
         File!Count(s, e) = 1
  PROVE  LET r == File!ReplaceFirst(s, e)
         IN  /\ r \in Seq(V)
             /\ e.new # <<>> /\ Foreign(e.new, e.old) =>
                  File!Count(r, e) = 0 /\ File!Contains(r, e.new)
<1> DEFINE w == File!Scanned(s, e)
           r == File!ReplaceFirst(s, e)
           l == Len(e.old)
           n == e.new
<1>0. Len(s) \in Nat /\ l \in Nat \ {0} /\ Len(n) \in Nat
  BY EmptySeq
<1>1. OneYet(s, e.old, Len(s), w)
  <2>1. Scanning(V, s, e.old, e.new, Len(s), w)
    BY ScannedIs
  <2> HIDE DEF w
  <2> QED
    BY <2>1 DEF Scanning
<1>2. w.times = 1
  BY DEF File!Count
<1> HIDE DEF w
<1>3. PICK i \in 1..Len(s) :
         First(s, i, e.old) /\ \A j \in (i + l)..Len(s) : ~ At(s, j, e.old)
  BY <1>1, <1>2 DEF OneYet
<1>4. r \in Seq(V) /\ (n # <<>> => File!Contains(r, n))
  BY <1>3, ReplacedIs
<1>5. r = Spliced(s, i, l, n)
  BY <1>3, ReplacedFirst
<1>6. i \in Nat \ {0} /\ i + l <= Len(s) + 1 /\ \A k \in 1..(i - 1) : ~ At(s, k, e.old)
  BY <1>0, <1>3 DEF First, At
<1> HIDE DEF r
<1>7. ASSUME n # <<>>, Foreign(n, e.old), NEW k \in Nat \ {0}, At(r, k, e.old) PROVE FALSE
  <2>1. n \in Seq(V) \ {<<>>} /\ l \in Nat
    BY <1>0, <1>7
  <2>2. \/ k + l <= i /\ At(s, k, e.old)
        \/ k >= i + Len(n) /\ At(s, k - Len(n) + l, e.old)
    BY <1>5, <1>6, <1>7, <2>1, Occurrences
  <2> HIDE DEF l, n
  <2>3. CASE k + l <= i /\ At(s, k, e.old)
    <3>1. k \in 1..(i - 1)
      BY <1>0, <1>6, <2>3
    <3> QED
      BY <1>6, <2>3, <3>1
  <2>4. CASE k >= i + Len(n) /\ At(s, k - Len(n) + l, e.old)
    <3> DEFINE j == k - Len(n) + l
    <3>1. j \in Nat \ {0} /\ j >= i + l
      BY <1>0, <1>6, <2>4
    <3> HIDE DEF j
    <3>2. j \in 1..Len(s)
      BY <2>4, <3>1, AtIsWithin DEF j
    <3>3. j \in (i + l)..Len(s)
      BY <1>0, <1>6, <3>1, <3>2
    <3> QED
      BY <1>3, <2>4, <3>3 DEF j
  <2> QED
    BY <2>2, <2>3, <2>4
<1>8. n # <<>> /\ Foreign(n, e.old) => File!Count(r, e) = 0
  BY <1>4, <1>7, CountIs
<1> QED
  BY <1>4, <1>8 DEF r

\* A text with a piece before every character and at the end is a text.
LEMMA WovenIs ==
  ASSUME NEW V, NEW s \in Seq(V), NEW n \in Seq(V)
  PROVE  File!Woven(s, n) \in Seq(V)
<1> DEFINE N == Len(s)
           Body(u) == [i \in 0..N |-> IF i = 0 THEN n ELSE Append(u[i - 1], s[i]) \o n]
           U == CHOOSE u : u = Body(u)
           step == [k \in 1..N |-> [w \in Seq(V) |-> Append(w, s[k]) \o n]]
<1>1. File!Woven(s, n) = U[N]
  BY DEF File!Woven
<1>2. N \in Nat /\ \A k \in 1..N : s[k] \in V
  OBVIOUS
<1>3. step \in [1..N -> [Seq(V) -> Seq(V)]]
  <2>1. ASSUME NEW k \in 1..N, NEW w \in Seq(V) PROVE Append(w, s[k]) \o n \in Seq(V)
    <3>1. s[k] \in V
      BY <1>2
    <3>2. Append(w, s[k]) \in Seq(V)
      BY <3>1
    <3> QED
      BY <3>2
  <2> QED
    BY <2>1
<1> HIDE DEF step, N
<1>4. PICK g : IsRecursion(g, N, Seq(V), n, step)
  BY <1>2, <1>3, Recursion
<1>5. /\ g \in [0..N -> Seq(V)] /\ g[0] = n
      /\ \A k \in 1..N : g[k] = Append(g[k - 1], s[k]) \o n
  <2>1. g \in [0..N -> Seq(V)] /\ g[0] = n /\ \A k \in 1..N : g[k] = step[k][g[k - 1]]
    BY <1>4 DEF IsRecursion
  <2>2. \A k \in 1..N : g[k - 1] \in Seq(V)
    BY <1>2, <2>1
  <2> QED
    BY <2>1, <2>2 DEF step
<1>6. \A k \in 0..N : g[k] = Body(g)[k]
  <2>1. \A k \in 0..N : k = 0 \/ k \in 1..N
    BY <1>2
  <2> QED
    BY <1>5, <2>1
<1>7. g = Body(g)
  BY <1>5, <1>6
<1>8. U = Body(U)
  <2> HIDE DEF Body
  <2> QED
    BY <1>7
<1>9. U[N] = g[N]
  <2> HIDE DEF U
  <2>1. 0 \in 0..N /\ \A k \in 1..N : k \in 0..N /\ k # 0
    BY <1>2
  <2>2. U[0] = g[0]
    <3>1. Body(U)[0] = Body(g)[0]
      BY <2>1
    <3> HIDE DEF Body
    <3> QED
      BY <1>7, <1>8, <3>1
  <2>3. ASSUME NEW k \in 1..N, U[k - 1] = g[k - 1]
        PROVE  U[k] = g[k]
    <3>1. Body(U)[k] = Body(g)[k]
      BY <2>1, <2>3
    <3> HIDE DEF Body
    <3> QED
      BY <1>7, <1>8, <3>1
  <2> HIDE DEF Body
  <2> QED
    BY <1>2, <2>2, <2>3, SameScan
<1> HIDE DEF U, Body
<1>10. g[N] \in Seq(V)
  BY <1>2, <1>5
<1> QED
  BY <1>1, <1>9, <1>10

\* What is counted and what replacing makes of a text, whatever the edit.
LEMMA EditTypes ==
  ASSUME NEW V, NEW s \in Seq(V), NEW e, e.old \in Seq(V), e.new \in Seq(V)
  PROVE  /\ File!Count(s, e) \in Nat /\ File!ReplaceAll(s, e) \in Seq(V)
         /\ File!Contains(s, e.old) \/ File!Count(s, e) = 1 =>
              File!ReplaceFirst(s, e) \in Seq(V)
<1>1. CASE e.old = <<>>
  <2>1. File!Count(s, e) = Len(s) + 1 /\ Len(s) + 1 \in Nat
    BY <1>1 DEF File!Count
  <2>2. File!ReplaceAll(s, e) \in Seq(V)
    BY <1>1, WovenIs DEF File!ReplaceAll
  <2>3. File!ReplaceFirst(s, e) = e.new \o s /\ e.new \o s \in Seq(V)
    BY <1>1 DEF File!ReplaceFirst
  <2> QED
    BY <2>1, <2>2, <2>3
<1>2. CASE e.old # <<>>
  <2>1. e.old \in Seq(V) \ {<<>>}
    BY <1>2
  <2>2. File!Count(s, e) \in Nat /\ File!ReplaceAll(s, e) \in Seq(V)
    BY <2>1, CountIs
  <2>3. File!Count(s, e) = 1 => File!ReplaceFirst(s, e) \in Seq(V)
    BY <2>1, OneReplaced
  <2>4. ASSUME File!Contains(s, e.old) PROVE File!ReplaceFirst(s, e) \in Seq(V)
    <3>1. PICK i \in Nat : First(s, i, e.old)
      BY <2>1, <2>4, FirstExists
    <3> QED
      BY <2>1, <3>1, ReplacedIs
  <2> QED
    BY <2>2, <2>3, <2>4
<1> QED
  BY <1>1, <1>2

\* Two edits, one after the other.
LEMMA AppliedIs ==
  ASSUME NEW s, NEW e, NEW f
  PROVE  File!Applied(s, <<e, f>>) =
           LET x == IF File!Contains(s, e.old) THEN File!ReplaceFirst(s, e) ELSE s
           IN  IF File!Contains(x, f.old) THEN File!ReplaceFirst(x, f) ELSE x
<1> DEFINE q == <<e, f>>
           Body(u) == [k \in 0..Len(q) |->
                         IF k = 0 THEN s
                         ELSE IF File!Contains(u[k - 1], q[k].old)
                              THEN File!ReplaceFirst(u[k - 1], q[k])
                         ELSE u[k - 1]]
           U == CHOOSE u : u = Body(u)
           x == IF File!Contains(s, e.old) THEN File!ReplaceFirst(s, e) ELSE s
           y == IF File!Contains(x, f.old) THEN File!ReplaceFirst(x, f) ELSE x
           g == [k \in 0..2 |-> IF k = 0 THEN s ELSE IF k = 1 THEN x ELSE y]
<1>1. Len(q) = 2 /\ q[1] = e /\ q[2] = f
  OBVIOUS
<1>2. File!Applied(s, q) = U[Len(q)]
  BY DEF File!Applied
<1> HIDE DEF q
<1>3. g[0] = s /\ g[1] = x /\ g[2] = y /\ DOMAIN g = 0..2 /\ g = [k \in 0..2 |-> g[k]]
  OBVIOUS
<1>x. x = IF File!Contains(s, e.old) THEN File!ReplaceFirst(s, e) ELSE s
  OBVIOUS
<1> HIDE DEF x
<1>y. y = IF File!Contains(x, f.old) THEN File!ReplaceFirst(x, f) ELSE x
  OBVIOUS
<1> HIDE DEF y, g
<1>4. /\ \A u : Body(u)[0] = s
      /\ \A u : Body(u)[1] = IF File!Contains(u[0], e.old) THEN File!ReplaceFirst(u[0], e) ELSE u[0]
      /\ \A u : Body(u)[2] = IF File!Contains(u[1], f.old) THEN File!ReplaceFirst(u[1], f) ELSE u[1]
      /\ \A u : Body(u) = [k \in 0..2 |-> Body(u)[k]]
  <2>1. 0 \in 0..2 /\ 1 \in 0..2 /\ 2 \in 0..2 /\ 1 # 0 /\ 2 # 0 /\ 1 - 1 = 0 /\ 2 - 1 = 1
    OBVIOUS
  <2> QED
    BY <1>1, <2>1
<1> HIDE DEF Body
<1>5. \A k \in 0..2 : g[k] = Body(g)[k]
  <2>1. \A k \in 0..2 : k = 0 \/ k = 1 \/ k = 2
    OBVIOUS
  <2> QED
    BY <1>3, <1>4, <1>x, <1>y, <2>1
<1>6. g = Body(g)
  BY <1>3, <1>4, <1>5
<1>7. U = Body(U)
  BY <1>6
<1> HIDE DEF U
<1>8. U[0] = s /\ U[1] = x /\ U[2] = y
  BY <1>4, <1>7, <1>x, <1>y
<1> QED
  BY <1>1, <1>2, <1>8 DEF q, x, y

LEMMA AppliedType ==
  ASSUME NEW V, NEW s \in Seq(V), NEW e, NEW f, e.old \in Seq(V), e.new \in Seq(V),
         f.old \in Seq(V), f.new \in Seq(V)
  PROVE  File!Applied(s, <<e, f>>) \in Seq(V)
<1> DEFINE x == IF File!Contains(s, e.old) THEN File!ReplaceFirst(s, e) ELSE s
<1>1. ASSUME NEW t \in Seq(V), NEW h, h.old \in Seq(V), h.new \in Seq(V),
             File!Contains(t, h.old)
      PROVE  File!ReplaceFirst(t, h) \in Seq(V)
  BY <1>1, EditTypes
<1>2. x \in Seq(V)
  BY <1>1
<1> HIDE DEF x
<1>3. IF File!Contains(x, f.old) THEN File!ReplaceFirst(x, f) \in Seq(V) ELSE x \in Seq(V)
  BY <1>1, <1>2
<1> QED
  BY <1>3, AppliedIs DEF x

LEMMA ApartIs ==
  ASSUME NEW a, NEW b, File!Apart(a, b)
  PROVE  Foreign(a, b) /\ Foreign(b, a)
BY DEF File!Apart, File!Chars, Foreign

LEMMA AppliedEither ==
  ASSUME NEW V, NEW s \in Seq(V), NEW e, NEW f, e.old \in Seq(V), e.new \in Seq(V),
         f.old \in Seq(V), f.new \in Seq(V), File!Independent(e, f),
         File!Contains(s, e.old), File!Contains(s, f.old)
  PROVE  File!Applied(s, <<e, f>>) = File!Applied(s, <<f, e>>)
<1> DEFINE x == File!ReplaceFirst(s, e)
           y == File!ReplaceFirst(s, f)
<1>1. /\ e.new \in Seq(V) \ {<<>>} /\ f.new \in Seq(V) \ {<<>>}
      /\ e.old \in Seq(V) \ {<<>>} /\ f.old \in Seq(V) \ {<<>>}
      /\ Foreign(e.old, f.old) /\ Foreign(f.old, e.old)
      /\ Foreign(e.new, f.old) /\ Foreign(f.new, e.old)
  BY ApartIs DEF File!Independent
<1>2. PICK i \in Nat : First(s, i, e.old)
  BY <1>1, FirstExists
<1>3. PICK j \in Nat : First(s, j, f.old)
  BY <1>1, FirstExists
<1>4. i # j
  <2> SUFFICES ASSUME i = j PROVE FALSE
    OBVIOUS
  <2>1. 1 \in 1..Len(e.old) /\ 1 \in 1..Len(f.old) /\ i + 1 - 1 = i
    <3>1. Len(e.old) \in Nat \ {0} /\ Len(f.old) \in Nat \ {0}
      BY <1>1, EmptySeq
    <3> QED
      BY <3>1
  <2>2. s[i] = e.old[1] /\ s[i] = f.old[1]
    BY <1>2, <1>3, <2>1 DEF First, At
  <2> QED
    BY <1>1, <2>1, <2>2 DEF Foreign
<1>5. /\ File!Contains(x, f.old) /\ File!Contains(y, e.old)
      /\ File!ReplaceFirst(x, f) = File!ReplaceFirst(y, e)
  <2>1. CASE i < j
    <3>1. Swap(s, e, f)
      BY <1>1, <1>2, <1>3, <2>1, Swapped
    <3> QED
      BY <3>1 DEF Swap
  <2>2. CASE j < i
    <3>1. Swap(s, f, e)
      BY <1>1, <1>2, <1>3, <2>2, Swapped
    <3> QED
      BY <3>1 DEF Swap
  <2> QED
    BY <1>4, <2>1, <2>2
<1>6. /\ File!Applied(s, <<e, f>>) = File!ReplaceFirst(x, f)
      /\ File!Applied(s, <<f, e>>) = File!ReplaceFirst(y, e)
  <2> HIDE DEF x, y
  <2>1. x = IF File!Contains(s, e.old) THEN File!ReplaceFirst(s, e) ELSE s
    BY DEF x
  <2>2. y = IF File!Contains(s, f.old) THEN File!ReplaceFirst(s, f) ELSE s
    BY DEF y
  <2> QED
    BY <1>5, <2>1, <2>2, AppliedIs
<1> QED
  BY <1>5, <1>6

\* An edit that does nothing more once it is done: neither text is empty, and
\* the new one has nothing of the old.
IsRepeatable(e) == <<>> \notin {e.old, e.new} /\ File!Apart(e.old, e.new)

FileTyped == v1 \in [Paths -> Seq(Characters) \cup {Nothing}]

\* After an edit of that kind that succeeded the old text is nowhere in the
\* file, and the new one somewhere.
EditStands ==
  v3.tool = "edit" /\ v3.answer = "ok" =>
    LET p == v3.args[1]  e == v3.args[2] IN
    /\ v1[p] # Nothing
    /\ IsRepeatable(e) => File!Count(v1[p], e) = 0 /\ File!Contains(v1[p], e.new)

FileInv == FileTyped /\ EditStands /\ File!AnswersHold

LEMMA FileConstants ==
  /\ FileTexts \subseteq Seq(Characters) /\ Pieces \subseteq Seq(Characters)
  /\ Nothing \notin Seq(Characters) /\ EndOfLine \in Characters /\ Lines \subseteq Nat
  /\ \A e \in FileEdits : e.old \in Seq(Characters) /\ e.new \in Seq(Characters)
BY ServicesAssumption DEF File!FileAssumption

LEMMA FileInit == File!Init => FileInv
<1> SUFFICES ASSUME File!Init PROVE FileInv
  OBVIOUS
<1>1. FileTyped
  BY FileConstants DEF File!Init, FileTyped
<1>2. v3.tool = "none" /\ v3.answer = "none"
  BY DEF File!Init, File!NoCall
<1>3. EditStands
  BY <1>2 DEF EditStands
<1>4. File!AnswersHold
  BY <1>2 DEF File!AnswersHold
<1> QED
  BY <1>1, <1>3, <1>4 DEF FileInv

LEMMA AnswerIs ==
  ASSUME NEW tool, NEW args, NEW a, File!Answer(tool, args, a)
  PROVE  /\ v3'.tool = tool /\ v3'.args = args /\ v3'.answer = a /\ v3'.before = v1
         /\ v4' = "ok" => v3.tool = tool /\ v3.args = args /\ v3.answer = "ok"
BY DEF File!Answer

LEMMA FileDone ==
  ASSUME FileTyped, NEW p \in Paths, NEW text \in Seq(Characters) \cup {Nothing},
         v1' = [v1 EXCEPT ![p] = text]
  PROVE  /\ FileTyped' /\ v1'[p] = text
         /\ \A q \in Paths \ {p} : v1'[q] = v1[q]
BY DEF FileTyped

\* A write leaves the text, or, when it fails, some text, and no other file
\* changes.
LEMMA WrittenIs ==
  ASSUME FileTyped, NEW tool, NEW args, NEW p \in Paths, NEW text \in Seq(Characters),
         File!Written(tool, args, p, text)
  PROVE  /\ FileTyped'
         /\ \/ File!Answer(tool, args, "ok") /\ v1' = [v1 EXCEPT ![p] = text]
            \/ /\ File!Answer(tool, args, "failed")
               /\ \A q \in Paths \ {p} : v1'[q] = v1[q]
<1>1. CASE File!Answer(tool, args, "ok") /\ v1' = [v1 EXCEPT ![p] = text]
  BY <1>1, FileDone
<1>2. CASE /\ File!Answer(tool, args, "failed")
           /\ \E n \in 0..Len(text) : v1' = [v1 EXCEPT ![p] = SubSeq(text, 1, n)]
  <2>1. PICK n \in 0..Len(text) : v1' = [v1 EXCEPT ![p] = SubSeq(text, 1, n)]
    BY <1>2
  <2>2. n \in Nat /\ n <= Len(text) /\ 1 <= n + 1
    BY <2>1
  <2>3. SubSeq(text, 1, n) \in Seq(Characters)
    BY <2>2, PartIs
  <2> QED
    BY <1>2, <2>1, <2>3, FileDone
<1> QED
  BY <1>1, <1>2 DEF File!Written

\* An answer other than success that leaves the files alone, of a call that is
\* not one that a repeated edit must be spared.
LEMMA UnwrittenStands ==
  ASSUME FileTyped, NEW tool, NEW args, NEW a, File!Answer(tool, args, a), v1' = v1,
         a # "ok",
         tool = "edit" /\ v4' = "ok" /\ IsRepeatable(args[2]) => a \in {"already", "failed"}
  PROVE  FileInv'
<1>1. v3'.tool = tool /\ v3'.args = args /\ v3'.answer = a /\ v3'.before = v1
  BY AnswerIs
<1>2. FileTyped'
  BY DEF FileTyped
<1>3. EditStands'
  BY <1>1 DEF EditStands
<1>4. File!AnswersHold'
  BY <1>1 DEF File!AnswersHold, IsRepeatable
<1> QED
  BY <1>2, <1>3, <1>4 DEF FileInv

LEMMA FailsStands ==
  ASSUME FileTyped, NEW tool, NEW args, File!Fails(tool, args)
  PROVE  FileInv'
BY UnwrittenStands DEF File!Fails

LEMMA RefuseStands ==
  ASSUME FileTyped, NEW tool, NEW args, File!Refuse(tool, args),
         tool = "edit" /\ v4' = "ok" => ~ IsRepeatable(args[2])
  PROVE  FileInv'
BY UnwrittenStands DEF File!Refuse

\* A write that fails has changed its own file only.
LEMMA FailedStands ==
  ASSUME FileTyped', NEW tool, NEW args, NEW p \in Paths, File!Answer(tool, args, "failed"),
         \A q \in Paths \ {p} : v1'[q] = v1[q],
         p = IF tool = "move" THEN args[2] ELSE args[1],
         tool = "edit" /\ v4' = "ok" => ~ IsRepeatable(args[2])
  PROVE  FileInv'
<1>1. v3'.tool = tool /\ v3'.args = args /\ v3'.answer = "failed" /\ v3'.before = v1
  BY AnswerIs
<1>2. File!Target' = p
  BY <1>1 DEF File!Target
<1>3. EditStands'
  BY <1>1 DEF EditStands
<1>4. File!AnswersHold'
  BY <1>1, <1>2 DEF File!AnswersHold, IsRepeatable
<1> QED
  BY <1>3, <1>4 DEF FileInv

\* What the tools other than the edits answer when they succeed.
LEMMA OtherDone ==
  ASSUME FileTyped', NEW tool, NEW args, File!Answer(tool, args, "ok"),
         tool \notin {"edit", "multi_edit"}
  PROVE  FileInv'
<1>1. v3'.tool = tool /\ v3'.answer = "ok"
  BY AnswerIs
<1>2. EditStands'
  BY <1>1 DEF EditStands
<1>3. File!AnswersHold'
  BY <1>1 DEF File!AnswersHold
<1> QED
  BY <1>2, <1>3 DEF FileInv

LEMMA FileWriteStep ==
  ASSUME FileInv, NEW p \in Paths, NEW t \in Pieces, File!FileWrite(p, t)
  PROVE  FileInv'
<1> DEFINE args == <<p, t>>
<1>0. FileTyped /\ args[1] = p
  BY DEF FileInv
<1>1. CASE File!Fails("write", args)
  BY <1>0, <1>1, FailsStands
<1>2. CASE File!Written("write", args, p, t)
  <2>1. /\ FileTyped'
        /\ \/ File!Answer("write", args, "ok")
           \/ /\ File!Answer("write", args, "failed")
              /\ \A q \in Paths \ {p} : v1'[q] = v1[q]
    BY <1>0, <1>2, FileConstants, WrittenIs
  <2> HIDE DEF args
  <2> QED
    BY <1>0, <2>1, OtherDone, FailedStands
<1> QED
  BY <1>1, <1>2 DEF File!FileWrite

LEMMA FileInsertStep ==
  ASSUME FileInv, NEW p \in Paths, NEW line \in Lines, NEW piece \in Pieces,
         File!FileInsert(p, line, piece)
  PROVE  FileInv'
<1> DEFINE args == <<p, line, piece>>
           text == v1[p]
           starts == {i \in 1..Len(text) : i = 1 \/ text[i - 1] = EndOfLine}
           after == {i \in starts : File!Cardinality({k \in starts : k < i}) = line - 1}
           at == IF after = {} THEN Len(text) + 1 ELSE File!Min(after)
           closed == IF piece # <<>> /\ piece[Len(piece)] = EndOfLine THEN piece
                     ELSE Append(piece, EndOfLine)
           made == SubSeq(text, 1, at - 1) \o closed \o SubSeq(text, at, Len(text))
<1>0. FileTyped /\ (text = Nothing \/ text \in Seq(Characters)) /\ args[1] = p
  BY DEF FileInv, FileTyped
<1>1. CASE File!Refuse("insert", args) \/ File!Fails("insert", args)
  BY <1>0, <1>1, RefuseStands, FailsStands
<1>2. CASE text # Nothing /\ File!Written("insert", args, p, made)
  <2>1. text \in Seq(Characters) /\ Len(text) \in Nat
    BY <1>0, <1>2
  <2>2. closed \in Seq(Characters)
    BY FileConstants
  <2>3. at \in 1..(Len(text) + 1)
    <3>1. after \subseteq 1..Len(text)
      OBVIOUS
    <3> HIDE DEF after
    <3>2. CASE after = {}
      BY <2>1, <3>2
    <3>3. CASE after # {}
      <4>1. after \in SUBSET Nat
        BY <2>1, <3>1
      <4>2. \E i \in after : \A j \in after : i <= j
        BY <3>3, <4>1, Least
      <4>3. File!Min(after) \in after
        BY <4>2 DEF File!Min
      <4>4. at = File!Min(after)
        BY <3>3
      <4>5. File!Min(after) \in 1..Len(text)
        BY <3>1, <4>3
      <4>6. \A c \in 1..Len(text) : c \in 1..(Len(text) + 1)
        BY <2>1
      <4> HIDE DEF at
      <4> QED
        BY <4>4, <4>5, <4>6
    <3> QED
      BY <3>2, <3>3
  <2> HIDE DEF at, closed
  <2>4. made \in Seq(Characters)
    <3>1. /\ at - 1 \in Nat /\ at - 1 <= Len(text) /\ at \in Nat \ {0} /\ at <= Len(text) + 1
          /\ 1 <= at - 1 + 1
      BY <2>1, <2>3
    <3>2. SubSeq(text, 1, at - 1) \in Seq(Characters)
      BY <2>1, <3>1, PartIs
    <3>3. SubSeq(text, at, Len(text)) \in Seq(Characters)
      BY <2>1, <3>1, PartIs
    <3> QED
      BY <2>2, <3>2, <3>3
  <2> HIDE DEF made, args
  <2>5. /\ FileTyped'
        /\ \/ File!Answer("insert", args, "ok")
           \/ /\ File!Answer("insert", args, "failed")
              /\ \A q \in Paths \ {p} : v1'[q] = v1[q]
    BY <1>0, <1>2, <2>4, WrittenIs
  <2> QED
    BY <1>0, <2>5, OtherDone, FailedStands
<1>3. \/ File!Refuse("insert", args) \/ File!Fails("insert", args)
      \/ text # Nothing /\ File!Written("insert", args, p, made)
  BY DEF File!FileInsert
<1> QED
  BY <1>1, <1>2, <1>3

LEMMA FileMoveStep ==
  ASSUME FileInv, NEW p \in Paths, NEW q \in Paths, File!FileMove(p, q)
  PROVE  FileInv'
<1> DEFINE args == <<p, q>>
<1>0. FileTyped /\ args[2] = q
  BY DEF FileInv
<1>1. CASE File!Refuse("move", args) \/ File!Fails("move", args)
  BY <1>0, <1>1, RefuseStands, FailsStands
<1>2. CASE /\ File!Answer("move", args, "ok")
           /\ v1' = [[v1 EXCEPT ![p] = Nothing] EXCEPT ![q] = v1[p]]
  <2>1. FileTyped'
    BY <1>0, <1>2 DEF FileTyped
  <2> QED
    BY <1>2, <2>1, OtherDone
<1>3. CASE /\ v1[p] # Nothing /\ File!Answer("move", args, "failed")
           /\ \E n \in 0..Len(v1[p]) : v1' = [v1 EXCEPT ![q] = SubSeq(v1[p], 1, n)]
  <2>1. v1[p] \in Seq(Characters)
    BY <1>0, <1>3 DEF FileTyped
  <2>2. PICK n \in 0..Len(v1[p]) : v1' = [v1 EXCEPT ![q] = SubSeq(v1[p], 1, n)]
    BY <1>3
  <2>3. SubSeq(v1[p], 1, n) \in Seq(Characters)
    BY <2>1, <2>2, PartIs
  <2>4. FileTyped' /\ \A r \in Paths \ {q} : v1'[r] = v1[r]
    BY <1>0, <2>2, <2>3, FileDone
  <2> HIDE DEF args
  <2> QED
    BY <1>0, <1>3, <2>4, FailedStands
<1> QED
  BY <1>1, <1>2, <1>3 DEF File!FileMove

LEMMA FileDeleteStep ==
  ASSUME FileInv, NEW p \in Paths, File!FileDelete(p)
  PROVE  FileInv'
<1>0. FileTyped
  BY DEF FileInv
<1>1. CASE File!Refuse("delete", <<p>>) \/ File!Fails("delete", <<p>>)
  BY <1>0, <1>1, RefuseStands, FailsStands
<1>2. CASE File!Answer("delete", <<p>>, "ok") /\ v1' = [v1 EXCEPT ![p] = Nothing]
  BY <1>0, <1>2, FileDone, OtherDone
<1> QED
  BY <1>1, <1>2 DEF File!FileDelete

\* A repetition of an edit that succeeded finds nothing left to do.
LEMMA EditRepeats ==
  ASSUME EditStands, NEW p, NEW e, NEW all, NEW a, File!Answer("edit", <<p, e, all>>, a),
         v4' = "ok", IsRepeatable(e)
  PROVE  /\ v1[p] # Nothing
         /\ File!Count(v1[p], e) = 0 /\ File!Contains(v1[p], e.new)
<1>1. v3.tool = "edit" /\ v3.args = <<p, e, all>> /\ v3.answer = "ok"
  BY AnswerIs
<1>2. v3.args[1] = p /\ v3.args[2] = e
  BY <1>1
<1> QED
  BY <1>1, <1>2 DEF EditStands

LEMMA EditDone ==
  ASSUME FileTyped', NEW p \in Paths, NEW e, NEW all, NEW text \in Seq(Characters),
         File!Answer("edit", <<p, e, all>>, "ok"), v1'[p] = text,
         v4' = "ok" => ~ IsRepeatable(e),
         IsRepeatable(e) => File!Count(text, e) = 0 /\ File!Contains(text, e.new)
  PROVE  FileInv'
<1>1. v3'.tool = "edit" /\ v3'.args = <<p, e, all>> /\ v3'.answer = "ok"
  BY AnswerIs
<1>2. v3'.args[1] = p /\ v3'.args[2] = e
  BY <1>1
<1>3. text # Nothing
  BY FileConstants
<1>4. EditStands'
  BY <1>2, <1>3 DEF EditStands
<1>5. File!AnswersHold'
  BY <1>1, <1>2 DEF File!AnswersHold, IsRepeatable
<1> QED
  BY <1>4, <1>5 DEF FileInv

LEMMA FileEditStep ==
  ASSUME FileInv, NEW p \in Paths, NEW e \in FileEdits, NEW all \in BOOLEAN,
         File!FileEdit(p, e, all)
  PROVE  FileInv'
<1> DEFINE args == <<p, e, all>>
           n == File!Count(v1[p], e)
<1>0. FileTyped /\ EditStands /\ args[1] = p /\ args[2] = e
  BY DEF FileInv
<1>e. e.old \in Seq(Characters) /\ e.new \in Seq(Characters)
  BY FileConstants
<1>t. v1[p] # Nothing => v1[p] \in Seq(Characters)
  BY <1>0 DEF FileTyped
<1>1. v1[p] # Nothing => n \in Nat
  BY <1>e, <1>t, EditTypes
<1>2. ASSUME NEW a, File!Answer("edit", args, a), v4' = "ok", IsRepeatable(e)
      PROVE  n = 0 /\ File!Contains(v1[p], e.new) /\ v1[p] # Nothing
  BY <1>0, <1>2, EditRepeats
<1>3. IsRepeatable(e) => /\ e.old \in Seq(Characters) \ {<<>>}
                         /\ e.new \in Seq(Characters) \ {<<>>} /\ Foreign(e.new, e.old)
  BY <1>e, ApartIs DEF IsRepeatable
<1>4. ASSUME File!Fails("edit", args) PROVE FileInv'
  BY <1>0, <1>4, FailsStands
<1>5. ASSUME File!Refuse("edit", args),
             v1[p] = Nothing \/ n # 0 \/ ~ File!Contains(v1[p], e.new)
      PROVE  FileInv'
  <2>1. File!Answer("edit", args, "refused")
    BY <1>5 DEF File!Refuse
  <2>2. v4' = "ok" => ~ IsRepeatable(e)
    BY <1>2, <1>5, <2>1
  <2> HIDE DEF args
  <2> QED
    BY <1>0, <1>5, <2>2, RefuseStands
<1>6. ASSUME File!Answer("edit", args, "already"), v1' = v1 PROVE FileInv'
  BY <1>0, <1>6, UnwrittenStands
<1>7. ASSUME NEW text \in Seq(Characters), v1[p] # Nothing, n # 0,
             File!Written("edit", args, p, text),
             IsRepeatable(e) => File!Count(text, e) = 0 /\ File!Contains(text, e.new)
      PROVE  FileInv'
  <2>1. /\ FileTyped'
        /\ \/ File!Answer("edit", args, "ok") /\ v1' = [v1 EXCEPT ![p] = text]
           \/ /\ File!Answer("edit", args, "failed")
              /\ \A q \in Paths \ {p} : v1'[q] = v1[q]
    <3>1. FileTyped /\ File!Written("edit", args, p, text)
      BY <1>0, <1>7
    <3> HIDE DEF args, n
    <3> QED
      BY Zenon, <3>1, <1>7, WrittenIs
  <2>2. v4' = "ok" => ~ IsRepeatable(e)
    BY <1>2, <1>7, <2>1
  <2>3. CASE File!Answer("edit", args, "ok") /\ v1' = [v1 EXCEPT ![p] = text]
    <3>1. v1'[p] = text
      BY <1>0, <1>7, <2>3, FileDone
    <3> QED
      BY <1>7, <2>1, <2>2, <2>3, <3>1, EditDone
  <2>4. CASE File!Answer("edit", args, "failed") /\ \A q \in Paths \ {p} : v1'[q] = v1[q]
    <3> HIDE DEF args
    <3> QED
      BY <1>0, <2>1, <2>2, <2>4, FailedStands
  <2> QED
    BY <2>1, <2>3, <2>4
<1>8. ASSUME v1[p] # Nothing, n >= 1, File!Written("edit", args, p, File!ReplaceAll(v1[p], e))
      PROVE  FileInv'
  <2>1. n # 0 /\ n > 0 /\ v1[p] \in Seq(Characters)
    BY <1>1, <1>8, <1>t
  <2>2. File!ReplaceAll(v1[p], e) \in Seq(Characters)
    BY <1>e, <2>1, EditTypes
  <2>3. IsRepeatable(e) => /\ File!Count(File!ReplaceAll(v1[p], e), e) = 0
                           /\ File!Contains(File!ReplaceAll(v1[p], e), e.new)
    BY <1>3, <2>1, AllReplaced
  <2> HIDE DEF args, n
  <2> QED
    BY <1>7, <1>8, <2>1, <2>2, <2>3
<1>9. ASSUME v1[p] # Nothing, n = 1, File!Written("edit", args, p, File!ReplaceFirst(v1[p], e))
      PROVE  FileInv'
  <2>1. n # 0 /\ v1[p] \in Seq(Characters)
    BY <1>9, <1>t
  <2>2. File!ReplaceFirst(v1[p], e) \in Seq(Characters)
    BY <1>e, <1>9, <2>1, EditTypes
  <2>3. IsRepeatable(e) => /\ File!Count(File!ReplaceFirst(v1[p], e), e) = 0
                           /\ File!Contains(File!ReplaceFirst(v1[p], e), e.new)
    BY <1>3, <1>9, <2>1, OneReplaced
  <2> HIDE DEF args, n
  <2> QED
    BY <1>7, <1>9, <2>1, <2>2, <2>3
<1>10. \/ v1[p] = Nothing /\ File!Refuse("edit", args)
       \/ File!Fails("edit", args)
       \/ ~ File!Contains(v1[p], e.new) /\ File!Refuse("edit", args)
       \/ File!Answer("edit", args, "already") /\ v1' = v1
       \/ v1[p] # Nothing /\ n > 1 /\ File!Refuse("edit", args)
       \/ v1[p] # Nothing /\ n >= 1 /\ File!Written("edit", args, p, File!ReplaceAll(v1[p], e))
       \/ v1[p] # Nothing /\ n = 1 /\ File!Written("edit", args, p, File!ReplaceFirst(v1[p], e))
  BY DEF File!FileEdit
<1>11. v1[p] # Nothing /\ n > 1 => n # 0
  BY <1>1
<1> HIDE DEF n, args
<1> QED
  BY <1>4, <1>5, <1>6, <1>8, <1>9, <1>10, <1>11

LEMMA FileMultiEditStep ==
  ASSUME FileInv, NEW p \in Paths, NEW e \in FileEdits, NEW f \in FileEdits,
         File!FileMultiEdit(p, <<e, f>>)
  PROVE  FileInv'
<1> DEFINE edits == <<e, f>>
           args == <<p, edits>>
           made == File!Applied(v1[p], edits)
<1>0. FileTyped /\ args[1] = p /\ args[2] = edits /\ edits[1] = e /\ edits[2] = f
  BY DEF FileInv
<1>e. /\ e.old \in Seq(Characters) /\ e.new \in Seq(Characters)
      /\ f.old \in Seq(Characters) /\ f.new \in Seq(Characters)
  BY FileConstants
<1>1. CASE File!Refuse("multi_edit", args) \/ File!Fails("multi_edit", args)
  <2> HIDE DEF args
  <2> QED
    BY <1>0, <1>1, RefuseStands, FailsStands
<1>2. CASE /\ v1[p] # Nothing /\ \A k \in DOMAIN edits : File!Contains(v1[p], edits[k].old)
           /\ File!Written("multi_edit", args, p, made)
  <2>1. File!Contains(v1[p], e.old) /\ File!Contains(v1[p], f.old)
    <3>1. 1 \in DOMAIN edits /\ 2 \in DOMAIN edits /\ edits[1] = e /\ edits[2] = f
      OBVIOUS
    <3> HIDE DEF edits
    <3> QED
      BY <1>2, <3>1
  <2>2. v1[p] \in Seq(Characters)
    BY <1>0, <1>2 DEF FileTyped
  <2>3. made \in Seq(Characters)
    BY <1>e, <2>2, AppliedType
  <2>4. File!Independent(e, f) => made = File!Applied(v1[p], <<f, e>>)
    BY SMTT(20), <1>e, <2>1, <2>2, AppliedEither
  <2> HIDE DEF made, args, edits
  <2>5. /\ FileTyped'
        /\ \/ File!Answer("multi_edit", args, "ok") /\ v1' = [v1 EXCEPT ![p] = made]
           \/ /\ File!Answer("multi_edit", args, "failed")
              /\ \A q \in Paths \ {p} : v1'[q] = v1[q]
    <3>1. FileTyped /\ File!Written("multi_edit", args, p, made)
      BY <1>0, <1>2
    <3> QED
      BY Zenon, <3>1, <2>3, WrittenIs
  <2>6. CASE File!Answer("multi_edit", args, "ok") /\ v1' = [v1 EXCEPT ![p] = made]
    <3>1. v1'[p] = made
      BY <1>0, <2>3, <2>6, FileDone
    <3>2. /\ v3'.tool = "multi_edit" /\ v3'.answer = "ok" /\ v3'.before = v1
          /\ v3'.args = args
      BY <2>6, AnswerIs
    <3>3. v3'.args[1] = p /\ v3'.args[2][1] = e /\ v3'.args[2][2] = f
      BY <1>0, <3>2
    <3>4. EditStands'
      BY <3>2 DEF EditStands
    <3>5. File!AnswersHold'
      <4>1. LET P == v3'.args[1]  E == v3'.args[2][1]  F == v3'.args[2][2]
            IN  File!Independent(E, F) => v1'[P] = File!Applied(v3'.before[P], <<F, E>>)
        BY <2>4, <3>1, <3>2, <3>3
      <4> QED
        BY <3>2, <4>1 DEF File!AnswersHold
    <3> QED
      BY <2>5, <3>4, <3>5 DEF FileInv
  <2>7. CASE File!Answer("multi_edit", args, "failed") /\ \A q \in Paths \ {p} : v1'[q] = v1[q]
    BY <1>0, <2>5, <2>7, FailedStands
  <2> QED
    BY <2>5, <2>6, <2>7
<1> QED
  BY <1>1, <1>2 DEF File!FileMultiEdit

LEMMA FileInvStep ==
  ASSUME FileInv, [File!Next]_(File!vars)
  PROVE  FileInv'
<1>1. CASE File!Next
  <2>1. PICK p \in Paths :
           \/ \E t \in Pieces : File!FileWrite(p, t)
           \/ \E e \in FileEdits, all \in BOOLEAN : File!FileEdit(p, e, all)
           \/ \E l \in Lines, t \in Pieces : File!FileInsert(p, l, t)
           \/ \E e, f \in FileEdits : File!FileMultiEdit(p, <<e, f>>)
           \/ \E q \in Paths : File!FileMove(p, q)
           \/ File!FileDelete(p)
    BY <1>1 DEF File!Next
  <2> QED
    BY <2>1, FileWriteStep, FileEditStep, FileInsertStep, FileMultiEditStep, FileMoveStep,
       FileDeleteStep
<1>2. CASE UNCHANGED File!vars
  BY <1>2 DEF File!vars, FileInv, FileTyped, EditStands, File!AnswersHold, File!Target
<1> QED
  BY <1>1, <1>2

\* For any texts, edits (an empty old or new text among them) and calls, and
\* writes that fail anywhere: a refused call has changed nothing and a failed one
\* only its own file; an edit that is repeated after it succeeded, when neither
\* text is empty and they have no character in common, changes nothing; and a
\* multi-edit of independent edits gives the same text in either order.
THEOREM AnswersHoldHolds == Spec => []AnswersHold
<1> DEFINE Inv == part = "files" => FileInv
<1>1. Init => Inv
  BY FileInit DEF Init
<1>2. Inv /\ [Next]_vars => Inv'
  BY StepOfPart, FileInvStep
<1>3. Inv => AnswersHold
  BY DEF FileInv, AnswersHold
<1> QED
  BY <1>1, <1>2, <1>3, PTL DEF Spec
=============================================================================
