----------------------------- MODULE PlanProofs -----------------------------
(***************************************************************************)
(* Theorems about MasterPlan, for any answers of the architect and any     *)
(* workspaces: what the topological sort of the planner accepts, and where *)
(* the roots of an accepted plan are.                                      *)
(***************************************************************************)
EXTENDS Gates, FiniteSetTheorems, TLAPS

(***************************************************************************)
(* The entries of a plan                                                   *)
(***************************************************************************)
\* The shape of a compiled plan, and of one that is not yet.
PlanOK ==
  /\ IsSequence(plan)
  /\ \A p \in Elements(plan) :
       /\ IsSequence(p.deps) /\ \A l \in Layers : IsSequence(p.tests[l])
       /\ \A r \in Elements(p.write) : IsSequence(r)

\* The domain of a sequence is finite.
LEMMA SequenceDomain ==
  ASSUME NEW s, IsSequence(s)
  PROVE  /\ Len(s) \in Nat /\ DOMAIN s = 1..Len(s) /\ s = [i \in DOMAIN s |-> s[i]]
         /\ IsFiniteSet(DOMAIN s) /\ Cardinality(DOMAIN s) = Len(s)
<1>1. s \in Seq(Elements(s))
  BY DEF IsSequence
<1>2. Len(s) \in Nat /\ DOMAIN s = 1..Len(s) /\ s \in [1..Len(s) -> Elements(s)]
  BY <1>1
<1>3. s = [i \in DOMAIN s |-> s[i]]
  BY <1>2
<1>4. IsFiniteSet(1..Len(s)) /\ Cardinality(1..Len(s)) = IF 1 > Len(s) THEN 0 ELSE Len(s) - 1 + 1
  BY <1>2, FS_Interval
<1> QED
  BY <1>2, <1>3, <1>4

\* A plan has at most as many ids as phases.
LEMMA IdsFinite ==
  ASSUME PlanOK
  PROVE  IsFiniteSet(Ids) /\ Cardinality(Ids) <= Len(plan) /\ Len(plan) \in Nat
<1> DEFINE f == [i \in DOMAIN plan |-> plan[i].id]
<1>1. /\ IsFiniteSet(DOMAIN plan) /\ Cardinality(DOMAIN plan) = Len(plan) /\ Len(plan) \in Nat
  BY SequenceDomain DEF PlanOK
<1>2. f \in Surjection(DOMAIN plan, Ids)
  BY DEF Ids, Elements, Surjection
<1>3. IsFiniteSet(Ids) /\ Cardinality(Ids) <= Cardinality(DOMAIN plan)
  BY <1>1, <1>2, FS_Surjection
<1> QED
  BY <1>1, <1>3

\* A plan has finitely many dependency entries.
LEMMA EntriesFinite == ASSUME PlanOK PROVE IsFiniteSet(Entries)
<1> DEFINE D == {DOMAIN plan[i].deps : i \in DOMAIN plan}
           f == [i \in DOMAIN plan |-> DOMAIN plan[i].deps]
<1>1. IsFiniteSet(DOMAIN plan)
  BY SequenceDomain DEF PlanOK
<1>2. f \in Surjection(DOMAIN plan, D)
  BY DEF Surjection
<1>3. IsFiniteSet(D)
  BY <1>1, <1>2, FS_Surjection
<1>4. \A T \in D : IsFiniteSet(T)
  BY SequenceDomain DEF PlanOK, Elements
<1>5. IsFiniteSet(UNION D)
  BY <1>3, <1>4, FS_UNION
<1>6. IsFiniteSet((DOMAIN plan) \X UNION D)
  BY <1>1, <1>5, FS_Product
<1>7. Entries \in SUBSET ((DOMAIN plan) \X UNION D)
  BY DEF Entries
<1> QED
  BY <1>6, <1>7, FS_Subset

\* An entry of a plan leads from one id of it to another, and the first is a predecessor of the second.
LEMMA EntryEnds ==
  ASSUME NEW e \in Entries
  PROVE  From(e) \in Ids /\ To(e) \in Ids /\ From(e) \in Predecessors(To(e))
<1>1. /\ e[1] \in DOMAIN plan /\ e[2] \in DOMAIN plan[e[1]].deps
      /\ plan[e[1]].deps[e[2]] \in Ids
  BY DEF Entries
<1>2. plan[e[1]] \in Elements(plan)
  BY <1>1 DEF Elements
<1> QED
  BY <1>1, <1>2 DEF From, To, Ids, Predecessors, Elements

\* A predecessor that is in the plan has an entry.
LEMMA PredecessorEntry ==
  ASSUME NEW n, NEW m \in Predecessors(n), m \in Ids
  PROVE  \E e \in Entries : From(e) = m /\ To(e) = n
<1>1. PICK i \in DOMAIN plan : plan[i].id = n /\ m \in Elements(plan[i].deps)
  BY DEF Predecessors, Elements
<1>2. PICK k \in DOMAIN plan[i].deps : plan[i].deps[k] = m
  BY <1>1 DEF Elements
<1> DEFINE e == <<i, k>>
<1>3. e \in Entries
  BY <1>1, <1>2 DEF Entries
<1>4. From(e) = m /\ To(e) = n
  BY <1>1, <1>2 DEF From, To
<1> QED
  BY <1>3, <1>4

(***************************************************************************)
(* The sort.  What is left of a phase's entries is what no popped phase    *)
(* has taken away; the degree counts it, and a phase is queued, once, when *)
(* nothing is left.  Phases of which each waits for another of them are    *)
(* never popped.                                                           *)
(***************************************************************************)
Left(n) == {e \in Incoming(n) : From(e) \notin popped}

Circular(S) == \A n \in S : Predecessors(n) \cap S # {}

Counted ==
  /\ popped \in SUBSET Ids /\ seen = Cardinality(popped)
  /\ indegree = [n \in Ids |-> Cardinality(Left(n))]
  /\ queue = [n \in Ids |-> IF n \notin popped /\ Left(n) = {} THEN 1 ELSE 0]
  /\ \A n \in popped : Left(n) = {}
  /\ \A S \in SUBSET Ids : Circular(S) => S \cap popped = {}

\* What is left of a phase's entries is a finite set, whatever has been popped.
LEMMA LeftFinite ==
  ASSUME PlanOK, NEW n
  PROVE  IsFiniteSet(Incoming(n)) /\ IsFiniteSet(Left(n)) /\ Cardinality(Left(n)) \in Nat
         /\ (Cardinality(Left(n)) = 0 <=> Left(n) = {})
<1>1. Incoming(n) \in SUBSET Entries /\ Left(n) \in SUBSET Entries
  BY DEF Incoming, Left
<1>2. IsFiniteSet(Incoming(n)) /\ IsFiniteSet(Left(n))
  BY <1>1, EntriesFinite, FS_Subset
<1> QED
  BY <1>2, FS_CardinalityType, FS_EmptySet

\* The sort begins with nothing popped.
LEMMA CheckPlanCounted ==
  ASSUME PlanOK, CheckPlan, seen = 0, popped = {}
  PROVE  Counted'
<1>1. UNCHANGED <<plan, seen, popped>> /\ Ids' = Ids
  BY DEF CheckPlan, Ids
<1>2. \A n : Left(n)' = Incoming(n)
  BY <1>1 DEF Left, Incoming, Entries, From, To, Ids
<1>3. indegree' = [n \in Ids |-> Cardinality(Incoming(n))]
      /\ queue' = [n \in Ids |-> IF Incoming(n) = {} THEN 1 ELSE 0]
  BY DEF CheckPlan
<1> QED
  BY <1>1, <1>2, <1>3, FS_EmptySet DEF Counted

\* A phase that is popped has nothing left; what it takes away is what its entries are of the rest.
LEMMA PopTakes ==
  ASSUME PlanOK, Counted, NEW m \in Ids, PopPhase(m)
  PROVE  /\ UNCHANGED plan /\ Ids' = Ids /\ m \notin popped /\ Left(m) = {}
         /\ \A n : /\ Between(m, n) \in SUBSET Left(n)
                   /\ Left(n)' = Left(n) \ Between(m, n)
                   /\ Cardinality(Left(n)') = Cardinality(Left(n)) - Cardinality(Between(m, n))
                   /\ Cardinality(Between(m, n)) \in Nat
<1>1. UNCHANGED plan /\ Ids' = Ids /\ popped' = popped \cup {m}
  BY DEF PopPhase, Ids
<1>2. m \notin popped /\ Left(m) = {}
  BY DEF PopPhase, Counted
<1>3. ASSUME NEW n
      PROVE  /\ Between(m, n) \in SUBSET Left(n) /\ Left(n)' = Left(n) \ Between(m, n)
             /\ Cardinality(Left(n)') = Cardinality(Left(n)) - Cardinality(Between(m, n))
             /\ Cardinality(Between(m, n)) \in Nat
  <2>1. Between(m, n) \in SUBSET Left(n)
    BY <1>2 DEF Between, Left, Incoming
  <2>2. Left(n)' = Left(n) \ Between(m, n)
    BY <1>1 DEF Between, Left, Incoming, Entries, From, To, Ids
  <2>3. IsFiniteSet(Left(n)) /\ IsFiniteSet(Between(m, n))
    BY <2>1, LeftFinite, FS_Subset
  <2>4. Left(n) \cap Between(m, n) = Between(m, n)
    BY <2>1
  <2>5. Cardinality(Left(n) \ Between(m, n)) = Cardinality(Left(n)) - Cardinality(Left(n) \cap Between(m, n))
    BY <2>3, FS_Difference
  <2> QED
    BY <2>1, <2>2, <2>3, <2>4, <2>5, FS_CardinalityType
<1> QED
  BY <1>1, <1>2, <1>3

\* A phase is pushed when its last entry is taken away.
LEMMA PushesOnce ==
  ASSUME PlanOK, Counted, NEW m \in Ids, PopPhase(m), NEW n \in Ids
  PROVE  Pushes(n, m) = IF Left(n) # {} /\ Left(n)' = {} THEN 1 ELSE 0
<1> DEFINE d == Cardinality(Left(n))
           b == Cardinality(Between(m, n))
<1>1. /\ indegree[n] = d /\ d \in Nat /\ b \in Nat /\ Cardinality(Left(n)') = d - b
      /\ Left(n)' = Left(n) \ Between(m, n) /\ Between(m, n) \in SUBSET Left(n)
  BY PopTakes, LeftFinite DEF Counted
<1>2. (d = 0 <=> Left(n) = {}) /\ b <= d
  BY <1>1, LeftFinite, FS_Subset
<1>3. d - b = 0 <=> Left(n)' = {}
  <2>1. IsFiniteSet(Left(n) \ Between(m, n))
    BY LeftFinite, FS_Difference
  <2>2. IsFiniteSet(Left(n)')
    BY <1>1, <2>1
  <2> QED
    BY <1>1, <2>2, FS_EmptySet
<1>4. Pushes(n, m) = Less(b + 1, IF d = 0 THEN 1 ELSE d)
  BY <1>1 DEF Pushes
<1>5. CASE d = 0
  BY <1>1, <1>2, <1>4, <1>5 DEF Less
<1>6. CASE d # 0
  <2>1. Pushes(n, m) = IF b + 1 < d THEN 0 ELSE b + 1 - d
    BY <1>1, <1>4, <1>6 DEF Less
  <2>2. CASE b = d
    BY <1>1, <1>2, <1>3, <1>6, <2>1, <2>2
  <2>3. CASE b # d
    BY <1>1, <1>2, <1>3, <1>6, <2>1, <2>3
  <2> QED
    BY <2>2, <2>3
<1> QED
  BY <1>5, <1>6

\* Popping a phase keeps the counts.
LEMMA PopPhaseCounted ==
  ASSUME PlanOK, Counted, NEW m \in Ids, PopPhase(m)
  PROVE  Counted'
<1>1. /\ UNCHANGED plan /\ Ids' = Ids /\ m \notin popped /\ Left(m) = {}
      /\ popped' = popped \cup {m} /\ seen' = seen + 1
      /\ \A n : Left(n)' \in SUBSET Left(n)
  BY PopTakes DEF PopPhase
<1>2. popped' \in SUBSET Ids' /\ seen' = Cardinality(popped')
  <2>1. IsFiniteSet(popped)
    BY IdsFinite, FS_Subset DEF Counted
  <2> QED
    BY <1>1, <2>1, FS_AddElement DEF Counted
<1>3. indegree' = [n \in Ids' |-> Cardinality(Left(n)')]
  <2>1. ASSUME NEW n \in Ids
        PROVE  Less(indegree[n], Cardinality(Between(m, n))) = Cardinality(Left(n)')
    <3>1. /\ indegree[n] = Cardinality(Left(n)) /\ Cardinality(Left(n)) \in Nat
          /\ Cardinality(Between(m, n)) \in Nat /\ Between(m, n) \in SUBSET Left(n)
          /\ Cardinality(Left(n)') = Cardinality(Left(n)) - Cardinality(Between(m, n))
      BY PopTakes, LeftFinite DEF Counted
    <3>2. Cardinality(Between(m, n)) <= Cardinality(Left(n))
      BY <3>1, LeftFinite, FS_Subset
    <3> QED
      BY <3>1, <3>2 DEF Less
  <2>2. indegree' = [n \in Ids |-> Less(indegree[n], Cardinality(Between(m, n)))]
    BY DEF PopPhase
  <2> QED
    BY <1>1, <2>1, <2>2
<1>4. queue' = [n \in Ids' |-> IF n \notin popped' /\ Left(n)' = {} THEN 1 ELSE 0]
  <2>1. ASSUME NEW n \in Ids
        PROVE  (IF n = m THEN queue[n] - 1 ELSE queue[n]) + Pushes(n, m)
                 = IF n \notin popped' /\ Left(n)' = {} THEN 1 ELSE 0
    <3>1. /\ queue[n] = (IF n \notin popped /\ Left(n) = {} THEN 1 ELSE 0)
          /\ n \in popped => Left(n) = {}
      BY DEF Counted
    <3>2. Pushes(n, m) = IF Left(n) # {} /\ Left(n)' = {} THEN 1 ELSE 0
      BY PushesOnce
    <3>3. Left(n) = {} => Left(n)' = {}
      BY <1>1
    <3>4. CASE n = m
      BY <1>1, <3>1, <3>2, <3>4
    <3>5. CASE n # m /\ Left(n) = {}
      BY <1>1, <3>1, <3>2, <3>3, <3>5
    <3>6. CASE n # m /\ Left(n) # {}
      BY <1>1, <3>1, <3>2, <3>6
    <3> QED
      BY <3>4, <3>5, <3>6
  <2>2. queue' = [n \in Ids |-> (IF n = m THEN queue[n] - 1 ELSE queue[n]) + Pushes(n, m)]
    BY DEF PopPhase
  <2> QED
    BY <1>1, <2>1, <2>2
<1>5. \A n \in popped' : Left(n)' = {}
  BY <1>1 DEF Counted
<1>6. ASSUME NEW S \in SUBSET Ids, Circular(S) PROVE m \notin S
  <2> SUFFICES ASSUME m \in S PROVE FALSE
    OBVIOUS
  <2>1. PICK k \in S : k \in Predecessors(m)
    BY <1>6 DEF Circular
  <2>2. PICK e \in Entries : From(e) = k /\ To(e) = m
    BY <2>1, PredecessorEntry
  <2>3. k \notin popped
    BY <1>6 DEF Counted
  <2>4. e \in Left(m)
    BY <2>2, <2>3 DEF Left, Incoming
  <2> QED
    BY <1>1, <2>4
<1>7. \A S : Circular(S)' <=> Circular(S)
  BY <1>1 DEF Circular, Predecessors
<1>8. \A S \in SUBSET Ids' : Circular(S)' => S \cap popped' = {}
  BY <1>1, <1>6, <1>7 DEF Counted
<1> QED
  BY <1>2, <1>3, <1>4, <1>5, <1>8 DEF Counted

(***************************************************************************)
(* The verdict of the planner                                              *)
(***************************************************************************)
\* A root the planner has let pass is the workspace itself or, without dots, below a project or
\* below a new one's directory.
BelowProject(i, r) == Below(projects[i].write, r) \/ Below(projects[i].managed, r) \/ r = <<i>>

Placed(r) == Undotted(r) = r =>
  r = Dot \/ (\E i \in DOMAIN projects : Writable(i) /\ BelowProject(i, r)) \/ GreenfieldSlug(r) # {}

WriteRoots == UNION {Elements(p.write) : p \in Elements(plan)}

\* What the checks have found is among the issues.
Noted ==
  /\ DuplicateIds => "duplicate_phase_id" \in issues
  /\ UnknownDependency => "unknown_dependency" \in issues
  /\ (\E r \in WriteRoots : ~Placed(r)) => "invalid_write_root" \in issues

\* Projects that may be written are where their ids say.
Housed == \A i \in DOMAIN projects : Writable(i) => projects[i].managed = ManagedRoot(flat, i)

\* While a plan is checked the projects are those of the workspace, whose paths have no dots.
Spelled == \A i \in DOMAIN projects : Writable(i) =>
  \A root \in {projects[i].write, projects[i].managed} : IsSequence(root) /\ Undotted(root) = root

PlanInv ==
  /\ doc \in Documents /\ PlanOK /\ Housed
  /\ at \in {"compile", "schema", "check"} => Spelled
  /\ at \in {"compile", "schema", "check"} => seen = 0 /\ popped = {}
  /\ at \in {"sort"} \cup Decided => Counted
  /\ at = "sort" => Noted
  /\ at \in Decided => ~DuplicateIds /\ ~UnknownDependency /\ seen = Len(plan) /\ \A r \in WriteRoots : Placed(r)
  /\ at = "accepted" => Missing = {}

\* Before anything is compiled the plan is empty.
LEMMA InitPlan == GatesInit => PlanInv
<1> SUFFICES ASSUME GatesInit PROVE PlanInv
  OBVIOUS
<1>1. /\ doc \in Documents /\ plan = <<>> /\ at = "compile" /\ seen = 0 /\ popped = {}
      /\ \E w \in Workspaces : flat = w.flat /\ projects = w.projects
  BY DEF GatesInit, LoadInit, Init
<1>2. PlanOK
  <2>1. Elements(plan) = {}
    BY <1>1 DEF Elements
  <2> QED
    BY <1>1, <2>1 DEF PlanOK, IsSequence
<1>3. Housed /\ Spelled
  BY <1>1, WorkspacesAssumption DEF Housed, Spelled, Writable
<1> QED
  BY <1>1, <1>2, <1>3 DEF PlanInv, Decided

\* A compiled plan has the shape of its document.
LEMMA CompilePlan == ASSUME PlanInv, Compile PROVE PlanInv'
<1>1. UNCHANGED <<doc, flat, projects, seen, popped>> /\ at' \in {"rejected", "schema"} /\ at = "compile"
  BY DEF Compile, workspaceVars, sortVars
<1>2. CASE plan' = plan
  <2>1. PlanOK' /\ Housed' /\ Spelled'
    BY <1>1, <1>2 DEF PlanInv, PlanOK, Housed, Spelled, Writable
  <2> QED
    BY <1>1, <2>1 DEF PlanInv, Decided
<1>3. CASE plan' = [i \in DOMAIN doc.phases |-> CompiledPhase(doc.phases[i])]
  <2>1. IsSequence(doc.phases)
    BY DocumentsAssumption DEF PlanInv
  <2>2. DOMAIN doc.phases = 1..Len(doc.phases) /\ Len(doc.phases) \in Nat
    BY <2>1, SequenceDomain
  <2>3. IsSequence(plan')
    <3> DEFINE n == Len(doc.phases)
    <3>1. plan' = [i \in 1..n |-> CompiledPhase(doc.phases[i])] /\ n \in Nat
      BY <1>3, <2>2
    <3>2. plan' \in [1..n -> Elements(plan')]
      BY <3>1 DEF Elements
    <3> HIDE DEF n
    <3>3. plan' \in Seq(Elements(plan'))
      BY <3>1, <3>2
    <3> QED
      BY <3>3 DEF IsSequence
  <2>4. ASSUME NEW q \in Elements(plan')
        PROVE  /\ IsSequence(q.deps) /\ \A l \in Layers : IsSequence(q.tests[l])
               /\ \A r \in Elements(q.write) : IsSequence(r)
    <3>1. PICK i \in DOMAIN doc.phases : q = CompiledPhase(doc.phases[i])
      BY <1>3, <2>4 DEF Elements
    <3>2. q.deps = doc.phases[i].deps /\ q.tests = doc.phases[i].tests /\ q.write = doc.phases[i].write
      BY <3>1 DEF CompiledPhase
    <3>3. doc.phases[i] \in Elements(doc.phases) /\ doc \in Documents
      BY DEF Elements, PlanInv
    <3> QED
      BY <3>2, <3>3, DocumentsAssumption
  <2>5. PlanOK'
    BY <2>3, <2>4 DEF PlanOK
  <2>6. Housed' /\ Spelled'
    BY <1>1 DEF PlanInv, Housed, Spelled, Writable
  <2> QED
    BY <1>1, <2>5, <2>6 DEF PlanInv, Decided
<1> QED
  BY <1>2, <1>3 DEF Compile

\* The schema changes nothing but the place.
LEMMA CheckSchemaPlan == ASSUME PlanInv, CheckSchema PROVE PlanInv'
<1>1. UNCHANGED <<doc, plan, flat, projects, seen, popped>> /\ at' \in {"rejected", "check"} /\ at = "schema"
  BY DEF CheckSchema, workspaceVars, sortVars
<1>2. PlanOK' /\ Housed' /\ Spelled'
  BY <1>1 DEF PlanInv, PlanOK, Housed, Spelled, Writable
<1> QED
  BY <1>1, <1>2 DEF PlanInv, Decided

\* A path that starts with the names of a root is below it.
LEMMA StartsBelow ==
  ASSUME NEW root, NEW r, IsSequence(root), IsSequence(r), StartsWith(root, r)
  PROVE  Below(root, r)
<1>1. /\ Len(root) \in Nat /\ DOMAIN root = 1..Len(root) /\ Len(r) \in Nat /\ DOMAIN r = 1..Len(r)
      /\ r \in Seq(Elements(r)) /\ Len(root) <= Len(r) /\ SubSeq(r, 1, Len(root)) = root
  BY SequenceDomain DEF StartsWith, IsSequence
<1> SUFFICES ASSUME NEW k \in DOMAIN root PROVE k \in DOMAIN r /\ r[k] = root[k]
  BY DEF Below
<1>2. k \in 1..Len(root) /\ k \in 1..Len(r)
  BY <1>1
<1>3. SubSeq(r, 1, Len(root))[k] = r[k]
  BY <1>1, <1>2
<1> QED
  BY <1>1, <1>2, <1>3, Zenon

\* A root that is not placed is an invalid one.
LEMMA InvalidRoots ==
  ASSUME Spelled, NEW r, IsSequence(r), WriteRootOK(r)
  PROVE  Placed(r)
<1> SUFFICES ASSUME Undotted(r) = r, r # Dot
             PROVE  (\E i \in DOMAIN projects : Writable(i) /\ BelowProject(i, r)) \/ GreenfieldSlug(r) # {}
  BY DEF Placed
<1>1. CASE \E i \in DOMAIN projects : Writable(i) /\ (InProject(i, r) \/ r = <<i>>)
  <2>1. PICK i \in DOMAIN projects : Writable(i) /\ (InProject(i, r) \/ r = <<i>>)
    BY <1>1
  <2>2. \A root \in {projects[i].write, projects[i].managed} :
          IsSequence(root) /\ (Within(root, r) => StartsWith(root, r))
    BY <2>1 DEF Spelled, Within
  <2>3. InProject(i, r) => Below(projects[i].write, r) \/ Below(projects[i].managed, r)
    BY <2>2, StartsBelow DEF InProject
  <2> QED
    BY <2>1, <2>3 DEF BelowProject
<1> QED
  BY <1>1 DEF WriteRootOK

\* The checks note what they find.
LEMMA CheckPlanPlan == ASSUME PlanInv, CheckPlan PROVE PlanInv'
<1>1. UNCHANGED <<doc, plan, flat, projects, notes, seen, popped>> /\ at' = "sort" /\ at = "check"
  BY DEF CheckPlan, workspaceVars
<1> DEFINE found == (UNION {PhaseIssues(p) : p \in Elements(plan)}) \cup GateIssues
<1>0. issues' = found \cup (IF DuplicateIds THEN {"duplicate_phase_id"} ELSE {})
                     \cup (IF UnknownDependency THEN {"unknown_dependency"} ELSE {})
  BY DEF CheckPlan, found
<1> HIDE DEF found
<1>2. PlanOK' /\ Housed' /\ doc' \in Documents
  BY <1>1 DEF PlanInv, PlanOK, Housed, Writable
<1>3. Counted'
  BY <1>1, CheckPlanCounted DEF PlanInv
<1>4. DuplicateIds' => "duplicate_phase_id" \in issues'
  <2>1. DuplicateIds' = DuplicateIds
    BY <1>1 DEF DuplicateIds
  <2>2. DuplicateIds => "duplicate_phase_id" \in issues'
    BY <1>0
  <2> QED
    BY <2>1, <2>2
<1>5. UnknownDependency' => "unknown_dependency" \in issues'
  <2>1. UnknownDependency' = UnknownDependency
    BY <1>1 DEF UnknownDependency, Ids
  <2>2. UnknownDependency => "unknown_dependency" \in issues'
    BY <1>0
  <2> QED
    BY <2>1, <2>2
<1>6. ASSUME NEW r \in WriteRoots, ~Placed(r) PROVE "invalid_write_root" \in issues'
  <2>1. PICK p \in Elements(plan) : r \in Elements(p.write)
    BY <1>6 DEF WriteRoots
  <2>2. ~WriteRootOK(r)
    BY <1>1, <1>6, <2>1, InvalidRoots DEF PlanInv, PlanOK
  <2>3. "invalid_write_root" \in PhaseIssues(p)
    BY <2>1, <2>2 DEF PhaseIssues
  <2> QED
    BY <2>1, <2>3 DEF CheckPlan
<1>7. WriteRoots' = WriteRoots /\ \A r : Placed(r)' <=> Placed(r)
  BY <1>1 DEF WriteRoots, Placed, BelowProject, Writable, GreenfieldSlug
<1>8. Noted'
  BY <1>4, <1>5, <1>6, <1>7 DEF Noted
<1> QED
  BY <1>1, <1>2, <1>3, <1>8 DEF PlanInv, Decided

\* The sort goes on.
LEMMA PopPhasePlan == ASSUME PlanInv, NEW m \in Ids, PopPhase(m) PROVE PlanInv'
<1>1. UNCHANGED <<doc, plan, flat, projects, notes, at, issues>> /\ at = "sort"
  BY DEF PopPhase, workspaceVars
<1>2. PlanOK' /\ Housed' /\ doc' \in Documents
  BY <1>1 DEF PlanInv, PlanOK, Housed, Writable
<1>3. Counted'
  BY <1>1, PopPhaseCounted DEF PlanInv
<1>4. Noted'
  BY <1>1 DEF PlanInv, Noted, DuplicateIds, UnknownDependency, Ids, WriteRoots, Placed, BelowProject,
              Writable, GreenfieldSlug
<1> QED
  BY <1>1, <1>2, <1>3, <1>4 DEF PlanInv, Decided

\* The counts do not depend on the place.
LEMMA CountedKept ==
  ASSUME Counted, UNCHANGED <<plan, sortVars>>
  PROVE  Counted'
<1>1. Ids' = Ids /\ (\A n : Left(n)' = Left(n)) /\ \A S : Circular(S)' <=> Circular(S)
  BY DEF sortVars, Ids, Left, Incoming, Entries, From, To, Circular, Predecessors
<1> QED
  BY <1>1 DEF Counted, sortVars

\* A plan without issues is decided on.
LEMMA VerdictPlan == ASSUME PlanInv, Verdict PROVE PlanInv'
<1>1. UNCHANGED <<doc, plan, flat, projects, notes, sortVars>> /\ at = "sort"
  BY DEF Verdict, workspaceVars
<1>2. PlanOK' /\ Housed' /\ doc' \in Documents
  BY <1>1 DEF PlanInv, PlanOK, Housed, Writable
<1>3. Counted'
  BY <1>1, CountedKept DEF PlanInv
<1>4. CASE at' = "rejected"
  BY <1>2, <1>4 DEF PlanInv, Decided
<1>5. CASE issues' = {} /\ at' = "bootstrap"
  <2>1. issues = {} /\ seen = Len(plan)
    BY <1>5 DEF Verdict
  <2>2. ~DuplicateIds /\ ~UnknownDependency /\ \A r \in WriteRoots : Placed(r)
    BY <1>1, <2>1 DEF PlanInv, Noted
  <2>3. ~DuplicateIds' /\ ~UnknownDependency' /\ seen' = Len(plan') /\ \A r \in WriteRoots' : Placed(r)'
    BY <1>1, <2>1, <2>2 DEF DuplicateIds, UnknownDependency, Ids, WriteRoots, Placed, BelowProject,
                            Writable, GreenfieldSlug, sortVars
  <2> QED
    BY <1>2, <1>3, <1>5, <2>3 DEF PlanInv, Decided
<1> QED
  BY <1>4, <1>5 DEF Verdict

\* A new project is where its id says, and takes no root away.
LEMMA BootstrapProjectPlan == ASSUME PlanInv, NEW i \in Missing, BootstrapProject(i) PROVE PlanInv'
<1> DEFINE new == [kind |-> "copy", write |-> ManagedRoot(flat, i), managed |-> ManagedRoot(flat, i),
                   reads |-> {RunRoot, ManagedRoot(flat, i)}]
<1>1. /\ UNCHANGED <<doc, plan, flat, notes, at, issues, sortVars>> /\ at = "bootstrap" /\ ~flat
      /\ i \notin DOMAIN projects
      /\ projects' = [j \in DOMAIN projects \cup {i} |-> IF j = i THEN new ELSE projects[j]]
  BY DEF BootstrapProject
<1>2. PlanOK' /\ Counted' /\ doc' \in Documents
  BY <1>1, CountedKept DEF PlanInv, PlanOK, Decided
<1>3. /\ DOMAIN projects' = DOMAIN projects \cup {i} /\ projects'[i] = new
      /\ \A j \in DOMAIN projects : projects'[j] = projects[j]
  BY <1>1
<1>4. Housed'
  BY <1>1, <1>3 DEF PlanInv, Housed, Writable
<1>5. ASSUME NEW r, Placed(r) PROVE Placed(r)'
  <2>1. GreenfieldSlug(r)' = GreenfieldSlug(r)
    BY <1>1 DEF GreenfieldSlug
  <2>2. \A j \in DOMAIN projects : Writable(j) => Writable(j)' /\ (BelowProject(j, r) => BelowProject(j, r)')
    BY <1>3 DEF Writable, BelowProject
  <2> QED
    BY <1>3, <1>5, <2>1, <2>2 DEF Placed
<1>6. ~DuplicateIds' /\ ~UnknownDependency' /\ seen' = Len(plan') /\ WriteRoots' = WriteRoots
  BY <1>1 DEF PlanInv, Decided, DuplicateIds, UnknownDependency, Ids, WriteRoots, sortVars
<1>7. \A r \in WriteRoots' : Placed(r)'
  BY <1>1, <1>5, <1>6 DEF PlanInv, Decided
<1> QED
  BY <1>1, <1>2, <1>4, <1>6, <1>7 DEF PlanInv

\* The ends of the pipeline, and every step after it.
LEMMA EndPlan ==
  ASSUME PlanInv, BootstrapFails \/ Accept \/ UNCHANGED planVars
  PROVE  PlanInv'
<1>1. UNCHANGED <<doc, plan, flat, projects, notes, issues, sortVars>>
  BY DEF BootstrapFails, Accept, planVars, workspaceVars
<1>2. PlanOK' /\ Housed' /\ doc' \in Documents
  BY <1>1 DEF PlanInv, PlanOK, Housed, Writable
<1>3. DuplicateIds' = DuplicateIds /\ UnknownDependency' = UnknownDependency
  BY <1>1 DEF DuplicateIds, UnknownDependency, Ids
<1>4. WriteRoots' = WriteRoots /\ \A r : Placed(r)' <=> Placed(r)
  BY <1>1 DEF WriteRoots, Placed, BelowProject, Writable, GreenfieldSlug
<1>5. Noted => Noted'
  BY <1>1, <1>3, <1>4 DEF Noted
<1>6. Missing' = Missing
  BY <1>1 DEF Missing, Allocatable, Writable, GreenfieldSlug
<1>7. Counted => Counted'
  BY <1>1, CountedKept
<1>8. seen' = seen /\ popped' = popped /\ Len(plan') = Len(plan)
  BY <1>1 DEF sortVars
<1>9. CASE BootstrapFails
  BY <1>2, <1>9 DEF BootstrapFails, PlanInv, Decided
<1>10. CASE Accept
  <2>1. at = "bootstrap" /\ at' = "accepted" /\ Missing = {}
    BY <1>10 DEF Accept
  <2>2. /\ Counted' /\ ~DuplicateIds' /\ ~UnknownDependency' /\ seen' = Len(plan')
        /\ \A r \in WriteRoots' : Placed(r)'
    <3>1. /\ Counted /\ ~DuplicateIds /\ ~UnknownDependency /\ seen = Len(plan)
          /\ \A r \in WriteRoots : Placed(r)
      BY <2>1 DEF PlanInv, Decided
    <3> QED
      BY <3>1, <1>3, <1>4, <1>7, <1>8
  <2> QED
    BY <1>2, <1>6, <2>1, <2>2 DEF PlanInv
<1>11. CASE UNCHANGED planVars
  <2>1. at' = at
    BY <1>11 DEF planVars
  <2>2. at \in {"compile", "schema", "check"} => seen' = 0 /\ popped' = {}
    BY <1>8 DEF PlanInv
  <2>3. (at \in {"sort"} \cup Decided => Counted') /\ (at = "sort" => Noted')
    BY <1>5, <1>7 DEF PlanInv
  <2>4. at \in Decided =>
          ~DuplicateIds' /\ ~UnknownDependency' /\ seen' = Len(plan') /\ \A r \in WriteRoots' : Placed(r)'
    BY <1>3, <1>4, <1>8 DEF PlanInv
  <2>5. at = "accepted" => Missing' = {}
    BY <1>6 DEF PlanInv
  <2>6. Spelled => Spelled'
    BY <1>1 DEF Spelled, Writable
  <2> QED
    BY <1>2, <2>1, <2>2, <2>3, <2>4, <2>5, <2>6 DEF PlanInv, Decided
<1> QED
  BY <1>9, <1>10, <1>11

\* The scheduler and the gates leave the plan alone.
LEMMA PlanLeftAlone ==
  ASSUME LoadStep \/ Gate \/ UNCHANGED <<loadedVars, gateVars>>
  PROVE  UNCHANGED planVars
BY DEF LoadStep, BeginLoad, SearchFrom, Leave, LoadPhases, Follow, Gate, BeginGates, SkipSpec, DenySpec, GatesErr,
       RunBaseline, RunFirst, Retry, NextLayer, Report, Push, loadedVars

\* Every step of the planner, and every one after it.
LEMMA PlanStep == ASSUME PlanInv, [GatesNext]_<<loadedVars, gateVars>> PROVE PlanInv'
<1>1. CASE PlanNext
  BY <1>1, CompilePlan, CheckSchemaPlan, CheckPlanPlan, PopPhasePlan, VerdictPlan, BootstrapProjectPlan, EndPlan
     DEF PlanNext
<1>2. CASE LoadStep \/ Gate \/ UNCHANGED <<loadedVars, gateVars>>
  BY <1>2, PlanLeftAlone, EndPlan
<1> QED
  BY <1>1, <1>2 DEF GatesNext

\* A plan of which every phase has been popped has no circle.
LEMMA DecidedIsOrdered == ASSUME PlanInv PROVE AcceptedIsOrdered
<1> SUFFICES ASSUME at \in Decided
             PROVE  /\ \A i, j \in DOMAIN plan : plan[i].id = plan[j].id => i = j
                    /\ \A p \in Elements(plan) : Elements(p.deps) \subseteq Ids
                    /\ \A S \in SUBSET Ids : S # {} => \E n \in S : Predecessors(n) \cap S = {}
  BY DEF AcceptedIsOrdered
<1>1. ~DuplicateIds /\ ~UnknownDependency /\ seen = Len(plan) /\ Counted /\ PlanOK
  BY DEF PlanInv
<1>2. popped = Ids
  <2>1. /\ IsFiniteSet(Ids) /\ Cardinality(Ids) <= Len(plan) /\ Len(plan) \in Nat
        /\ popped \in SUBSET Ids /\ Cardinality(popped) = Len(plan)
    BY <1>1, IdsFinite DEF Counted
  <2>2. Cardinality(popped) <= Cardinality(Ids) /\ Cardinality(Ids) \in Nat
    BY <2>1, FS_Subset, FS_CardinalityType
  <2>3. Cardinality(Ids) = Cardinality(popped)
    BY <2>1, <2>2
  <2> QED
    BY <2>1, <2>3, FS_Subset
<1>3. ASSUME NEW S \in SUBSET Ids, S # {} PROVE \E n \in S : Predecessors(n) \cap S = {}
  <2>1. ~Circular(S)
    BY <1>1, <1>2, <1>3 DEF Counted
  <2> QED
    BY <2>1 DEF Circular
<1> QED
  BY <1>1, <1>3 DEF DuplicateIds, UnknownDependency

\* The scheduler is only given plans whose phases have one id each, depend on phases of the plan
\* and do not wait for each other in a circle (validate_dag of planner/validate.rs).
THEOREM AcceptedOrdered == GatesSpec => []AcceptedIsOrdered
BY InitPlan, PlanStep, DecidedIsOrdered, PTL DEF GatesSpec

\* The directories of a run are lists of names.
LEMMA RunRootSequence == IsSequence(RunRoot) /\ IsSequence(<<"run", "projects">>)
<1>1. Elements(RunRoot) = {"run"} /\ Elements(<<"run", "projects">>) = {"run", "projects"}
  BY DEF Elements, RunRoot
<1> QED
  BY <1>1 DEF IsSequence, RunRoot

\* What the slug of a root names is the directory the root is in.
LEMMA SlugBelow ==
  ASSUME NEW r, IsSequence(r), NEW i \in GreenfieldSlug(r)
  PROVE  Writable(i) => Below(ManagedRoot(flat, i), r)
<1>1. CASE flat
  <2>1. StartsWith(RunRoot, r) /\ IsSequence(RunRoot)
    BY <1>1, RunRootSequence DEF GreenfieldSlug
  <2> QED
    BY <1>1, <2>1, StartsBelow DEF ManagedRoot
<1>2. CASE ~flat
  <2>1. Len(r) > 2 /\ StartsWith(<<"run", "projects">>, r) /\ i = r[3]
    BY <1>2 DEF GreenfieldSlug
  <2>2. Below(<<"run", "projects">>, r)
    BY <2>1, RunRootSequence, StartsBelow
  <2>3. r[1] = "run" /\ r[2] = "projects"
    BY <2>2 DEF Below
  <2>4. DOMAIN r = 1..Len(r) /\ Len(r) \in Nat
    BY SequenceDomain
  <2> QED
    BY <1>2, <2>1, <2>3, <2>4 DEF ManagedRoot, Below
<1> QED
  BY <1>1, <1>2

\* What a phase of an accepted plan may write, spelled without dots, is below a project of the
\* workspace that is no notes snapshot (validate_root_against_workspace,
\* bootstrap_plan_greenfield_projects).
THEOREM AcceptedRootsOurs == GatesSpec => []AcceptedRootsAreOurs
<1>1. ASSUME PlanInv, at = "accepted", NEW p \in Elements(plan), NEW r \in Elements(p.write), Undotted(r) = r
      PROVE  r = Dot \/ \E i \in DOMAIN projects : Writable(i) /\ BelowProject(i, r)
  <2>1. r \in WriteRoots /\ Placed(r) /\ IsSequence(r)
    BY <1>1 DEF PlanInv, PlanOK, Decided, WriteRoots
  <2>2. ASSUME NEW i \in GreenfieldSlug(r) PROVE Writable(i) /\ BelowProject(i, r)
    <3>1. Writable(i)
      BY <1>1, <2>2 DEF PlanInv, Missing
    <3>2. projects[i].managed = ManagedRoot(flat, i)
      BY <1>1, <3>1 DEF PlanInv, Housed, Writable
    <3> QED
      BY <2>1, <3>1, <3>2, SlugBelow DEF BelowProject
  <2> QED
    BY <1>1, <2>1, <2>2 DEF Placed, Writable
<1>2. PlanInv => AcceptedRootsAreOurs
  BY <1>1 DEF AcceptedRootsAreOurs, BelowProject
<1> QED
  BY <1>2, InitPlan, PlanStep, PTL DEF GatesSpec
=============================================================================
