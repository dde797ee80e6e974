----------------------------- MODULE MasterPlan -----------------------------
(***************************************************************************)
(* How an answer of the architect becomes a plan: compile_master_plan_     *)
(* markdown (planner/md_plan.rs), validate_plan_json (planner/validate.rs) *)
(* with its topological sort, and the projects that workspace/             *)
(* greenfield.rs makes for an accepted plan.                               *)
(*                                                                         *)
(* A document is what the parsing of the Markdown finds in it: which       *)
(* fields are there, and the lists that refer to phases, projects, roots   *)
(* and criteria.  A root is the sequence of the names of a path, "." and   *)
(* ".." among them; the relative path "." is <<".">>.                      *)
(***************************************************************************)
EXTENDS Integers, Sequences, FiniteSets

CONSTANTS
  Documents,   \* answers of the architect
  Workspaces,  \* workspaces they are compiled for
  UnsafeIds,   \* project ids that are no safe directory names
  NotesEnding  \* pairs of a notes root and a project id its text ends with

Layers == 1..3   \* unit, integration, e2e

Commands == {"none", "allowed", "denied", "outside"}

RunRoot == <<"run">>
Dot == <<".">>
Up == ".."

Elements(s) == {s[i] : i \in DOMAIN s}
IsSequence(s) == s \in Seq(Elements(s))

\* What the parser returns is made of lists, a path is a list of names.
ASSUME DocumentsAssumption ==
  \A d \in Documents :
    /\ IsSequence(d.phases)
    /\ \A p \in Elements(d.phases) :
         /\ IsSequence(p.deps) /\ \A l \in Layers : IsSequence(p.tests[l])
         /\ \A r \in Elements(p.write) : IsSequence(r)

\* Where a project that may be written is kept: in a directory with its id or, in the flat layout,
\* in the output directory itself.
ManagedRoot(inPlace, i) == IF inPlace THEN RunRoot ELSE <<"run", "projects", i>>

\* What is left of a path when normalize_for_compare has dropped "." and "..".
Undotted(path) == SelectSeq(path, LAMBDA name : name \notin {Up, "."})

\* The paths of the projects themselves are spelled without dots.
ASSUME WorkspacesAssumption ==
  \A w \in Workspaces : \A i \in DOMAIN w.projects : w.projects[i].kind # "notes" =>
    /\ w.projects[i].managed = ManagedRoot(w.flat, i)
    /\ \A root \in {w.projects[i].write, w.projects[i].managed} : IsSequence(root) /\ Undotted(root) = root

VARIABLES
  doc,       \* the answer
  flat,      \* the workspace is the output directory itself
  projects,  \* its projects by id: kind, write root, managed root, and what they read
  notes,     \* its notes roots
  at,        \* what the pipeline does next
  plan,      \* the compiled plan: a sequence of phases, empty before
  issues,    \* codes of validation issues
  indegree,  \* of the sort: dependency entries of a phase not yet taken away
  queue,     \* of the sort: how often a phase is queued
  seen,      \* of the sort: phases popped
  popped     \* history: which

workspaceVars == <<flat, projects, notes>>
sortVars == <<indegree, queue, seen, popped>>
planVars == <<doc, workspaceVars, at, plan, issues, sortVars>>

(***************************************************************************)
(* md_plan.rs                                                              *)
(***************************************************************************)
\* A test without a command needs a reason; the word "inapplicable" in its line is one.
TestTextIncomplete(t) == t.command = "none" /\ ~t.reason

PhaseTextComplete(p) ==
  /\ p.titled /\ p.objective /\ p.tier
  /\ \A c \in Elements(p.criteria) : c.described
  /\ \A l \in Layers : \A t \in Elements(p.tests[l]) : ~TestTextIncomplete(t)

CompileIssues == \/ ~doc.titled \/ ~doc.summary \/ doc.phases = <<>>
                 \/ \E p \in Elements(doc.phases) : ~PhaseTextComplete(p)
                 \/ \E g \in Elements(doc.gates) : ~g.described

\* fold_none_reason_into_objective: "(none) - reason: ..." in a layer without tests.
NoneReasons(p) == IF \E l \in Layers : p.tests[l] = <<>> /\ p.none[l] THEN {"inapplicable"} ELSE {}

\* synthesize_phase_prompt ends with "Run the listed tests (or honor inapplicable layers)" and
\* repeats the objective.
PromptWords == {"plan files", "inapplicable"}

CompiledPhase(p) ==
  [id |-> p.id, deps |-> p.deps, projects |-> p.projects, write |-> p.write, read |-> p.read,
   minutes |-> p.minutes, criteria |-> [i \in DOMAIN p.criteria |-> p.criteria[i].id], tests |-> p.tests,
   words |-> p.words \cup NoneReasons(p) \cup PromptWords]

(***************************************************************************)
(* validate.rs and the workspace it asks                                   *)
(***************************************************************************)
Ids == {p.id : p \in Elements(plan)}

StartsWith(root, path) == Len(root) <= Len(path) /\ SubSeq(path, 1, Len(root)) = root

\* is_path_within_root: a path that climbs out of the root again is within it all the same.
Within(root, path) == StartsWith(Undotted(root), Undotted(path))

Writable(i) == i \in DOMAIN projects /\ projects[i].kind # "notes"

InProject(i, path) == Within(projects[i].write, path) \/ Within(projects[i].managed, path)

\* greenfield_slug_from_root: at most one id.  It compares the text as it is.
GreenfieldSlug(root) ==
  LET ours == {i \in DOMAIN projects : Writable(i)} IN
  IF flat
  THEN IF StartsWith(RunRoot, root) THEN (IF ours = {} THEN {"app"} ELSE ours) ELSE {}
  ELSE IF Len(root) > 2 /\ StartsWith(<<"run", "projects">>, root) THEN {root[3]} \ UnsafeIds ELSE {}

\* is_allocatable_greenfield_project_id.
Allocatable(i) ==
  /\ i \notin UnsafeIds
  /\ IF flat THEN Writable(i) \/ i \in {"app", "implementation"}
             ELSE i \in DOMAIN projects => Writable(i)

\* A notes project is known, and so is what the text of a notes root ends with.
KnownProject(i) == i \in DOMAIN projects \/ Allocatable(i) \/ \E n \in notes : <<n, i>> \in NotesEnding

DotAllowed == Cardinality(DOMAIN projects) = 1 \/ notes # {}

\* validate_root_against_workspace, for writing.
WriteRootOK(root) ==
  \/ root = Dot /\ DotAllowed
  \/ \E i \in DOMAIN projects : Writable(i) /\ (InProject(i, root) \/ root = <<i>>)
  \/ GreenfieldSlug(root) # {}

\* ... and for reading.
ReadRootOK(root) ==
  \/ root = Dot /\ DotAllowed
  \/ Within(RunRoot, root)
  \/ \E i \in DOMAIN projects :
       root = <<i>> \/ \E known \in {projects[i].managed} \cup projects[i].reads : Within(known, root)
  \/ \E n \in notes : Within(n, root)

TestsOf(p) == UNION {Elements(p.tests[l]) : l \in Layers}

TestIssues(p) ==
  (IF \E t \in TestsOf(p) : TestTextIncomplete(t) THEN {"invalid_test"} ELSE {})
  \cup (IF \E t \in TestsOf(p) : ~(t.covers \subseteq Elements(p.criteria)) THEN {"test_covers_unknown"} ELSE {})
  \cup (IF (\E l \in Layers : p.tests[l] = <<>>) /\ "inapplicable" \notin p.words
        THEN {"empty_layer_unexplained"} ELSE {})

PhaseIssues(p) ==
  (IF p.criteria = <<>> THEN {"missing_acceptance"} ELSE {})
  \cup (IF "plan files" \notin p.words THEN {"prompt_missing_plan_refs"} ELSE {})
  \cup (IF "placeholder" \in p.words THEN {"prompt_placeholder"} ELSE {})
  \cup (IF p.projects = <<>> THEN {"missing_project_ids"} ELSE {})
  \cup (IF \E i \in Elements(p.projects) : ~KnownProject(i) THEN {"unknown_project_id"} ELSE {})
  \cup (IF p.write = <<>> THEN {"missing_write_roots"} ELSE {})
  \cup (IF \E r \in Elements(p.write) : ~WriteRootOK(r) THEN {"invalid_write_root"} ELSE {})
  \cup (IF \E r \in Elements(p.read) : ~ReadRootOK(r) THEN {"invalid_read_root"} ELSE {})
  \cup TestIssues(p)

GateIssues ==
  (IF \E i, j \in DOMAIN doc.gates : i # j /\ doc.gates[i].id = doc.gates[j].id
   THEN {"duplicate_gate_id"} ELSE {})
  \cup (IF \E g \in Elements(doc.gates) : ~(Elements(g.deps) \subseteq Ids)
        THEN {"gate_unknown_dependency"} ELSE {})

DuplicateIds == \E i, j \in DOMAIN plan : i # j /\ plan[i].id = plan[j].id

UnknownDependency == \E p \in Elements(plan) : ~(Elements(p.deps) \subseteq Ids)

(***************************************************************************)
(* The topological sort.  An entry <<i, k>> is the k-th dependency of the  *)
(* i-th phase; an unknown one is skipped.  Phases may repeat ids and       *)
(* dependencies.                                                           *)
(***************************************************************************)
\* Fault: a phase that depends on itself is skipped like one with an unknown dependency.
OtherEntries == {e \in (DOMAIN plan) \X UNION {DOMAIN plan[i].deps : i \in DOMAIN plan} :
                   /\ e[2] \in DOMAIN plan[e[1]].deps
                   /\ plan[e[1]].deps[e[2]] \in Ids \ {plan[e[1]].id}}

Entries == {e \in (DOMAIN plan) \X UNION {DOMAIN plan[i].deps : i \in DOMAIN plan} :
              e[2] \in DOMAIN plan[e[1]].deps /\ plan[e[1]].deps[e[2]] \in Ids}
From(e) == plan[e[1]].deps[e[2]]
To(e) == plan[e[1]].id

Incoming(n) == {e \in Entries : To(e) = n}
Between(m, n) == {e \in Entries : From(e) = m /\ To(e) = n}

\* saturating_sub.
Less(a, b) == IF a < b THEN 0 ELSE a - b

(***************************************************************************)
(* Steps                                                                   *)
(***************************************************************************)
Init ==
  /\ doc \in Documents
  /\ \E w \in Workspaces : flat = w.flat /\ projects = w.projects /\ notes = w.notes
  /\ at = "compile" /\ plan = <<>> /\ issues = {}
  /\ indegree = <<>> /\ queue = <<>> /\ seen = 0 /\ popped = {}

Compile ==
  /\ at = "compile"
  /\ IF CompileIssues THEN at' = "rejected" /\ plan' = plan
     ELSE at' = "schema" /\ plan' = [i \in DOMAIN doc.phases |-> CompiledPhase(doc.phases[i])]
  /\ UNCHANGED <<doc, workspaceVars, issues, sortVars>>

\* project-plan.schema.json wants a command of every test, also of one with a reason, and at
\* least a minute of every phase.  The first schema error is the only issue.
SchemaFits == \A p \in Elements(plan) :
  p.minutes > 0 /\ \A t \in TestsOf(p) : t.command # "none"

CheckSchema ==
  /\ at = "schema"
  /\ at' = IF SchemaFits THEN "check" ELSE "rejected"
  /\ UNCHANGED <<doc, workspaceVars, plan, issues, sortVars>>

\* validate_phase, the unknown dependencies, validate_final_gates; the start of the sort.
CheckPlan ==
  /\ at = "check"
  /\ issues' = (UNION {PhaseIssues(p) : p \in Elements(plan)}) \cup GateIssues
               \cup (IF DuplicateIds THEN {"duplicate_phase_id"} ELSE {})
               \cup (IF UnknownDependency THEN {"unknown_dependency"} ELSE {})
  /\ indegree' = [n \in Ids |-> Cardinality(Incoming(n))]
  /\ queue' = [n \in Ids |-> IF Incoming(n) = {} THEN 1 ELSE 0]
  /\ at' = "sort"
  /\ UNCHANGED <<doc, workspaceVars, plan, seen, popped>>

\* A child is pushed whenever its degree is 0 after an entry was taken away: for the last entry,
\* and for every one beyond it.
Pushes(n, m) == Less(Cardinality(Between(m, n)) + 1, IF indegree[n] = 0 THEN 1 ELSE indegree[n])

\* The queue starts in the order of a hash map: any phase in it may be the next.
PopPhase(m) ==
  /\ at = "sort" /\ queue[m] > 0
  /\ seen' = seen + 1 /\ popped' = popped \cup {m}
  /\ indegree' = [n \in Ids |-> Less(indegree[n], Cardinality(Between(m, n)))]
  /\ queue' = [n \in Ids |-> (IF n = m THEN queue[n] - 1 ELSE queue[n]) + Pushes(n, m)]
  /\ UNCHANGED <<doc, workspaceVars, at, plan, issues>>

Sorted == \A n \in Ids : queue[n] = 0

Verdict ==
  /\ at = "sort" /\ Sorted
  /\ issues' = issues \cup (IF seen # Len(plan) THEN {"cyclic_dependencies"} ELSE {})
  /\ at' = IF issues' = {} THEN "bootstrap" ELSE "rejected"
  /\ UNCHANGED <<doc, workspaceVars, plan, sortVars>>

\* Fault: only the ids of a plan are looked at, not its roots.
MissingByName == {i \in UNION {Elements(p.projects) : p \in Elements(plan)} : Allocatable(i) /\ ~Writable(i)}

\* collect_missing_greenfield_ids.
Missing ==
  LET wanted == UNION {Elements(p.projects) : p \in Elements(plan)}
      roots == UNION {Elements(p.write) : p \in Elements(plan)}
  IN {i \in wanted : Allocatable(i) /\ ~Writable(i)}
     \cup {i \in UNION {GreenfieldSlug(r) : r \in roots} : ~Writable(i)}

\* bootstrap_plan_greenfield_projects: ensure_greenfield_project and its first checkpoint.
BootstrapProject(i) ==
  /\ at = "bootstrap" /\ i \in Missing
  /\ ~flat /\ i \notin DOMAIN projects
  /\ LET root == ManagedRoot(flat, i) IN
     projects' = [j \in DOMAIN projects \cup {i} |->
                   IF j = i THEN [kind |-> "copy", write |-> root, managed |-> root, reads |-> {RunRoot, root}]
                   ELSE projects[j]]
  /\ UNCHANGED <<doc, flat, notes, at, plan, issues, sortVars>>

\* A notes snapshot has the id; in the flat layout the id has no project of its own, and the
\* checkpoint does not find it; or a git command fails.
BootstrapFails ==
  /\ at = "bootstrap" /\ Missing # {}
  /\ at' = "failed"
  /\ UNCHANGED <<doc, workspaceVars, plan, issues, sortVars>>

Accept ==
  /\ at = "bootstrap" /\ Missing = {}
  /\ at' = "accepted"
  /\ UNCHANGED <<doc, workspaceVars, plan, issues, sortVars>>

PlanNext ==
  \/ Compile \/ CheckSchema \/ CheckPlan
  \/ (at = "sort" /\ \E m \in Ids : PopPhase(m)) \/ Verdict
  \/ (at = "bootstrap" /\ \E i \in Missing : BootstrapProject(i)) \/ BootstrapFails \/ Accept

(***************************************************************************)
(* Properties                                                              *)
(***************************************************************************)
Decided == {"bootstrap", "accepted"}

Predecessors(n) == UNION {Elements(p.deps) : p \in {q \in Elements(plan) : q.id = n}}

\* The scheduler is only given plans it can order: phases have one id each, depend on phases of the
\* plan, and no phases wait for each other in a circle (validate_dag: the count of popped phases).
AcceptedIsOrdered == at \in Decided =>
  /\ \A i, j \in DOMAIN plan : plan[i].id = plan[j].id => i = j
  /\ \A p \in Elements(plan) : Elements(p.deps) \subseteq Ids
  /\ \A S \in SUBSET Ids : S # {} => \E n \in S : Predecessors(n) \cap S = {}

\* The plain order of directories, with no dots dropped.
Below(root, path) == \A k \in DOMAIN root : k \in DOMAIN path /\ path[k] = root[k]

\* Once the projects of a plan are made, what a phase may write is below a project of the workspace
\* that is no notes snapshot, whatever roots and ids the architect invented, as long as the root is
\* spelled without "." and ".." (validate_root_against_workspace, bootstrap_plan_greenfield_projects).
\* One that is not may lead anywhere.
AcceptedRootsAreOurs == at = "accepted" =>
  \A p \in Elements(plan) : \A r \in Elements(p.write) : Undotted(r) = r =>
    r = Dot \/ \E i \in DOMAIN projects :
      Writable(i) /\ (Below(projects[i].write, r) \/ Below(projects[i].managed, r) \/ r = <<i>>)

\* Every phase a phase waits for, directly or not: it is in any set of phases that holds those it
\* depends on and, with a phase, those that one depends on.
Closed(S) == \A m \in S : Predecessors(m) \subseteq S
Before(n) == {k \in Ids : \A S \in SUBSET Ids : Predecessors(n) \subseteq S /\ Closed(S) => k \in S}

\* sorted_lock_names, without the resources of tests: a lock is the path of a root, letter for letter.
LockNames(p) == Elements(p.write)

\* Phases that execute_phase runs in the repository of one project, that of their first project id,
\* are ordered by their dependencies or by a common write lock (MASTER-PLAN.md:719: "Within one
\* repository, phases execute serially so plan rendering, git index, tests, and checkpoints cannot
\* race.").
OneWriterPerRepository == at = "accepted" =>
  \A i, j \in DOMAIN plan : LET p == plan[i] q == plan[j] IN
    i # j /\ p.projects[1] = q.projects[1] =>
      \/ p.id \in Before(q.id) \/ q.id \in Before(p.id)
      \/ LockNames(p) \cap LockNames(q) # {}
=============================================================================
