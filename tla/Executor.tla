------------------------------ MODULE Executor ------------------------------
(***************************************************************************)
(* What a worker thread does with the files of a run: execute_phase of     *)
(* executor/run.rs over the checkpoints, the quarantine and the manifest   *)
(* of workspace/, between its launch and the publication of its copies by  *)
(* orchestrator/runner.rs.                                                 *)
(*                                                                         *)
(* A worker gets copies of the plan and of the manifest, works on them,    *)
(* and puts them back whole when execute_phase returns Ok; when it returns *)
(* an error the copies are dropped, whatever was written to disk.  Only    *)
(* the write roots of running phases are locked (Scheduler.tla).           *)
(*                                                                         *)
(* at is the step the call takes next, one name per step that touches      *)
(* shared state.  A tree is a set of files.  The path of a file is known   *)
(* by who created it, in which launch, and where; its content by the       *)
(* launch that changed it in place.  What git ignores is not in a tree.    *)
(***************************************************************************)
EXTENDS Integers, FiniteSets, Sequences

CONSTANTS
  Phases,        \* phases of the run
  Repos,         \* managed projects
  Repo,          \* the project a phase works in; its write root is that project's
  Worktrees,     \* projects with a worktree: cloned from git, not copied
  Restores,      \* phases whose rollback strategy is restore, not quarantine
  Strays,        \* phases whose agent may also write outside its write root
  MaxConcurrent, \* phases the scheduler lets run at a time
  MaxLaunches,   \* bound: attempts of the whole run
  MaxWrites,     \* bound: files the agent of one attempt creates
  MaxReplaced,   \* bound: files that agents change in place or remove
  MaxQuarantine, \* max_quarantine_entries
  Faults         \* what may go wrong: subset of FaultKinds

FaultKinds == {"agent",  \* the hosted call of the agent returns an error
               "gates",  \* run_phase_gates does
               "files",  \* writing the plan or the manifest does
               "git"}    \* a git command does

ASSUME ExecutorAssumption ==
  /\ IsFiniteSet(Phases)
  /\ Repo \in [Phases -> Repos]
  /\ Worktrees \subseteq Repos
  /\ Restores \subseteq Phases /\ Strays \subseteq Phases
  /\ MaxConcurrent \in Nat /\ MaxLaunches \in Nat /\ MaxWrites \in Nat /\ MaxReplaced \in Nat
  /\ MaxQuarantine \in Nat
  /\ Faults \subseteq FaultKinds

(***************************************************************************)
(* Places.  managed_root of a project is its clone.  The write root of a   *)
(* git project is a worktree beside the clone; of the others, the clone.   *)
(***************************************************************************)
Clone(r) == <<r, "clone">>
Worktree(r) == <<r, "worktree">>
Places == {Clone(r) : r \in Repos} \cup {Worktree(r) : r \in Worktrees}
WriteRoot(p) == IF Repo[p] \in Worktrees THEN Worktree(Repo[p]) ELSE Clone(Repo[p])

\* walked: whether snapshot_paths goes to where the file lies: not below its depth.
\* edited: the launch that changed the file last, 0 when it is as it was created.
Files == [by : Phases, launch : 1..MaxLaunches, at : Places, walked : BOOLEAN, edited : 0..MaxLaunches]

SamePath(f, g) == f.by = g.by /\ f.launch = g.launch /\ f.at = g.at /\ f.walked = g.walked

\* The files of a tree whose path is the one of f: at most one.
AtPath(f, tree) == {g \in tree : SamePath(f, g)}

Statuses == {"draft", "running", "verifying", "passed", "failed", "needs_review"}
Plans == [Phases -> Statuses]
DraftPlan == [p \in Phases |-> "draft"]

\* Per project the trees of its checkpoints, oldest first; and what each quarantine entry holds.
Manifests == [checkpoints : [Repos -> Seq(SUBSET Files) \ {<<>>}], quarantines : Seq(SUBSET Files)]
IntakeManifest == [checkpoints |-> [r \in Repos |-> <<{}>>], quarantines |-> <<>>]

Steps == {"idle", "workspace", "running", "baseline", "agent", "inspect", "quarantine", "rollback",
          "verifying", "gates", "failed", "needs_review", "passed", "checkpoint",
          "write", "rename", "publish_plan", "publish_workspace", "done"}

Latest(checkpoints) == checkpoints[Len(checkpoints)]

\* How an attempt ends, as far as it is known.
Ends == {"open", "escaped", "timed_out", "refused", "no_result", "passed", "error"}

\* The call of a worker thread: its place, its copies, the snapshot, what its agent wrote, and
\* what is to be quarantined.
Calls == [at : Steps, end : Ends, number : 0..MaxLaunches, plan : Plans, manifest : Manifests,
          before : SUBSET Files, made : SUBSET Files, target : SUBSET Files]

VARIABLES
  worker,        \* per phase: the call of its latest attempt
  lastPlan,      \* AppState.last_plan
  lastWorkspace, \* AppState.last_workspace
  planFile,      \* .tiamat/plan.json of the control repository
  manifestFile,  \* manifest.json
  manifestTmp,   \* manifest.json.tmp: no or one manifest
  disk,          \* files on disk, in clones and worktrees
  head,          \* tree of the commit a clone is at
  gone,          \* projects whose clone was moved away
  quarantined,   \* files under quarantine/
  accepted,      \* phases passed in the database
  launched,      \* attempts so far
  replaced       \* history: files that an agent changed or removed

memory == <<lastPlan, lastWorkspace>>
records == <<planFile, manifestFile, manifestTmp>>
trees == <<disk, head, gone, quarantined>>
tally == <<accepted, launched, replaced>>
vars == <<worker, memory, records, trees, tally>>

Idle == [at |-> "idle", end |-> "open", number |-> 0, plan |-> DraftPlan,
         manifest |-> IntakeManifest, before |-> {}, made |-> {}, target |-> {}]

Init ==
  /\ worker = [p \in Phases |-> Idle]
  /\ lastPlan = DraftPlan /\ planFile = DraftPlan
  /\ lastWorkspace = IntakeManifest /\ manifestFile = IntakeManifest /\ manifestTmp = {}
  /\ disk = {} /\ head = [r \in Repos |-> {}] /\ gone = {} /\ quarantined = {}
  /\ accepted = {} /\ launched = 0 /\ replaced = {}

(***************************************************************************)
(* Helpers                                                                 *)
(***************************************************************************)
Due(p, step) == worker[p].at = step
Active == {p \in Phases : worker[p].at # "idle"}

\* The supervisor is one thread: between its two reads for a launch it does nothing else.
SupervisorFree == \A p \in Phases : ~Due(p, "workspace")

Tree(r) == {f \in disk : f.at = Clone(r)}

\* collect_changed_files: git status in the clone; nothing when git fails there.
Changed(r) == IF r \in gone THEN {} ELSE (Tree(r) \ head[r]) \cup (head[r] \ Tree(r))

\* validate_diff_boundaries: what changed in the clone must lie in the write root.
ChangedOutside(p) == IF WriteRoot(p) = Clone(Repo[p]) THEN {} ELSE Changed(Repo[p])

\* Fault: only what is new in the project's own clone.
EscapesNearby(p) ==
  {f \in disk : f.at = Clone(Repo[p]) /\ f.at # WriteRoot(p) /\ f.walked /\ AtPath(f, worker[p].before) = {}}

\* find_new_escapes: paths that were not there before, where the snapshot goes but not in the write
\* root.  A file that was changed in place or removed is no new path.
NewEscapes(p) == {f \in disk : f.at # WriteRoot(p) /\ f.walked /\ AtPath(f, worker[p].before) = {}}

\* The step after the one p takes: the returns of execute_phase and handle_timeout differ in what
\* they save, and in which order.
After(p) == LET end == worker[p].end IN
  CASE Due(p, "workspace") -> "running"
    [] Due(p, "running") -> "baseline"
    [] Due(p, "baseline") -> "agent"
    [] Due(p, "quarantine") -> IF end = "escaped" THEN "write" ELSE "failed"
    [] Due(p, "rollback") -> "failed"
    [] Due(p, "verifying") -> "gates"
    [] Due(p, "failed") -> IF end \in {"escaped", "no_result"} THEN "publish_plan" ELSE "write"
    [] Due(p, "needs_review") -> "write"
    [] Due(p, "passed") -> "checkpoint"
    [] Due(p, "checkpoint") -> "write"
    [] Due(p, "write") -> "rename"
    [] Due(p, "rename") -> IF end = "escaped" THEN "failed" ELSE "publish_plan"
    [] Due(p, "publish_plan") -> "publish_workspace"
    [] OTHER -> "done"

Goes(p) == [worker[p] EXCEPT !.at = After(p)]
GoesTo(p, at, end) == [worker[p] EXCEPT !.at = at, !.end = end]
\* execute_phase returns an error: nothing is published.
Errs(p) == GoesTo(p, "done", "error")

(***************************************************************************)
(* Supervisor.  The copies are taken one after the other, each under its   *)
(* own mutex.  A phase keeps its locks until its outcome is harvested.     *)
(***************************************************************************)
\* Fault: the number of a launch is the count before it.
CallUncounted(p) == [Idle EXCEPT !.at = "workspace", !.number = launched, !.plan = lastPlan]

Call(p) == [Idle EXCEPT !.at = "workspace", !.number = launched + 1, !.plan = lastPlan]

Launch(p) ==
  /\ SupervisorFree
  /\ p \notin accepted /\ launched < MaxLaunches
  /\ Cardinality(Active) < MaxConcurrent
  /\ \A q \in Active : Repo[q] # Repo[p]
  /\ launched' = launched + 1
  /\ worker' = [worker EXCEPT ![p] = Call(p)]
  /\ UNCHANGED <<memory, records, trees, accepted, replaced>>

TakeWorkspace(p) ==
  /\ Due(p, "workspace")
  /\ worker' = [worker EXCEPT ![p] = [Goes(p) EXCEPT !.manifest = lastWorkspace]]
  /\ UNCHANGED <<memory, records, trees, tally>>

\* complete_attempt with the outcome; the locals of the thread are gone.
Harvest(p) ==
  /\ SupervisorFree
  /\ Due(p, "done")
  /\ accepted' = IF worker[p].end = "passed" THEN accepted \cup {p} ELSE accepted
  /\ worker' = [worker EXCEPT ![p] =
       [Idle EXCEPT !.made = IF worker[p].end = "passed" THEN worker[p].made ELSE {}]]
  /\ UNCHANGED <<memory, records, trees, launched, replaced>>

(***************************************************************************)
(* The agent                                                               *)
(***************************************************************************)
\* project_plan_files: plan.json is replaced by the worker's copy with its phase at status.
Project(p) == \E status \in Statuses :
  /\ Due(p, status)
  /\ worker' = [worker EXCEPT ![p] = [Goes(p) EXCEPT !.plan[p] = status]]
  /\ planFile' = worker'[p].plan
  /\ UNCHANGED <<memory, manifestFile, manifestTmp, trees, tally>>

\* plan.json is replaced, and a later file of the projection cannot be written.
ProjectionCut(p) == \E status \in Statuses :
  /\ Due(p, status) /\ "files" \in Faults
  /\ planFile' = [worker[p].plan EXCEPT ![p] = status]
  /\ worker' = [worker EXCEPT ![p] = Errs(p)]
  /\ UNCHANGED <<memory, manifestFile, manifestTmp, trees, tally>>

Baseline(p) ==
  /\ Due(p, "baseline")
  /\ worker' = [worker EXCEPT ![p] = [Goes(p) EXCEPT !.before = disk]]
  /\ UNCHANGED <<memory, records, trees, tally>>

\* The agent starts only in a directory that exists.
CanWork(p) == Due(p, "agent") /\ ~(WriteRoot(p) = Clone(Repo[p]) /\ Repo[p] \in gone)

\* A stray agent also writes outside its write root, but not where a clone was moved away.
WithinReach(p, place) == (place = WriteRoot(p) \/ p \in Strays) /\ ~\E r \in gone : place = Clone(r)

\* The files of old give way to the files of new.
AgentChanges(p, old, new) ==
  /\ CanWork(p) /\ \A f \in old \cup new : WithinReach(p, f.at)
  /\ disk' = (disk \ old) \cup new
  /\ replaced' = replaced \cup old
  /\ worker' = [worker EXCEPT ![p].made = @ \cup new]
  /\ UNCHANGED <<memory, records, head, gone, quarantined, accepted, launched>>

\* Whether the files of its write root are walked is of no concern.
AgentWrites(p) == \E place \in Places, walked \in BOOLEAN :
  LET file == [by |-> p, launch |-> worker[p].number, at |-> place, walked |-> walked, edited |-> 0] IN
  /\ walked \/ place # WriteRoot(p)
  /\ file \notin worker[p].made /\ Cardinality(worker[p].made) < MaxWrites
  /\ AgentChanges(p, {}, {file})

AgentEdits(p) == \E f \in disk \ worker[p].made :
  /\ Cardinality(replaced) < MaxReplaced
  /\ AgentChanges(p, {f}, {[f EXCEPT !.edited = worker[p].number]})

AgentRemoves(p) == \E f \in disk \ worker[p].made :
  /\ Cardinality(replaced) < MaxReplaced
  /\ AgentChanges(p, {f}, {})

AgentEnds(p) ==
  /\ CanWork(p)
  /\ worker' = [worker EXCEPT ![p] = GoesTo(p, "inspect", "open")]
  /\ UNCHANGED <<memory, records, trees, tally>>

\* decide_partial_recovery without resume metadata and without a result.  Resuming keeps the
\* files and comes to no more than the failed status: the next attempt is started afresh.
PartialRecovery(p) ==
  LET progressUseful == Changed(Repo[p]) # {} IN
  IF ChangedOutside(p) # {} THEN "quarantine"
  ELSE IF progressUseful THEN "failed"
  ELSE IF p \in Restores THEN "rollback" ELSE "quarantine"

\* handle_timeout looks only at what changed in the clone, not for escapes.
AgentTimesOut(p) ==
  /\ CanWork(p)
  /\ worker' = [worker EXCEPT ![p] = GoesTo(p, PartialRecovery(p), "timed_out")]
  /\ UNCHANGED <<memory, records, trees, tally>>

(***************************************************************************)
(* After the agent: boundaries, gates and the result                       *)
(***************************************************************************)
\* The first escape is to be quarantined, changed files before new ones.
Inspect(p) ==
  LET escapes == IF ChangedOutside(p) # {} THEN ChangedOutside(p) ELSE NewEscapes(p) IN
  /\ Due(p, "inspect")
  /\ \/ /\ escapes = {}
        /\ worker' = [worker EXCEPT ![p] = GoesTo(p, "verifying", "open")]
     \/ \E f \in escapes : worker' = [worker EXCEPT ![p] =
          [GoesTo(p, "quarantine", "escaped") EXCEPT !.target = AtPath(f, disk)]]
  /\ UNCHANGED <<memory, records, trees, tally>>

\* The required gates, extract_phase_result and the status of the result.
Verdicts == {<<"passed", "passed">>, <<"failed", "refused">>, <<"failed", "no_result">>,
             <<"needs_review", "refused">>}

\* Fault: the accepted result is not projected.
JudgeUnprojected(p) ==
  /\ Due(p, "gates")
  /\ \E v \in Verdicts : worker' = [worker EXCEPT ![p] =
       GoesTo(p, IF v[1] = "passed" THEN "checkpoint" ELSE v[1], v[2])]
  /\ UNCHANGED <<memory, records, trees, tally>>

Judge(p) ==
  /\ Due(p, "gates")
  /\ \E v \in Verdicts : worker' = [worker EXCEPT ![p] = GoesTo(p, v[1], v[2])]
  /\ UNCHANGED <<memory, records, trees, tally>>

(***************************************************************************)
(* workspace/: quarantine, rollback, checkpoint and the manifest           *)
(***************************************************************************)
\* escape_target falls back to the clone; a timeout has no other target.
TargetLost(p) == worker[p].target = {} \/ ~(worker[p].target \subseteq disk)

\* quarantine_path: the move, the entry, and the cap on entries, oldest first.
Quarantine(p) ==
  LET r == Repo[p]
      whole == TargetLost(p)
      moved == IF whole THEN Tree(r) ELSE worker[p].target
      entries == Append(worker[p].manifest.quarantines, moved)
      surplus == IF Len(entries) > MaxQuarantine THEN Len(entries) - MaxQuarantine ELSE 0
      removed == UNION {entries[i] : i \in 1..surplus}
  IN
  /\ Due(p, "quarantine")
  /\ ~(whole /\ r \in gone)
  /\ disk' = disk \ moved
  /\ gone' = IF whole THEN gone \cup {r} ELSE gone
  /\ quarantined' = (quarantined \cup moved) \ removed
  /\ worker' = [worker EXCEPT ![p] =
       [Goes(p) EXCEPT !.manifest.quarantines = SubSeq(entries, surplus + 1, Len(entries))]]
  /\ UNCHANGED <<memory, records, head, tally>>

\* Fault: the checkpoint of the intake.
FirstCheckpoint(p) == Head(worker[p].manifest.checkpoints[Repo[p]])

\* The latest checkpoint in the worker's own manifest.
LatestCheckpoint(p) == Latest(worker[p].manifest.checkpoints[Repo[p]])

\* rollback_to_checkpoint: reset --hard and clean.
Rollback(p) ==
  /\ Due(p, "rollback") /\ Repo[p] \notin gone
  /\ disk' = (disk \ Tree(Repo[p])) \cup LatestCheckpoint(p)
  /\ head' = [head EXCEPT ![Repo[p]] = LatestCheckpoint(p)]
  /\ worker' = [worker EXCEPT ![p] = Goes(p)]
  /\ UNCHANGED <<memory, records, gone, quarantined, tally>>

\* The error of a rollback is ignored.
RollbackFails(p) ==
  /\ Due(p, "rollback") /\ (Repo[p] \in gone \/ "git" \in Faults)
  /\ worker' = [worker EXCEPT ![p] = Goes(p)]
  /\ UNCHANGED <<memory, records, trees, tally>>

\* Fault: the record names the commit before.
CheckpointParent(p) ==
  /\ Due(p, "checkpoint") /\ Repo[p] \notin gone
  /\ head' = [head EXCEPT ![Repo[p]] = Tree(Repo[p])]
  /\ worker' = [worker EXCEPT ![p] =
       [Goes(p) EXCEPT !.manifest.checkpoints[Repo[p]] = Append(@, head[Repo[p]])]]
  /\ UNCHANGED <<memory, records, disk, gone, quarantined, tally>>

\* create_checkpoint: add -A, commit, and a record in the worker's manifest.
Checkpoint(p) ==
  /\ Due(p, "checkpoint") /\ Repo[p] \notin gone
  /\ head' = [head EXCEPT ![Repo[p]] = Tree(Repo[p])]
  /\ worker' = [worker EXCEPT ![p] =
       [Goes(p) EXCEPT !.manifest.checkpoints[Repo[p]] = Append(@, Tree(Repo[p]))]]
  /\ UNCHANGED <<memory, records, disk, gone, quarantined, tally>>

\* The commit succeeds and a later git command of the checkpoint does not.
CommitUnrecorded(p) ==
  /\ Due(p, "checkpoint") /\ Repo[p] \notin gone /\ "git" \in Faults
  /\ head' = [head EXCEPT ![Repo[p]] = Tree(Repo[p])]
  /\ worker' = [worker EXCEPT ![p] = Errs(p)]
  /\ UNCHANGED <<memory, records, disk, gone, quarantined, tally>>

\* write_manifest: every worker writes the same temporary file, and renames it.
WriteManifest(p) ==
  /\ Due(p, "write")
  /\ manifestTmp' = {worker[p].manifest}
  /\ worker' = [worker EXCEPT ![p] = Goes(p)]
  /\ UNCHANGED <<memory, planFile, manifestFile, trees, tally>>

RenameManifest(p) ==
  /\ Due(p, "rename") /\ manifestTmp # {}
  /\ manifestFile' = CHOOSE m \in manifestTmp : TRUE
  /\ manifestTmp' = {}
  /\ worker' = [worker EXCEPT ![p] = Goes(p)]
  /\ UNCHANGED <<memory, planFile, trees, tally>>

\* run_phase_worker on Ok.
PublishPlan(p) ==
  /\ Due(p, "publish_plan")
  /\ lastPlan' = worker[p].plan
  /\ worker' = [worker EXCEPT ![p] = Goes(p)]
  /\ UNCHANGED <<lastWorkspace, records, trees, tally>>

PublishWorkspace(p) ==
  /\ Due(p, "publish_workspace")
  /\ lastWorkspace' = worker[p].manifest
  /\ worker' = [worker EXCEPT ![p] = Goes(p)]
  /\ UNCHANGED <<lastPlan, records, trees, tally>>

(***************************************************************************)
(* Errors: execute_phase returns at the step that fails.                   *)
(***************************************************************************)
\* Where the code has a `?`, and what makes it return.
MayFail(p) ==
  \/ Due(p, "agent") /\ ("agent" \in Faults \/ ~CanWork(p))
  \/ Due(p, "gates") /\ "gates" \in Faults
  \/ "files" \in Faults /\ \E step \in Statuses \cup {"quarantine", "write", "rename"} : Due(p, step)
  \/ Due(p, "quarantine") /\ TargetLost(p) /\ Repo[p] \in gone
  \/ Due(p, "checkpoint") /\ ("git" \in Faults \/ Repo[p] \in gone)
  \/ Due(p, "rename") /\ manifestTmp = {}  \* renamed by another worker

StepFails(p) ==
  /\ MayFail(p)
  /\ worker' = [worker EXCEPT ![p] = Errs(p)]
  /\ UNCHANGED <<memory, records, trees, tally>>

Next == \E p \in Phases :
  \/ Launch(p) \/ TakeWorkspace(p) \/ Harvest(p)
  \/ Project(p) \/ ProjectionCut(p) \/ Baseline(p)
  \/ AgentWrites(p) \/ AgentEdits(p) \/ AgentRemoves(p) \/ AgentEnds(p) \/ AgentTimesOut(p)
  \/ Inspect(p) \/ Judge(p)
  \/ Quarantine(p) \/ Rollback(p) \/ RollbackFails(p)
  \/ Checkpoint(p) \/ CommitUnrecorded(p)
  \/ WriteManifest(p) \/ RenameManifest(p)
  \/ PublishPlan(p) \/ PublishWorkspace(p)
  \/ StepFails(p)

Spec == Init /\ [][Next]_vars

(***************************************************************************)
(* Properties                                                              *)
(***************************************************************************)
\* Every variable keeps its type.
ExecTypeOK ==
  /\ worker \in [Phases -> Calls]
  /\ lastPlan \in Plans /\ planFile \in Plans
  /\ lastWorkspace \in Manifests /\ manifestFile \in Manifests
  /\ manifestTmp \subseteq Manifests
  /\ disk \subseteq Files /\ quarantined \subseteq Files
  /\ head \in [Repos -> SUBSET Files] /\ gone \subseteq Repos
  /\ accepted \subseteq Phases /\ launched \in 0..MaxLaunches /\ replaced \subseteq Files

\* What the agent of p wrote in its write root, and no agent changed or removed since.
Standing(p) == {f \in worker[p].made \ replaced : f.at = WriteRoot(p)}

\* What an accepted attempt wrote in its write root is on disk or in quarantine, unless an agent
\* changed it since: no rollback, quarantine or retention that another phase causes destroys it
\* (rollback_to_checkpoint, quarantine_path).
AcceptedWorkKept ==
  \A p \in accepted : Standing(p) \subseteq disk \cup quarantined

\* A phase accepted in a clone without worktree has its work, but for what an agent changed since,
\* in the commit the clone is at and in the latest checkpoint of manifest.json and of
\* last_workspace, as long as the clone is there (create_checkpoint, write_manifest: passed only
\* after the checkpoint).
CheckpointRecorded ==
  \A p \in accepted : LET r == Repo[p] IN
    r \notin gone \cup Worktrees =>
      \A tree \in {head[r], Latest(manifestFile.checkpoints[r]), Latest(lastWorkspace.checkpoints[r])} :
        Standing(p) \subseteq tree

\* A phase passed in the database is passed in plan.json and in the plan the next worker copies,
\* whatever became of the attempts since (project_plan_files, run_phase_worker).
PassedIsProjected ==
  \A p \in accepted : lastPlan[p] = "passed" /\ planFile[p] = "passed"

\* An attempt whose agent left a file of a new path outside its write root, where the snapshot
\* goes, never passes, on whatever way the attempt ends (find_new_escapes, handle_timeout).
EscapeNeverPasses ==
  \A p \in Phases : (worker[p].end = "passed" \/ p \in accepted) =>
    \A f \in worker[p].made : f.edited = 0 /\ f.walked => f.at = WriteRoot(p)
=============================================================================
