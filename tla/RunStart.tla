------------------------------ MODULE RunStart ------------------------------
(***************************************************************************)
(* How a run comes to be executed: start_run and run_supervisor of         *)
(* orchestrator/runner.rs up to the loading of the scheduler, over the     *)
(* workspace that workspace/manager.rs materializes and the plan that the  *)
(* architect of planner/architect.rs makes, with the Stop button and a     *)
(* user who edits the sources meanwhile.                                   *)
(*                                                                         *)
(* Tauri runs the commands on the main thread, one after the other; the    *)
(* main thread and the supervisor thread of a run interleave.  at is the   *)
(* step a supervisor takes next, one name per step that touches shared     *)
(* state; what happens in "executing" is Scheduler.tla.                    *)
(*                                                                         *)
(* A source is the content of the part of it that walk_files fingerprints, *)
(* known by its hash; directories and files it ignores are copied all the  *)
(* same and are not modelled.  A plan is the number of the architect's     *)
(* attempt that made it.                                                   *)
(***************************************************************************)
EXTENDS Integers, FiniteSets

CONSTANTS
  Sources,   \* how many projects the intake found; materialized in this order
  MaxRuns,   \* bound: runs started
  MaxEdits,  \* bound: edits of the sources
  MaxStops,  \* bound: presses of Stop
  Faults     \* what may go wrong: subset of FaultKinds

FaultKinds == {"thread",  \* the operating system refuses a thread
               "store",   \* a status or an event cannot be written
               "source",  \* a source cannot be read, cloned or copied
               "cli",     \* no usable Cursor CLI, model or prompt
               "agent",   \* the hosted call of the architect returns an error
               "files",   \* writing under the managed root does
               "git"}     \* a git command of a checkpoint does

ASSUME RunStartAssumption ==
  /\ Sources \in Nat \ {0}
  /\ MaxRuns \in Nat /\ MaxEdits \in Nat /\ MaxStops \in Nat
  /\ Faults \subseteq FaultKinds

Runs == 1..MaxRuns
Sequence == 1..Sources
Versions == 0..MaxEdits
None == -1                       \* no version
Plans == 0..2                    \* 0 is no plan
PlanCopies == (0..MaxRuns) \X Plans

Roots == 0..MaxRuns

Fingerprints == [Sequence -> Versions \cup {None}]
NoFingerprints == [s \in Sequence |-> None]

\* manifest.json: whose it is and the fingerprints of the sources.  The list of checkpoints, of
\* which a failed write loses the last, is left to Executor.
Manifests == [run : Runs, before : Fingerprints]

Steps == {"none", "preflight", "check_preflight", "announce", "check_started", "preflighting",
          "fingerprint", "copy", "snapshot", "clone", "overlay", "compare", "manifest", "materialized", "check_materialized", "planning",
          "probe", "ask", "asking", "bootstrap", "artifacts", "checkpoint", "rewrite",
          "publish", "refused", "compiled", "check_compiled", "execute", "load", "executing",
          "cancelled_early", "cancelled", "failed", "done"}

RunStatuses == {"none", "started", "preflighting", "planning", "executing", "cancelling", "cancelled",
                "failed", "completed"}

\* The thread of a run: its place, whether it got a cached report, the source it is at, what it
\* holds of their fingerprints, the architect's attempt, the agent, and the plan it got.
Supervisors == [at : Steps, cached : BOOLEAN, source : 1..Sources + 1, before : Fingerprints,
                attempt : 0..2, agent : {"none", "running", "killed"}, plan : Plans]

VARIABLES
  kind,          \* what the sources are, all of them: notes, folders or repositories
  main,          \* main thread: what the command it runs does next
  slot,          \* AppState.orchestrator: a run or 0
  joined,        \* the slot has the join handle
  preflight,     \* AppState.last_preflight
  lastRun,       \* runs created so far
  status,        \* runs.status
  cancel,        \* runs whose cancel flag is set
  sup,           \* supervisor threads
  version,       \* the sources on the user's disk
  edits,         \* edits of them
  undone,        \* roots and sources of which an edit was taken back while they were copied
  copied,        \* per root and source: the versions files were copied of
  manifestFile,  \* per root: no or one manifest.json
  planFile,      \* per root: plan.json in .tiamat, <<run, plan>>, <<0, 0>> when there is none
  planCommit,    \* per root: plan.json in the last commit of the control repository
  lastPlan,      \* AppState.last_plan
  workers,       \* per run: the copies of last_plan its phase workers hold
  abandoned,     \* runs that ended in an error with workers at work
  scheduled,     \* per run: the plan loaded into the scheduler
  stops          \* presses of Stop

commandVars == <<kind, main, slot, joined, preflight, lastRun>>
userVars == <<cancel, stops, edits, undone>>
rootVars == <<copied, manifestFile, planFile, planCommit>>
memory == <<lastPlan, workers, abandoned>>
vars == <<commandVars, userVars, status, sup, version, rootVars, memory, scheduled>>

NoThread == [at |-> "none", cached |-> FALSE, source |-> 1, before |-> NoFingerprints,
             attempt |-> 0, agent |-> "none", plan |-> 0]

Init ==
  /\ kind \in {"notes", "folder", "git"}
  /\ main = "idle" /\ slot = 0 /\ joined = FALSE /\ preflight = "none" /\ lastRun = 0
  /\ status = [r \in Runs |-> "none"] /\ cancel = {} /\ stops = 0 /\ edits = 0 /\ undone = {}
  /\ sup = [r \in Runs |-> NoThread] /\ version = [s \in Sequence |-> 0]
  /\ copied = [o \in Roots |-> [s \in Sequence |-> {}]] /\ manifestFile = [o \in Roots |-> {}]
  /\ planFile = [o \in Roots |-> <<0, 0>>] /\ planCommit = [o \in Roots |-> <<0, 0>>]
  /\ lastPlan = <<0, 0>> /\ workers = [r \in Runs |-> {}] /\ abandoned = {}
  /\ scheduled = [r \in Runs |-> 0]

(***************************************************************************)
(* Helpers                                                                 *)
(***************************************************************************)
\* intake_is_notes_only: the output directory itself, the same for all runs, or run-<id> in it.
Root(r) == IF kind = "notes" THEN 0 ELSE r

Due(r, step) == sup[r].at = step
Live(r) == sup[r].at \notin {"none", "done"}
\* A thread that ends holds nothing any more.
Goes(r, step) ==
  IF step = "done" THEN [sup EXCEPT ![r] = [NoThread EXCEPT !.at = "done"]] ELSE [sup EXCEPT ![r].at = step]

\* JoinHandle::is_finished: a slot without a handle does not count as a live supervisor.
SlotBusy == slot # 0 /\ joined /\ Live(slot)

(***************************************************************************)
(* Main thread: intake.  Only start_run reads the report, so that nothing  *)
(* is lost when it is left alone after the last start.                     *)
(***************************************************************************)
MayStart == main = "idle" /\ lastRun < MaxRuns

\* run_intake_preflight: a new report is not trusted yet.
RunIntakePreflight ==
  /\ MayStart
  /\ preflight' = "untrusted"
  /\ UNCHANGED <<kind, main, slot, joined, lastRun, userVars, status, sup, version, rootVars, memory, scheduled>>

\* confirm_intake_trust: both risks acknowledged, or not; apply_trust recomputes can_start.
ConfirmIntakeTrust ==
  /\ MayStart /\ preflight # "none"
  /\ preflight' \in {"trusted", "untrusted"}
  /\ UNCHANGED <<kind, main, slot, joined, lastRun, userVars, status, sup, version, rootVars, memory, scheduled>>

ClearIntakePreflight ==
  /\ MayStart
  /\ preflight' = "none"
  /\ UNCHANGED <<kind, main, slot, joined, lastRun, userVars, status, sup, version, rootVars, memory, scheduled>>

(***************************************************************************)
(* Main thread: start_run                                                  *)
(***************************************************************************)
\* Fault: the slot is taken without a look at its thread.
StartUnguarded ==
  /\ MayStart /\ preflight # "untrusted"
  /\ lastRun' = lastRun + 1
  /\ status' = [status EXCEPT ![lastRun'] = "started"]
  /\ sup' = [sup EXCEPT ![lastRun'].cached = (preflight = "trusted")]
  /\ slot' = lastRun' /\ joined' = FALSE /\ main' = "spawn"
  /\ UNCHANGED <<kind, preflight, userVars, version, rootVars, memory, scheduled>>

\* The slot is emptied, the run created, and its handle put in the slot.
StartRun ==
  /\ MayStart /\ ~SlotBusy /\ preflight # "untrusted"
  /\ lastRun' = lastRun + 1
  /\ status' = [status EXCEPT ![lastRun'] = "started"]
  /\ sup' = [sup EXCEPT ![lastRun'].cached = (preflight = "trusted")]
  /\ slot' = lastRun' /\ joined' = FALSE /\ main' = "spawn"
  /\ UNCHANGED <<kind, preflight, userVars, version, rootVars, memory, scheduled>>

\* An untrusted report, or a run that cannot be created: the slot has been emptied already.
StartRefused ==
  /\ MayStart /\ ~SlotBusy
  /\ preflight = "untrusted" \/ "store" \in Faults
  /\ slot' = 0 /\ joined' = FALSE
  /\ UNCHANGED <<kind, main, preflight, lastRun, userVars, status, sup, version, rootVars, memory, scheduled>>

Spawn ==
  /\ main = "spawn"
  /\ sup' = Goes(slot, IF sup[slot].cached THEN "check_preflight" ELSE "preflight")
  /\ main' = "join"
  /\ UNCHANGED <<kind, slot, joined, preflight, lastRun, userVars, status, version, rootVars, memory, scheduled>>

\* The run stays "started" and in the slot, without a thread.
SpawnFails ==
  /\ main = "spawn" /\ "thread" \in Faults
  /\ main' = "idle"
  /\ UNCHANGED <<kind, slot, joined, preflight, lastRun, userVars, status, sup, version, rootVars, memory, scheduled>>

StoreJoin ==
  /\ main = "join"
  /\ joined' = TRUE /\ main' = "idle"
  /\ UNCHANGED <<kind, slot, preflight, lastRun, userVars, status, sup, version, rootVars, memory, scheduled>>

(***************************************************************************)
(* Main thread: cancel_active_run.  Without a run in the slot the command  *)
(* kills stray processes of the host; none is known here.                  *)
(***************************************************************************)
RequestCancel ==
  /\ main = "idle" /\ slot # 0 /\ stops < MaxStops
  /\ cancel' = cancel \cup {slot} /\ stops' = stops + 1
  /\ main' = "kill"
  /\ UNCHANGED <<kind, slot, joined, preflight, lastRun, edits, undone, status, sup, version, rootVars, memory, scheduled>>

\* cancel_all_for_run and cancel_all: every live process, of this run and of the others.
KillAgents ==
  /\ main = "kill"
  /\ sup' = [r \in Runs |-> IF sup[r].agent = "running" THEN [sup[r] EXCEPT !.agent = "killed"] ELSE sup[r]]
  /\ main' = "mark"
  /\ UNCHANGED <<kind, slot, joined, preflight, lastRun, userVars, status, version, rootVars, memory, scheduled>>

\* The error of the write is ignored.
MarkCancelling ==
  /\ main = "mark"
  /\ status' \in {[status EXCEPT ![slot] = "cancelling"]} \cup (IF "store" \in Faults THEN {status} ELSE {})
  /\ main' = "idle"
  /\ UNCHANGED <<kind, slot, joined, preflight, lastRun, userVars, sup, version, rootVars, memory, scheduled>>

\* The user, at any time; what is edited when no supervisor is between two looks at the source is
\* not told from its first content.  The n-th edit makes content n, or brings an earlier one back.
Reading == {"copy", "snapshot", "clone", "overlay", "compare"}

Reads(r, s) == sup[r].at \in Reading /\ sup[r].source = s

EditSource(s) ==
  /\ edits < MaxEdits /\ \E r \in Runs : Reads(r, s)
  /\ edits' = edits + 1
  /\ \E v \in 0..edits' :
       /\ v # version[s] /\ version' = [version EXCEPT ![s] = v]
       /\ undone' = undone \cup {<<Root(r), s>> : r \in {q \in Runs : Reads(q, s) /\ sup[q].before[s] = v}}
  /\ UNCHANGED <<commandVars, cancel, stops, status, sup, rootVars, memory, scheduled>>

(***************************************************************************)
(* Supervisor: statuses, events and the looks at the cancel flag           *)
(***************************************************************************)
\* set_run_status.
StatusAt == [preflighting |-> "preflighting", planning |-> "planning", execute |-> "executing",
             refused |-> "failed", failed |-> "failed",
             cancelled |-> "cancelled", cancelled_early |-> "cancelled"]

\* emit_run_event; before "materialized" AppState gets the workspace, which is not modelled here.
EventSteps == {"announce", "materialized", "compiled"}

AfterCheck == [check_preflight |-> "announce", check_started |-> "preflighting",
               check_materialized |-> "planning", check_compiled |-> "execute"]

After(step) ==
  CASE step = "announce" -> "check_started"
    [] step = "preflighting" -> "fingerprint"
    [] step = "materialized" -> "check_materialized"
    [] step = "planning" -> "probe"
    [] step = "compiled" -> "check_compiled"
    [] step = "execute" -> "load"
    [] step = "refused" -> "failed"
    [] step \in {"failed", "cancelled", "cancelled_early"} -> "done"

WriteStatus(r) == \E step \in DOMAIN StatusAt :
  /\ Due(r, step)
  /\ status' = [status EXCEPT ![r] = StatusAt[step]]
  /\ sup' = Goes(r, After(step))
  /\ UNCHANGED <<commandVars, userVars, version, rootVars, memory, scheduled>>

EmitEvent(r) == \E step \in EventSteps :
  /\ Due(r, step)
  /\ sup' = Goes(r, After(step))
  /\ UNCHANGED <<commandVars, userVars, status, version, rootVars, memory, scheduled>>

\* `?` on a status or an event: the supervisor returns an error.  The writes after an error, and
\* of a Stop before run_supervisor is called, are tried once, and their own errors ignored.
StoreFails(r) ==
  /\ "store" \in Faults
  /\ sup[r].at \in DOMAIN StatusAt \cup EventSteps
  /\ sup' = Goes(r, IF sup[r].at \in {"failed", "cancelled_early"} THEN "done" ELSE "failed")
  /\ UNCHANGED <<commandVars, userVars, status, version, rootVars, memory, scheduled>>

\* A status has been written, and its event cannot be.
EventFails(r) == \E step \in {"refused", "cancelled"} :
  /\ Due(r, step) /\ "store" \in Faults
  /\ status' = [status EXCEPT ![r] = StatusAt[step]]
  /\ sup' = Goes(r, "failed")
  /\ UNCHANGED <<commandVars, userVars, version, rootVars, memory, scheduled>>

CheckCancel(r) == \E step \in DOMAIN AfterCheck :
  /\ Due(r, step)
  /\ sup' = Goes(r, IF r \notin cancel THEN AfterCheck[step]
                    ELSE IF step = "check_preflight" THEN "cancelled_early" ELSE "cancelled")
  /\ UNCHANGED <<commandVars, userVars, status, version, rootVars, memory, scheduled>>

\* run_preflight in the thread gives a report nobody has trusted: can_start is false.
PreflightInThread(r) ==
  /\ Due(r, "preflight")
  /\ sup' = Goes(r, "failed")
  /\ UNCHANGED <<commandVars, userVars, status, version, rootVars, memory, scheduled>>

(***************************************************************************)
(* Supervisor: materialize_run_workspace.  A run-<id> is new.  In the flat *)
(* layout the sources stay where they are.                                 *)
(***************************************************************************)
RootTaken(r) == kind = "notes" /\ sup[r].source = 1 /\ manifestFile[Root(r)] # {}

FirstRead == [folder |-> "copy", git |-> "snapshot"]

\* Flat layout: capture_fingerprint before; a root with a manifest is refused before the first.
\* Notes are read where they are.
FingerprintNotes(r) ==
  /\ Due(r, "fingerprint") /\ kind = "notes"
  /\ \/ RootTaken(r) /\ sup' = Goes(r, "failed")
     \/ /\ ~RootTaken(r)
        /\ sup' = [sup EXCEPT ![r].before[sup[r].source] = version[sup[r].source], ![r].at = "compare"]
  /\ UNCHANGED <<commandVars, userVars, status, version, rootVars, memory, scheduled>>

\* capture_fingerprint before, in a layout of its own for the run.
Fingerprint(r) ==
  /\ Due(r, "fingerprint") /\ kind # "notes"
  /\ sup' = [sup EXCEPT ![r].before[sup[r].source] = version[sup[r].source], ![r].at = FirstRead[kind]]
  /\ UNCHANGED <<commandVars, userVars, status, version, rootVars, memory, scheduled>>

\* A copy takes time: what is read is of the version at the time it is read.
Copies(r) == copied' = [copied EXCEPT ![Root(r)][sup[r].source] = @ \cup {version[sup[r].source]}]

\* guarded_copy of a folder that is no repository, file by file.
CopyFolder(r) ==
  /\ Due(r, "copy")
  /\ Copies(r)
  /\ sup' \in {sup, Goes(r, "compare")}
  /\ UNCHANGED <<commandVars, userVars, status, version, manifestFile, planFile, planCommit, memory, scheduled>>

\* capture_dirty_snapshot, when the working tree has changes.
CaptureDirty(r) ==
  /\ Due(r, "snapshot")
  /\ Copies(r) \/ copied' = copied
  /\ sup' = Goes(r, "clone")
  /\ UNCHANGED <<commandVars, userVars, status, version, manifestFile, planFile, planCommit, memory, scheduled>>

\* clone_owned_no_hardlinks: the commits; with a snapshot the overlay comes next.
CloneSource(r) ==
  /\ Due(r, "clone")
  /\ Copies(r)
  /\ sup' = Goes(r, IF copied[Root(r)][sup[r].source] = {} THEN "compare" ELSE "overlay")
  /\ UNCHANGED <<commandVars, userVars, status, version, manifestFile, planFile, planCommit, memory, scheduled>>

\* apply_dirty_overlay: the index from the snapshot, the files from the working tree as it is now.
ApplyOverlay(r) ==
  /\ Due(r, "overlay")
  /\ Copies(r)
  /\ sup' \in {sup, Goes(r, "compare")}
  /\ UNCHANGED <<commandVars, userVars, status, version, manifestFile, planFile, planCommit, memory, scheduled>>

NextSource(r) ==
  [sup EXCEPT ![r].source = @ + 1,
              ![r].at = IF sup[r].source = Sources THEN "manifest" ELSE "fingerprint"]

\* Fault: the fingerprint after the copy is not compared.
CompareSkipped(r) ==
  /\ Due(r, "compare")
  /\ sup' = NextSource(r)
  /\ UNCHANGED <<commandVars, userVars, status, version, rootVars, memory, scheduled>>

\* capture_fingerprint after and ensure_source_unchanged: a content that came back passes.
CompareSource(r) == LET s == sup[r].source IN
  /\ Due(r, "compare")
  /\ sup' = IF version[s] = sup[r].before[s] THEN NextSource(r) ELSE Goes(r, "failed")
  /\ UNCHANGED <<commandVars, userVars, status, version, rootVars, memory, scheduled>>

Manifest(r) == [run |-> r, before |-> sup[r].before]

PutManifest(r) ==
  /\ manifestFile' = [manifestFile EXCEPT ![Root(r)] = {Manifest(r)}]
  /\ sup' = Goes(r, "materialized")
  /\ UNCHANGED <<commandVars, userVars, status, version, copied, planFile, planCommit, memory, scheduled>>

\* Flat layout: the product at the root itself, its first checkpoint, and write_manifest last.
WriteFlatManifest(r) == Due(r, "manifest") /\ kind = "notes" /\ PutManifest(r)

\* The intake checkpoints, the default greenfield project, and write_manifest last.
WriteManifest(r) == Due(r, "manifest") /\ kind # "notes" /\ PutManifest(r)

(***************************************************************************)
(* Supervisor: run_architect_pipeline.  It never looks at the cancel flag. *)
(***************************************************************************)
\* fail: the pipeline returns, and what it did to the workspace stays.
NoPlan(r) == [sup EXCEPT ![r].at = "publish", ![r].plan = 0, ![r].agent = "none"]

\* A fresh probe that passes, select_architect_model, check_prompt_size.
Probe(r) ==
  /\ Due(r, "probe")
  /\ sup' = Goes(r, "ask")
  /\ UNCHANGED <<commandVars, userVars, status, version, rootVars, memory, scheduled>>

\* gate_architect_capability: no CLI of a known version with plan mode and a login; or no model,
\* no executable, or too long a prompt.
CapabilityRefused(r) ==
  /\ Due(r, "probe") /\ "cli" \in Faults
  /\ sup' = NoPlan(r)
  /\ UNCHANGED <<commandVars, userVars, status, version, rootVars, memory, scheduled>>

\* build_architect_command in plan mode, and the hosted call.
AskArchitect(r) ==
  /\ Due(r, "ask")
  /\ sup' = [sup EXCEPT ![r].at = "asking", ![r].attempt = @ + 1, ![r].agent = "running"]
  /\ UNCHANGED <<commandVars, userVars, status, version, rootVars, memory, scheduled>>

\* Fault: an invalid plan is repaired for as long as it takes.
AfterInvalidEndless(r) == [sup EXCEPT ![r].at = "ask", ![r].attempt = 1, ![r].agent = "none"]

\* Fault: the attempts are not counted.
AfterInvalidAlways(r) == [sup EXCEPT ![r].at = "ask", ![r].agent = "none"]

\* One repair in the chat of the first attempt or, when that gave no chat id, one fresh attempt.
AfterInvalid(r) ==
  IF sup[r].attempt = 1 THEN [sup EXCEPT ![r].at = "ask", ![r].agent = "none"] ELSE NoPlan(r)

\* The hosted call errs before there is a process.
AskFails(r) ==
  /\ Due(r, "asking") /\ "agent" \in Faults /\ sup[r].agent = "running"
  /\ sup' = AfterInvalid(r)
  /\ UNCHANGED <<commandVars, userVars, status, version, rootVars, memory, scheduled>>

\* Nothing extracted, not compiled, not valid; or a good plan of a process that was killed, timed
\* out or failed.
PlanInvalid(r) ==
  /\ Due(r, "asking") /\ sup[r].agent # "none"
  /\ sup' = AfterInvalid(r)
  /\ UNCHANGED <<commandVars, userVars, status, version, rootVars, memory, scheduled>>

PlanValid(r) ==
  /\ Due(r, "asking") /\ sup[r].agent = "running"
  /\ sup' = [sup EXCEPT ![r].at = "bootstrap", ![r].agent = "none"]
  /\ UNCHANGED <<commandVars, userVars, status, version, rootVars, memory, scheduled>>

\* bootstrap_plan_greenfield_projects, and a manifest whose errors are warnings.
Bootstrap(r) ==
  /\ Due(r, "bootstrap")
  /\ sup' \in {Goes(r, "artifacts")} \cup (IF "git" \in Faults THEN {NoPlan(r)} ELSE {})
  /\ UNCHANGED <<commandVars, userVars, status, version, rootVars, memory, scheduled>>

\* write_architect_plan_artifacts: MASTER-PLAN.md, plan.json, PLAN-SCHEDULE.md, each by a rename.
WriteArtifacts(r) ==
  /\ Due(r, "artifacts")
  /\ planFile' = [planFile EXCEPT ![Root(r)] = <<r, sup[r].attempt>>]
  /\ sup' \in {Goes(r, "checkpoint")} \cup (IF "files" \in Faults THEN {NoPlan(r)} ELSE {})
  /\ UNCHANGED <<commandVars, userVars, status, version, copied, manifestFile, planCommit, memory, scheduled>>

\* Fault: an error of the checkpoint is only a warning.
CheckpointOptional(r) ==
  /\ Due(r, "checkpoint")
  /\ \/ /\ planCommit' = [planCommit EXCEPT ![Root(r)] = planFile[Root(r)]]
        /\ sup' = Goes(r, "rewrite")
     \/ /\ "git" \in Faults
        /\ planCommit' = planCommit /\ sup' = Goes(r, "rewrite")
  /\ UNCHANGED <<commandVars, userVars, status, version, copied, manifestFile, planFile, memory, scheduled>>

\* create_control_checkpoint: the commit, then its record; either may fail.
CheckpointPlan(r) ==
  /\ Due(r, "checkpoint")
  /\ \/ /\ planCommit' = [planCommit EXCEPT ![Root(r)] = planFile[Root(r)]]
        /\ sup' \in {Goes(r, "rewrite")} \cup (IF "git" \in Faults THEN {NoPlan(r)} ELSE {})
     \/ /\ "git" \in Faults
        /\ planCommit' = planCommit /\ sup' = NoPlan(r)
  /\ UNCHANGED <<commandVars, userVars, status, version, copied, manifestFile, planFile, memory, scheduled>>

\* The manifest with the checkpoint; an error is a warning.
RewriteManifest(r) ==
  /\ Due(r, "rewrite")
  /\ manifestFile' \in {[manifestFile EXCEPT ![Root(r)] = {Manifest(r)}]}
                       \cup (IF "files" \in Faults THEN {manifestFile} ELSE {})
  /\ sup' = [sup EXCEPT ![r].at = "publish", ![r].plan = sup[r].attempt]
  /\ UNCHANGED <<commandVars, userVars, status, version, copied, planFile, planCommit, memory, scheduled>>

\* The workspace, last_architect and, when there is one, last_plan.
Publish(r) ==
  /\ Due(r, "publish")
  /\ lastPlan' = IF sup[r].plan = 0 THEN lastPlan ELSE <<r, sup[r].plan>>
  /\ sup' = Goes(r, IF sup[r].plan = 0 THEN "refused" ELSE "compiled")
  /\ UNCHANGED <<commandVars, userVars, status, version, rootVars, workers, abandoned, scheduled>>

\* load_plan_into_scheduler.
LoadPlan(r) ==
  /\ Due(r, "load")
  /\ \/ /\ scheduled' = [scheduled EXCEPT ![r] = sup[r].plan]
        /\ sup' = Goes(r, "executing")
     \/ /\ "store" \in Faults
        /\ scheduled' = scheduled /\ sup' = Goes(r, "failed")
  /\ UNCHANGED <<commandVars, userVars, status, version, rootVars, memory>>

\* An error in materialize_run_workspace.
MaterializeFails(r) ==
  /\ \/ "source" \in Faults /\ sup[r].at \in {"fingerprint", "copy", "snapshot", "clone", "overlay", "compare"}
     \/ {"files", "git"} \cap Faults # {} /\ Due(r, "manifest")
  /\ sup' = Goes(r, "failed")
  /\ UNCHANGED <<commandVars, userVars, status, version, rootVars, memory, scheduled>>

(***************************************************************************)
(* The execution loop, as far as the copies of the plan go                 *)
(***************************************************************************)
\* A phase was started: its worker gets a copy of the plan that is in AppState now.
SpawnWorker(r) ==
  /\ Due(r, "executing")
  /\ workers' = [workers EXCEPT ![r] = @ \cup {lastPlan}]
  /\ UNCHANGED <<commandVars, userVars, status, sup, version, rootVars, lastPlan, abandoned, scheduled>>

\* project_plan_files: plan.json is the worker's copy of the plan.  A worker whose workspace was
\* left in AppState by an abandoned run writes there instead, where no run is executed any more.
WorkerProjects(r) ==
  /\ \E copy \in workers[r] : planFile' = [planFile EXCEPT ![Root(r)] = copy]
  /\ UNCHANGED <<commandVars, userVars, status, sup, version, copied, manifestFile, planCommit, memory, scheduled>>

\* create_control_checkpoint of a worker, a moment later.
WorkerCommits(r) ==
  /\ workers[r] # {}
  /\ planCommit' = [planCommit EXCEPT ![Root(r)] = planFile[Root(r)]]
  /\ UNCHANGED <<commandVars, userVars, status, sup, version, copied, manifestFile, planFile, memory, scheduled>>

\* run_phase_worker after execute_phase: the copy goes back, whoever is executed by then.
WorkerPublishes(r) ==
  /\ lastPlan' \in workers[r]
  /\ UNCHANGED <<commandVars, userVars, status, sup, version, rootVars, workers, abandoned, scheduled>>

\* The last worker with this copy ends.
WorkerEnds(r) ==
  /\ \E copy \in workers[r] : workers' = [workers EXCEPT ![r] = @ \ {copy}]
  /\ UNCHANGED <<commandVars, userVars, status, sup, version, rootVars, lastPlan, abandoned, scheduled>>

\* Every phase settled and every worker harvested; then the event.
SettleExecution(r) ==
  /\ Due(r, "executing") /\ workers[r] = {}
  /\ \E s \in {"completed", "failed"} : status' = [status EXCEPT ![r] = s]
  /\ sup' \in {Goes(r, "done")} \cup (IF "store" \in Faults THEN {Goes(r, "failed")} ELSE {})
  /\ UNCHANGED <<commandVars, userVars, version, rootVars, memory, scheduled>>

\* An error: the handles of the workers are dropped, and they go on.
AbandonExecution(r) ==
  /\ Due(r, "executing") /\ {"store", "thread"} \cap Faults # {}
  /\ sup' = Goes(r, "failed")
  /\ abandoned' = IF workers[r] = {} THEN abandoned ELSE abandoned \cup {r}
  /\ UNCHANGED <<commandVars, userVars, status, version, rootVars, lastPlan, workers, scheduled>>

\* The flag is seen: the agents are killed and the workers joined, which have published before.
CancelExecution(r) ==
  /\ Due(r, "executing") /\ r \in cancel
  /\ sup' = Goes(r, "cancelled")
  /\ workers' = [workers EXCEPT ![r] = {}]
  /\ UNCHANGED <<commandVars, userVars, status, version, rootVars, lastPlan, abandoned, scheduled>>

EndExecution(r) == SettleExecution(r) \/ AbandonExecution(r) \/ CancelExecution(r)

Work(r) == SpawnWorker(r) \/ WorkerProjects(r) \/ WorkerCommits(r) \/ WorkerPublishes(r) \/ WorkerEnds(r)

Commands ==
  \/ RunIntakePreflight \/ ConfirmIntakeTrust \/ ClearIntakePreflight
  \/ StartRun \/ StartRefused \/ RequestCancel

MainGoesOn == Spawn \/ SpawnFails \/ StoreJoin \/ KillAgents \/ MarkCancelling

Supervise(r) ==
  \/ WriteStatus(r) \/ EmitEvent(r) \/ StoreFails(r) \/ EventFails(r) \/ CheckCancel(r)
  \/ PreflightInThread(r)
  \/ FingerprintNotes(r) \/ Fingerprint(r) \/ CopyFolder(r) \/ CaptureDirty(r) \/ CloneSource(r) \/ ApplyOverlay(r)
  \/ CompareSource(r) \/ WriteFlatManifest(r) \/ WriteManifest(r)
  \/ MaterializeFails(r)
  \/ Probe(r) \/ CapabilityRefused(r) \/ AskArchitect(r) \/ AskFails(r) \/ PlanInvalid(r) \/ PlanValid(r)
  \/ Bootstrap(r) \/ WriteArtifacts(r) \/ CheckpointPlan(r) \/ RewriteManifest(r)
  \/ Publish(r) \/ LoadPlan(r)

Next ==
  \/ Commands \/ MainGoesOn
  \/ \E s \in Sequence : EditSource(s)
  \/ \E r \in Runs : Supervise(r) \/ EndExecution(r) \/ Work(r)

Spec == Init /\ [][Next]_vars

(***************************************************************************)
(* Threads go on, and the call of the architect ends: by itself, killed,   *)
(* or by its watchdog; a Stop ends the loop of the phases, whose workers   *)
(* it can join.  Nothing is said of the user, nor of a run nobody stops.   *)
(***************************************************************************)
Fairness ==
  /\ WF_vars(MainGoesOn)
  /\ \A r \in Runs : WF_vars(Supervise(r) \/ (r \in cancel /\ EndExecution(r)))

FairSpec == Spec /\ Fairness

(***************************************************************************)
(* Properties                                                              *)
(***************************************************************************)
\* Every variable keeps its type.
RunStartTypeOK ==
  /\ kind \in {"notes", "folder", "git"}
  /\ main \in {"idle", "spawn", "join", "kill", "mark"} /\ slot \in 0..MaxRuns /\ joined \in BOOLEAN
  /\ preflight \in {"none", "untrusted", "trusted"} /\ lastRun \in 0..MaxRuns
  /\ status \in [Runs -> RunStatuses] /\ cancel \subseteq Runs
  /\ stops \in 0..MaxStops /\ sup \in [Runs -> Supervisors] /\ version \in [Sequence -> Versions]
  /\ copied \in [Roots -> [Sequence -> SUBSET Versions]] /\ manifestFile \in [Roots -> SUBSET Manifests]
  /\ planFile \in [Roots -> PlanCopies] /\ planCommit \in [Roots -> PlanCopies]
  /\ edits \in 0..MaxEdits /\ undone \subseteq Roots \X Sequence /\ abandoned \subseteq Runs
  /\ lastPlan \in PlanCopies /\ workers \in [Runs -> SUBSET PlanCopies]
  /\ scheduled \in [Runs -> Plans]

\* At most one supervisor thread is alive, although its handle is stored only after it was
\* started: the workspace, the plan and the commands of the scheduler have one run in AppState
\* (start_run: the slot and JoinHandle::is_finished).
OneSupervisor == \A q, r \in Runs : Live(q) /\ Live(r) => q = r

\* A plan the scheduler executes is the one in plan.json, in the last commit of the control
\* repository, in AppState and with the workers of the run, whatever failed on the way; all that
\* may take its place there is the plan of a run that ended in an error and left workers at work
\* (run_architect_pipeline, run_supervisor, run_phase_worker).
ScheduledPlanIsDurable ==
  \A r \in Runs : Due(r, "executing") =>
    /\ scheduled[r] # 0
    /\ workers[r] \cup {lastPlan, planFile[Root(r)], planCommit[Root(r)]}
         \subseteq {<<q, scheduled[q]>> : q \in {r} \cup abandoned}

\* A manifest.json stands for a whole copy of what its fingerprints are of, although the user may
\* edit the sources while they are copied; all that escapes the fingerprints is an edit taken back
\* before the second look (materialize_isolated_workspace: the fingerprints around the copy, the
\* manifest last).
ManifestMeansCopied ==
  kind # "notes" => \A o \in Roots : \A m \in manifestFile[o] :
    \A s \in Sequence : <<o, s>> \notin undone => copied[o][s] = {m.before[s]}

\* The runs whose Stop was pressed end, wherever the Stop finds them
\* (cancel_active_run, run_supervisor, run_architect_pipeline).
StopEnds == cancel # {} ~> \A r \in cancel : ~Live(r)
=============================================================================
