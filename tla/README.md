# Tiamat: a TLA+ model of the run orchestrator

Tiamat is a desktop application (Tauri: a Rust back end, a React front end) that takes a software
plan, splits it into phases, and lets coding agents work on the phases in parallel, under a
supervisor that schedules, retries, verifies, stops and recovers them. This directory holds TLA+
models of that back end, the TLC instances that check them, and proofs of the main theorems for
every value of the constants. Paths below are relative to `src/src-tauri/src/` unless they start
with `docs/` or `MASTER-PLAN.md`.

## 1. The system

| Part | State it keeps | Operations that change it |
|---|---|---|
| Model router `scheduler/router.rs` | none | `route_model`, `pick_available`, `decide_retry` (pure) |
| Phase scheduler `scheduler/engine.rs`, `dag.rs` | tables `phases`, `phase_dependencies`, `attempts`, `resource_locks`, `scheduler_leases` (`db/scheduler_store.rs`) | `load_plan_into_scheduler`, `tick`, `try_start_phase`, `complete_attempt`, `pause_scheduler`, `resume_scheduler` |
| Supervisor `orchestrator/runner.rs` | one thread per run, one worker thread per attempt, an `OrchestratorHandle` with a cancel flag, `runs.status` | `start_run`, `run_execution_loop`, `apply_worker_outcome`, `cancel_active_run` |
| Process host `process/host.rs`, `spawn.rs`, `job.rs` | a map of live processes (in memory), table `processes` | `run_hosted`, `request_cancel`, `cancel_all`, the watchdog, `finalize_cleanup` |
| Registry, reconciliation, abort `db/process_store.rs`, `process/reconcile.rs`, `process/abort.rs` | `processes`, `cleanup_proofs`, the two-press window | `upsert_process`, `insert_cleanup_proof`, `assert_run_may_become_terminal`, `reconcile_owned_processes`, `handle_press` |
| Startup recovery `recovery/startup.rs` | `recovery_offers`, plus the tables above | `run_startup_recovery`, `resolve_resume`, `resolve_cancel` |
| Side-effect ledger `recovery/ledger.rs` | `side_effects` | `execute_idempotent`, `reconcile_side_effect` |
| Event and run store `db/store.rs` | `runs`, `events`, `event_outbox` | `append_event_atomic`: one event and, optionally, the run status; `mark_outbox_delivered`, `replay_events` |
| Phase executor `executor/run.rs` | the worker's copies of the plan and of the workspace manifest, `.tiamat/plan.json` | `execute_phase`: baseline, agent, boundary check, gates, result, checkpoint; `handle_timeout`: quarantine, rollback |
| Verification runner `verification/` | report files, evidence | `run_phase_gates`: every test of a phase before and after the change, its class, the verdict |
| Planner `planner/` | `MASTER-PLAN.md`, `plan.json`, the control commit | `run_architect_pipeline`: asks an agent for a plan, `compile_master_plan_markdown`, `validate_plan_json`, repairs once, writes |
| Workspaces `workspace/` | clones and worktrees, `manifest.json` with the records of checkpoints and quarantines, promotion records | `materialize_run_workspace`, `create_checkpoint`, `rollback_to_checkpoint`, `quarantine_path`, `write_manifest`, greenfield projects; promote, export, retain, clean up |
| Intake `intake/` | `AppState.last_preflight` | `run_intake_preflight`, `confirm_intake_trust` |
| Cursor CLI adapter, security policy, packaging, contracts | files, text | text and file handling before or around a run |
| Commands `app/` | `AppState`: the store mutex, the orchestrator slot, the last preflight, plan and workspace, the abort controller | one Tauri command per operation |
| Front end `src/lib`, `src/features` | the list of events of the shell | `connectEventBridge`, the callback of `Shell`, `onStart` |

### How they interact

* **The store mutex.** `AppState.store` is one `Mutex<Store>`. A supervisor's tick, the
  application of a worker's outcome and every scheduler command hold it from their first statement
  to their last, so these *operations* never interleave with each other. But no operation is a
  transaction: every SQL statement commits by itself. A crash can therefore cut an operation
  between any two statements.
* **Around the mutex.** The command of the emergency abort, and the policy for closing the window,
  open a store of their own (`open_app_store_sidecar`): they interleave with everything at the
  granularity of statements. The shortcut and the tray do the contrary: they hold the mutex from
  before the press until after its poll, so nobody else can write meanwhile. Stop
  (`cancel_active_run`) sets the cancel flag of the supervisor without the mutex and then waits
  for it to write the run status.
* **Workers.** Each started attempt gets a thread (`run_phase_worker`) that runs the agent under
  the process host and sends one outcome; the supervisor harvests outcomes between ticks.
* **Before the loop.** `start_run` empties the slot of `AppState`, creates the run, starts its
  thread and stores its handle. The thread materialises the workspace, has the architect plan it,
  puts both in `AppState` and loads the scheduler; it looks at its cancel flag four times on the
  way, and never while the architect works.
* **The plan** is a graph checked twice: by `planner/validate.rs` before it is committed, and by
  `scheduler/dag.rs`, with another algorithm, when it is loaded. Write roots are checked by the
  first, and become lock names in the second.
* **Events.** A transaction is deferred: it reads the next event number and then asks for the
  write lock, which SQLite refuses at once if the other connection committed in between.
  `emit_run_event` repeats it, the other writers do not. What is committed is emitted after the
  mutex is given back; the front end replays the log first and listens afterwards.
* **Copies.** A worker gets copies of `AppState.last_plan` and `last_workspace` at its launch and
  puts both back whole, one after the other, when `execute_phase` returns `Ok`; on an error they
  are dropped, whatever was written to disk. Files are under no lock but the write roots of the
  phases.
* **After a crash.** `run_startup_recovery` runs before anything else. It marks attempts lost,
  offers the user Resume or Cancel, and pauses the run. Resume does not start a supervisor: it
  only allows `scheduler_tick` and `scheduler_complete_attempt`.

### What is hard

* exclusion of write roots and resources over any order of starts, ends, retries, stops and
  crashes, while lock names are shared by all runs;
* readiness stored in a column, read later by a tick that starts several phases;
* the retry decision made in two places (before a start and after a failure), from different
  inputs; contention that uses attempt numbers;
* commands that write a status whatever the status was before;
* an abort that neither takes the mutex nor tells the supervisor;
* crash windows inside every multi-statement operation, and inside the recovery scan itself;
* killing processes that are being registered, spawned, timed out or reaped at that moment;
* copies that are read at a launch and put back at an end, with other workers in between;
* a start of many steps, any of which may fail or find a Stop, while the user edits the sources;
* a plan that one algorithm accepts and another must accept too, over ids, roots and lists that an
  agent invented;
* two connections that number events from snapshots, and a front end that may see an event twice;
* an effect outside the database that is written down before, while and after it happens;
* an attempt that may fail at each of some fifteen steps, each with its own trace on disk;
* termination: every run must end, also when phases fail, block or contend.

`PROJECT.json` lists each of these as a hazard at the line where it bites, with the property that
covers it or the reason why none does yet.

### What makes each part correct

* Scheduler: two attempts that share a lock name never overlap; an attempt is at work only while
  all dependencies of its phase are passed; passed phases stay passed; locks have owners; the caps
  on attempts and on concurrency hold; runs and ready phases settle.
* Supervisor: there is one at a time; what it executes is the plan on disk; a run is `completed`
  only if all its phases passed; a run that cancels ends, wherever the Stop finds it; a cancelled
  run leaves nothing behind.
* Recovery: nothing is accepted that did not succeed; nothing starts before the user chose; what a
  crash left half done is repaired.
* Process host: a reaped record means a dead process; every hosted process is reaped; a terminal
  run status means no process is left.
* Executor and workspaces: what an accepted attempt wrote stays, and is in the latest checkpoint;
  the plan on disk and in memory knows what passed; an attempt that left a new path outside its
  root never passes, where the executor looks.
* Ledger: an operation runs again only for a call that was cut off. Event log: numbered without
  gaps, true to what its writers were told, shown once.
* Planner: an accepted plan is an acyclic graph whose references resolve, whose plainly spelled
  roots lie in projects that may be written, and which the scheduler loads. Gates: a verdict
  *passed* means that every test ended as expected and every criterion has one.
* Workspaces: a manifest stands for a whole copy; promotion is all or nothing.

## 2. The modules

| Module | Models | Role |
|---|---|---|
| `Router` | `scheduler/router.rs` | tiers, model selection and the retry decision as operators |
| `PhaseBoard` | nothing directly | abstract specification: what the scheduler promises |
| `Scheduler` | `scheduler/engine.rs`, `dag.rs`, `db/scheduler_store.rs`, the loop of `orchestrator/runner.rs`, scheduler commands of `app/commands.rs`, what `process/abort.rs` writes of a run | the detailed specification; implements `PhaseBoard` |
| `SchedulerCrash` | `recovery/startup.rs` over `Scheduler` | crashes between any two statements, the scan, the user's answer |
| `SchedulerProofs` | - | theorems about `Scheduler`, for TLAPS |
| `CrashProofs` | - | extends `SchedulerProofs`: theorems about `SchedulerCrash` |
| `ProcessHost` | `process/` (host, spawn, job, abort, reconcile), `db/process_store.rs`, and what `orchestrator/runner.rs` and `recovery/startup.rs` do to processes | the processes of one run, from registration to the answer after a crash |
| `ProcessProofs` | - | theorems about `ProcessHost`, for TLAPS |
| `Executor` | `executor/run.rs`, `diff.rs`, `recover.rs`, `workspace/checkpoint.rs`, `quarantine.rs`, the manifest of `manager.rs`, the copies of `orchestrator/runner.rs` | the files of a run, from the launch of a worker to the publication of its copies |
| `ExecutorProofs` | - | theorems about `Executor`, for TLAPS |
| `RunStart` | `orchestrator/runner.rs` up to the loop, the intake and Stop commands of `app/commands.rs`, `workspace/manager.rs`, `snapshot.rs` and `fingerprint.rs`, the pipeline of `planner/architect.rs` | how a run comes to be executed |
| `RunStartProofs` | - | theorems about `RunStart` |
| `MasterPlan` | `planner/md_plan.rs`, `planner/validate.rs`, the project plan schema, `workspace/greenfield.rs` | how an answer of the architect becomes a plan, or does not |
| `PlanLoad` | `load_plan_into_scheduler` of `scheduler/engine.rs`, `scheduler/dag.rs` | extends `MasterPlan`: the second look at the graph |
| `Gates` | `verification/runner.rs`, `classify.rs` | extends `PlanLoad`: the verdict on a phase of the plan |
| `PlanProofs`, `GatesProofs` | - | theorems about `MasterPlan`, and about `PlanLoad` and `Gates` |
| `Journal` | `db/store.rs`, its callers, `src/lib/tauri/bridge.ts`, `src/features/shell/Shell.tsx` | the event log over two connections, up to the screen |
| `Ledger` | `recovery/ledger.rs`, `fault.rs`, the part of `startup.rs` | extends `Journal`: side effects on the same connection |
| `StoreLogProofs` | - | theorems about `Journal` and `Ledger` |
| `MCScheduler`, `MCSchedulerCrash`, `MCProcessHost`, `MCExecutor`, `MCRunStart`, `MCGates`, `MCStoreLog` | - | instances for TLC |

How they fit: `RunStart` ends where `Scheduler` begins (`"executing"`), `PlanLoad` fills the
tables `Scheduler` starts from, `ProcessHost` and `Executor` are the two sides of what `Scheduler`
knows as an attempt, `Gates` is what `Executor` knows as a verdict, and `Journal` is what all of
them write events to. `SchedulerCrash`, `Gates` and `Ledger` are compositions that run as one
state space; the others meet at these interfaces.

Operators marked *Fault* in a comment are no part of any specification: each is a definition as a
plausible bug would have it, beside the one it stands for, against which the properties are
tested.

### Scheduler: state and actions

One step is one committed statement, or a group of statements no other actor can tell apart. `op`
is the operation that holds the store mutex and the statement it will execute next; an operation
begins only when `op = Free`. The abort and the first half of Stop do not look at `op`: they
happen between the statements of a tick, as they can in the code.

| Code | Model |
|---|---|
| `phases.status`, `attempt_count`, `last_failure_kind`, `ready_at` | `status`, `count`, `failure` (its class), `older` (the strict order of the timestamps) |
| the latest row of `attempts` of a phase | `attempt[p]`; earlier rows only through `resumed`, the one fact about them the code reads |
| `resource_locks` | `locks`: rows of lock name, phase, attempt number |
| `scheduler_leases` | `lease`: the flags paused, cleanup incomplete, low disk |
| `runs.status` | `runStatus` |
| the supervisor thread, the handle in `AppState`, its cancel flag | `driver`, `slot`, `stopping`; `stopWrite` for a Stop between its flag and its status |
| `tick` | `TickPaused`, or `TickBegin` (flags, refresh, ready list), for each phase `SkipPhase`, `DenyStart`, `RefuseRoute` or `InsertAttempt` - `BumpCount` - `AcquireLocks` or `LockContended` - `MarkRunning` - `LaunchPhase`, then `TickEnd` |
| `complete_attempt` | `WorkerSucceeds` or `WorkerFails`, `ReleaseLocks`, `SettlePhase` or `SettleForRetry` - `RequeuePhase` |
| `refresh_readiness` | `RefreshFrom`, part of each action whose code ends with it |
| terminal check, cancel flag | `FinishRun`, `CancelObserved` |
| commands | `Pause`, `Resume`, `RequestStop` - `WriteCancelling`, `AbortPress`, `ForcedAbort`, `LowDisk`, `RetryPhase` |

Statuses that no code writes (`queued`, `verifying`, `skipped`, `needs_review`) are not in the
model. A worker reports failures of class *transient* only; *deterministic* ones arrive through
`scheduler_complete_attempt`, which runs the same `complete_attempt`.

### SchedulerCrash

`Crash` may happen at any step and forgets what is in memory (`driver`, `slot`, `stopping`,
`stopWrite`, `op`). Then `InterruptAttempt`, `InterruptPhase`, `InterruptRelease` (three
statements per attempt, which a second crash may cut) and `ScanOffers` or `ScanWithoutOffer`.
`ResolveResume` and `ResolveCancel` are the user's answer. Since nothing restarts a supervisor,
`driver` stands after a restart for the caller of the scheduler commands. What the scheduler
relies on between its statements is split in the modules by what a crash leaves of it:
`HoldsLocks` and `Unaccepted` survive one, `NoneLeft` and `SuccessCounts` do not; `CrashOp`,
`SuccessKept` and `AskedInv` say what holds instead (section 4).

### ProcessHost: state and actions

The scheduler knows an attempt only by its outcome; `ProcessHost` is the other side of the worker
thread. A worker makes hosted calls one after the other; each call is one process, named by worker
and turn, with its record, its job and its tree. The tree is the process itself (`main`) and one
`child` for all its descendants.

| Code | Model |
|---|---|
| `processes.state` | `record` (`none` before the row exists); a row has a pid from the second write on |
| `cleanup_proofs` | `proof` per process, `latest` for the latest of the run |
| `ProcessHost::lives`, the flags of a live process | `lives`, `cancel`, `force` |
| Job Object and its members | `job` (`none`, `open`, `doomed`: terminated or closed) and `tree`; members of a doomed job die later, one by one |
| `run_hosted` | `Register` - `Spawn` (or `SpawnSuspended` - `Assign`) - `PromptRead` - `RecordSpawned` - `RecordActive` - `EnterLives` - the watchdog - `LeaveLives` - `CountMembers` - `Prove` - `ProveClosed` - `RecordReaped` - `DropJob`; each `?` on the way is `SpawnFails`, `LeaveSuspended`, `HostFails` or `WaitFails` |
| `spawn_hosted`: any failure of the first way leads to the second | `FallBack` |
| `wait_with_watchdog` | `SeeForce`, `SeeCancel`, `TimeOut`, `SeeExit`, `ForceAfterGrace` |
| supervisor | `sup`: `RoundBegins` - `Launch` - `RoundEnds`, `CancelObserved` - `Joined`, `SupervisorFails` |
| Stop | `RequestStop` - `StopKills` - `StopWrites` |
| emergency abort | `Press` - `PollEnds` - `AbortGate` - `AbortWrites`; `locked` when the store mutex is held meanwhile |
| end of the application, next start | `Crash` - `Reconcile` per record, or `ReconcileFails` - `ScanEnds` - `ResolveResume` or `ResolveCancel` |

The map of live processes is a mutex of its own in the code; each use of it is short and is one
step here. A status of the run that is written with its error ignored is `SetStatus`; a record
written so is `Upsert`. What may go wrong is the constant `Faults`.

### Executor: state and actions

Here an attempt is what the scheduler leaves out: a call of `execute_phase`, one step per access
to shared state. The path of a file is known by who created it, in which launch, in which place,
and whether the snapshot of paths goes there (`walked`); its content by the launch that changed it
in place last. A tree is a set of files, a commit is its tree.

| Code | Model |
|---|---|
| the worker thread, its locals and copies | `worker[p]`: the step it takes next, how it ends, its copies `plan` and `manifest`, the snapshot `before`, the files `made` by its agent, the `target` to quarantine |
| `last_plan`, `last_workspace` | `lastPlan`, `lastWorkspace` |
| `.tiamat/plan.json`, `manifest.json`, `manifest.json.tmp` | `planFile`, `manifestFile`, `manifestTmp` |
| clones and worktrees, `HEAD` of a clone, a clone moved away | `disk`, `head`, `gone` |
| `quarantine/` | `quarantined` |
| phases passed in the database | `accepted` |
| launch | `Launch` - `TakeWorkspace`: two reads under two mutexes |
| `project_plan_files` | `Project`, or `ProjectionCut` when a file after `plan.json` fails |
| baseline, agent | `Baseline`; `AgentWrites`, `AgentEdits`, `AgentRemoves`: new files, files changed in place, files removed, within reach of the agent; `AgentEnds`, `AgentTimesOut` |
| `collect_changed_files`, `validate_diff_boundaries`, `find_new_escapes` | `Inspect`: `ChangedOutside` compares trees, `NewEscapes` paths only, those that are walked |
| gates, result, its status | `Judge` |
| `decide_partial_recovery` | `PartialRecovery` |
| `quarantine_path`, `rollback_to_checkpoint`, `create_checkpoint`, `write_manifest` | `Quarantine`, `Rollback` or `RollbackFails`, `Checkpoint` or `CommitUnrecorded`, `WriteManifest` - `RenameManifest` |
| publication, outcome | `PublishPlan` - `PublishWorkspace` - `Harvest` |
| `?` | `StepFails`, where `MayFail` |

`After` is the order of the steps: the returns of `execute_phase` and `handle_timeout` differ in
what they save, and in which order. Launches are limited by the project's write root, as the locks
of `Scheduler` do. `replaced` is history: the files that an agent changed or removed.

### RunStart: state and actions

The main thread runs one command after the other and interleaves with the thread of each run, and
with the workers that a run which failed has left behind. `sup[r].at` names the next step of the
thread of a run that touches shared state. A source is the part of it that `walk_files`
fingerprints. The workspace in `AppState.last_workspace` is in `Executor`, not here: a worker
whose workspace an abandoned run has put back there writes into the root of that run, where
nothing is executed any more.

| Code | Model |
|---|---|
| `AppState.orchestrator`, its handle and cancel flag | `slot`, `joined`, `cancel`; `main` is the place of the main thread |
| `last_preflight`, `last_plan` | `preflight`, `lastPlan` |
| the sources of the user, what was copied of them | `version`, `copied`: contents per source, known by their hash; an edit makes a new one or brings an earlier one back. `undone` is history: the copies during which an edit was taken back |
| `manifest.json`, `plan.json`, the last control commit | `manifestFile`, `planFile`, `planCommit`, per managed root; a plan is its run and the attempt of the architect |
| the copies of the plan with the phase workers of a run | `workers`; `abandoned` is history: the runs that ended in an error with workers at work |
| `start_run` | `StartRun` or `StartRefused`, `Spawn` or `SpawnFails`, `StoreJoin` |
| `cancel_active_run` | `RequestCancel` - `KillAgents` - `MarkCancelling` |
| `set_run_status`, `emit_run_event`, the looks at the flag | `WriteStatus`, `EmitEvent`, `CheckCancel`; their errors `StoreFails`, `EventFails` |
| `materialize_run_workspace` | per source `Fingerprint` - `CopyFolder`, or `CaptureDirty` - `CloneSource` - `ApplyOverlay`, and in the flat layout `FingerprintNotes` alone - `CompareSource`; then `WriteManifest` or `WriteFlatManifest` |
| `run_architect_pipeline` | `Probe` or `CapabilityRefused`, `AskArchitect` - `PlanValid`, `PlanInvalid` or `AskFails` (twice at most) - `Bootstrap` - `WriteArtifacts` - `CheckpointPlan` - `RewriteManifest` - `Publish` |
| `load_plan_into_scheduler` | `LoadPlan` |
| a phase worker, as far as the plan goes | `SpawnWorker` - `WorkerProjects` - `WorkerCommits` - `WorkerPublishes` - `WorkerEnds` |
| the ends of the loop | `SettleExecution`, every worker harvested; `AbandonExecution`, an error that drops the handles while the workers go on; `CancelExecution`, which joins them |

### MasterPlan, PlanLoad and Gates: state and actions

A document is what the parsing of the Markdown finds: which fields are there, and the lists that
refer to phases, projects, roots and criteria. A root is a sequence of names, among them `.` and
`..`. The text itself is not modelled.

| Code | Model |
|---|---|
| `compile_master_plan_markdown` | `Compile` (`CompileIssues`, `CompiledPhase`) |
| schema, `validate_phase`, `validate_root_against_workspace`, final gates | `CheckSchema`, `CheckPlan`: a set of issue codes |
| `is_path_within_root`, `greenfield_slug_from_root` | `Within`, on paths without `.` and `..` (`Undotted`); `GreenfieldSlug`, on the text as it is |
| `validate_dag`: Kahn's algorithm with its counters | `PopPhase`, one phase per step and any of the queue, `Verdict`; `Pushes` counts how often repeated entries queue a child |
| `bootstrap_plan_greenfield_projects` | `BootstrapProject`, `BootstrapFails`, `Accept` |
| `find_cycle` of the scheduler | `BeginLoad`, `SearchFrom`, `Follow`, `Leave`: `path` is the recursion |
| `compute_critical_path_lengths`, `upsert_phase` | `Longest`, `LoadPhases` |
| `run_phase_gates` | `BeginGates`; per test `SkipSpec`, `DenySpec` or `RunBaseline` - `RunFirst` - `Retry`; `NextLayer`; `Report`; `GatesErr` for `?` |
| `classify_baseline`, `classify_flaky_retry`, `classification_blocks_pass`, `LayerGateSummary` | `ClassifyBaseline`, the class in `Retry`, `Blocking`, `LayerPassed` |

### Journal and Ledger: state and actions

| Code | Model |
|---|---|
| `events` | `log`: per run its rows, in the order of the commits |
| SQLite's write lock, a snapshot that a commit has overtaken | `lock`, `stale` |
| the mutex of `AppState.store`, the sidecar connection of an abort | `mutex`; the writer `abort` does not take it |
| `append_event_atomic` | `Read` - `Write` or `Refused` - `Commit` |
| `with_busy_retry`, `mark_outbox_delivered`, `app.emit` | `Refused` and `Read` again with the same event; `Mark`; `Emit` |
| what a caller was told | `answered` |
| `connectEventBridge`, `Shell`, `onStart` | `Connect` - `ShowReplayed` - `Listen`, `Hear`, `ReplayStarted` - `SetEvents` over `front`, `channel`, `view`; `Show` merges a batch, one event after the other |
| `side_effects.state` | `record` |
| `execute_idempotent` | `Prepare` - `FaultBefore` or `Execute` - `Operation` - `Observe` - `FaultAfter` or `Reconcile` |
| `list_unreconciled_side_effects`, `reconcile_side_effect` | `Recover` by command, `Restart` after a crash |

`ran` and `cut` are history: how often the operation of an effect succeeded, and how often a call
was cut off between that and its last write.

## 3. The runs

| Run | Question | Instance |
|---|---|---|
| `sched_commands` | do type, caps, dependencies, finality, the verdict *completed* and the hold flags survive every command? | one run, three phases, one depends on the two others, one slot, three attempts, one phase born at Grok High, one final review |
| `sched_two_runs` | do locks exclude across runs, with stops and aborts, and does the scheduler implement `PhaseBoard`? | two runs, three phases, shared roots and port, no Grok High |
| `sched_settles` | does every run end and every ready phase settle? | three phases, one root, a dependency; supervisor only |
| `crash_restart` | is anything accepted or started that should not be, over two crashes? | three phases, two roots, two attempts |
| `proc_host` | do processes escape, do proofs lie, do records move back, do calls end, does Stop clear, may a run be resumed or cancelled too early? | one worker with two calls; one Stop or press; one crash; every fault but the deaf agent |
| `exec_serial` | is accepted work kept, recorded and projected, and does an escape never pass, whatever fails? | one worker at a time; two phases in a folder, one in a git project with a worktree; three attempts; both strategies; an agent that strays; one file changed in place or removed; every fault |
| `run_start` | is there one supervisor, is what it executes on disk, is what it copied whole, and does Stop end it wherever it is? | two runs, one source of each kind, two edits, one Stop, every fault at every step, the workers a failed run leaves behind |
| `plan_gate` | is an accepted plan ordered, ours to write and loadable, and does the verdict on a phase say what its tests did? | six families of documents over three workspaces, roots that climb with `..` among them; every order of both searches; every exit of every test |
| `store_log` | is the log true to what its writers were told, is an event shown once, does an effect run again only where it was cut off? | two runs, four writers, two effects, two tries, one restart, three events or calls in all |
| `sched_chain`, `exec_lost_work`, `plan_parallel` | the code against what its comments and documents say; see section 6 | three phases; two workers in two folders, no faults; the instance of `plan_gate` |

**Bounds.** `MaxRows` limits the attempt rows contention can add to one phase (a contended start
adds a row and nothing else); it is one more than `MaxAttempts`, so that a phase can exceed its
budget by contention, if the code lets it. Three attempts let a phase climb from Grok Medium to
Grok High and use its same-tier resume. Three phases are the least for a join, a chain, or two
contenders beside a bystander. Two crashes let the second one cut the recovery from the first.
Retry is enabled from `failed`, `blocked` and `running`; from `passed` it takes accepted work back
by design (section 5).

In `proc_host`, two calls let a Stop or a crash find one process finished, left over or
unaccounted for while the next one begins, which is what a stale proof, a forgetful reconciliation
or a kill between two processes needs. The calls may belong to one worker, because the map, the
registry and the proofs do not tell workers apart; what distinguishes workers is left to the
proofs, which are for any number of them. One press is enough for each way in; the force of a
second press is the forced press of the command.

In `exec_serial`, three attempts let a phase be accepted, a second one of the same project start
from its files and be rolled back or quarantined, and a third one, of the other project, find what
the second left. One new file per attempt is enough, because boundaries, checkpoints and rollbacks
treat each file alike, and one file changed or removed for the same reason. The agent that strays
is that of the git project, which reaches the clone of the other project, its own clone beside its
worktree, and places that are not walked. Three quarantine entries are as many as three attempts
can make, so the cap removes nothing (section 5). The proofs have none of these bounds.

In `run_start`, two runs are the least for a second one to meet the first in the slot, in the
shared root of the notes layout and in `AppState`; one supervisor at a time leaves nothing to a
third. Sources are materialised one after the other by the same steps, so that one shows what an
edit can do to each. Two edits are the least for an edit that is taken back. One Stop finds the
run at any step. `workers` is a set of copies, so no number of workers is bounded.

In `plan_gate`, `MCGates` enumerates the documents a check of one concern needs and keeps the rest
of the document plain: three phases with up to two dependencies each, in any order, repeated,
unknown or on the phase itself, with repeated ids (*Graphs*); four phases, for chains of four and
a phase reached on two ways (*Diamonds*); all pairs of roots and projects, known, new, of notes,
of the user, unsafe, climbing out of a project (*Places*); two phases in one project or two
(*Pairs*); two layers of tests of every kind against no, one and two criteria (*Suites*); and
unfinished text (*Unfinished*). The checks look at one phase, one root or one test at a time but
for the graph and the pairs, so that the families need not be multiplied with each other.

In `store_log`, three events let two connections race for a number while a third writer repeats;
two tries let one event be refused, repeated and refused again (the code has eight). One restart
lets a call, an event and a reply of the front end be cut off.

**Deadlock** is not checked in these runs: a system whose runs have all ended, a plan that was
rejected or judged, and a log at its bound stop.

**Fairness** (`FairSpec`). The supervisor thread loops without waiting for anything but the mutex,
which every holder gives back, so the tick, the terminal check and the look at the cancel flag are
strongly fair (they are disabled again and again while `op` is not free); an operation begun goes
on (weak fairness); workers end because the watchdog bounds them by a timeout, and their outcomes
are harvested once per round (strong fairness). No fairness is assumed of users. In `ProcessHost`:
the thread of a worker, of the supervisor and of the abort go on (weak fairness each: none of
their steps is enabled and disabled by turns except by the holder of the mutex, who gives it back
for good after one press), `TimeOut` among the steps because the time of the watchdog passes, and
a doomed member dies. A process need not end by itself, a fault need not happen. An agent is
assumed to read its prompt or die: with `"deaf"` in `Faults` it need not, and then neither
`HostCallEnds` nor `StopClears` holds, because the prompt is written before the process can be
cancelled and before the watchdog runs. In `RunStart`: the main thread finishes the command it has
begun, and the thread of a run goes on (weak fairness each). The architect's call ends, since the
watchdog of the host bounds it, and ends either way. Of the loop of the scheduler only this is
assumed: once the flag of its run is set, the thread goes on to the end of the loop, where it
joins workers whose agents are killed; that this comes to an end is what `StopClears` shows of
`ProcessHost`. No fairness for the user, for workers, or for a run nobody stops.

## 4. What is proved

The theorems hold for every value of the constants that satisfies the assumptions of the module
(`ASSUME`, named there; TLC evaluates each on its instance). The assumptions are types, finiteness
and the code's own facts: a plan the scheduler has loaded has no circle (`PlanIsOrdered`, which
`AcceptedIsOrdered` shows of every plan it is given); what the parser returns is made of lists
(`DocumentsAssumption`); a project that may be written is kept where its id says, under a path
spelled without `.` and `..` (`WorkspacesAssumption`, from `workspace/manager.rs` and
`greenfield.rs`). What a theorem needs beyond that is a hypothesis of its own, in the tables
below, and each such hypothesis is one without which the statement is false of the code (sections
5 to 7).

### The scheduler

`SchedulerProofs`, for any finite set of phases, any plan, any number of runs, any lock names and
any bounds:

| Theorem | Statement | Hypotheses |
|---|---|---|
| `TypeCorrect` | `Spec => []TypeOK` | |
| `LocksAreOwned` | `Spec => []LocksOwned` | |
| `WritersExclude` | `Spec => []WriteExclusion` | |
| `CapHolds` | `Spec => []ConcurrencyCap` | |
| `DependenciesArePassed` | `Spec => []DependenciesHold` | `"passed" \notin RetryFrom` |
| `PassedStaysPassed` | `Spec => PassedIsFinal` | `"passed" \notin RetryFrom` |
| `SchedulerImplementsBoard` | `Spec => ImplementsBoard` | `"passed" \notin RetryFrom` |
| `CompletedRunsPassed` | `Spec => []CompletedMeansPassed` | `"passed" \notin RetryFrom` |
| `BudgetHolds` | `Spec => []AttemptBudget` | `"passed" \notin RetryFrom`, no shared lock names |
| `HeldRunsStartNothing` | `Spec => NoStartWhenHeld` | `"abort" \notin Commands` |

**The argument.** Exclusion is not inductive: that two running attempts share no lock says nothing
of the rows that make it so. `LockInv` adds what the operations rely on between their statements:
the operation knows the phase it works on and where it left its attempt (`OpOK`), the lock name is
a key (`LockKey`), an attempt at work has all its rows (`HoldsLocks`), a newly inserted one has
none, and a row names the latest attempt of its phase (`NoneLeft`, with `LocksOwned`). `PlanInv`
adds that everything the tick has still to start is ready with its dependencies passed (`TodoOK`),
and that a success is accepted or about to be (`ResultOK`). Both were checked by TLC on the
instances of `sched_commands` and `sched_two_runs` before they were proved. The proof that a step
preserves them has one step per action, grouped by the tables the action writes.
`SchedulerImplementsBoard` maps `MarkRunning` to `Start`, `WorkerSucceeds` to `Succeed`,
`WorkerFails` to `GiveUp`, `SettlePhase` after a success to `Accept`, and every other step to a
stutter.

The others stand on these two. For the cap, an operation knows phases of its own run only
(`OpRunInv`), so that the attempt it starts is counted where the tick has counted. For the hold
flags, a tick at work is one of a run that is not held back (`QuietInv`), because who writes a
flag or a status waits for the mutex, an abort excepted. For *completed*, a blocked phase waits
for one that is not passed (`BlockedInv`); the supervisor writes *completed* over passed and
blocked phases alone, so the first of the phases not passed, in the order of the plan, would be
blocked with nothing to wait for: here `PlanIsOrdered` is used. For the budget, a phase without a
recorded failure was never counted, or is at work, or passed (`BudgetInv`), so that every start
that is counted has gone through `decide_retry` with the count it raises.

### Across crashes

`CrashProofs`, for any number of crashes, each between any two statements, those of the recovery
scan included:

| Theorem | Statement | Hypotheses |
|---|---|---|
| `CompletionNeverGuessed` | `CrashSpec => []PassedMeansSucceeded` | |
| `WritersExcludeAcrossCrashes` | `CrashSpec => []WriteExclusion` | |
| `CrashImplementsBoard` | `CrashSpec => ImplementsBoard` | |
| `NothingStartsUnasked` | `CrashSpec => NoStartBeforeChoice` | one run |

**The argument.** Of the invariant above two parts do not survive a crash. `NoneLeft` does not: a
crash between the result of an attempt and the release of its locks leaves rows of an attempt that
is over, and a later attempt of the phase finds them. Exclusion needs less: the name is a key and
an attempt at work holds all of its names, so that rows left behind keep others out and never let
one in. `SuccessCounts` does not either: the operation that was to accept a success is gone.
`SuccessKept` says what is true instead: the phase of such a success stays *running*, which no
refresh, scan or tick changes, so it is never started again. `CrashOp` is `OpOK` for the time
between a crash and the end of the scan, when the only operation is the interruption of an
attempt. The lemmas about the statements of the scheduler are stated over the parts they need
(`InsideLock`, `InsidePassed`, `InsidePlan`, `BoardMoves`), so that one proof of each serves both
modules. `CrashInv` and `AskedInv` were checked by TLC on the instance of `crash_restart` first,
`CrashInv` also on two runs.

`NothingStartsUnasked` is about one run because the statement is false for two: the scan makes an
offer for one run only (`recovery/startup.rs:379`), and a run that was left *cancelling* can take
it, while another one can tick without having been offered.

### Processes

`ProcessProofs`, for any set of workers and any bounds:

| Theorem | Statement |
|---|---|
| `HostTypeCorrect` | `Spec => []HostTypeOK` |
| `NoProcessEscapes` | `Spec => []NothingEscapes` |
| `ProofsAreTrue` | `Spec => []ProofMeansDead` |
| `RecordsMoveForward` | `Spec => RecordMovesForward` |
| `ResumeIsClean` | `Spec => []ResumeOnlyWhenClean` |
| `RecoveredCancelClean` | `Spec => []RecoveredCancelIsClean` |

**The argument.** `NothingEscapes` is not inductive: that an open job belongs to a call says
nothing of which call. `CallOK` says for each position of a worker what its process must look like
(record, tree, job, proof), `ProcOK` what is known of every process whatever its worker does (one
not yet registered has left no trace, an open job and a place in the map belong to the current
call, a zero proof is true), and `BootInv` that nothing is hosted after a crash and that a scan
without hard failure has each active record still before it. A step of a call touches its own
process only (`StepFrame`), so the parts of the others follow by two frame lemmas, and each action
is looked at once for its own worker and once for its own process.

### Executor

`ExecutorProofs`, for any finite set of phases, any projects, strategies, faults and bounds:

| Theorem | Statement | Hypotheses |
|---|---|---|
| `ExecTypeCorrect` | `Spec => []ExecTypeOK` | |
| `SerialEscapeNeverPasses` | `Spec => []EscapeNeverPasses` | `MaxConcurrent = 1` |
| `SerialPassedIsProjected` | `Spec => []PassedIsProjected` | `MaxConcurrent = 1` |
| `SerialCheckpointRecorded` | `Spec => []CheckpointRecorded` | `MaxConcurrent = 1` |
| `SerialWorkKept` | `Spec => []AcceptedWorkKept` | `MaxConcurrent = 1`, `MaxLaunches <= MaxQuarantine` |

**The argument.** With one worker at a time at most one call is open (`Solo`), so nobody else
moves files or plans between its steps. That an escape is found needs more than the snapshot: the
file must be on disk when it is looked for, and its path must not have been there before, whatever
its content. `Dated` says that no file on disk or in any checkpoint is newer than the last launch,
rollbacks and edits in place included; so the paths of the baseline are older ones only, what the
agent creates stays on disk until the inspection, and nothing found means that every path it
created where the snapshot goes is inside (`Sound`). Of files changed in place or removed the
theorem says nothing, as the code does (section 5). `Projects` follows the copy of the plan: the
open call knows every accepted phase, and a passing one has its own phase in the copy, then in
`plan.json`, then in memory. `SerialInv` was checked by TLC on the instance of `exec_serial`
before it was proved.

That accepted work is recorded needs every place a rollback may restore from. The work meant is
what no agent has changed since (`Standing`): `replaced` grows only, so an agent that changes a
file can only shrink it. `RecordInv` says that it is on disk, in the commit the clone is at
(`OnDisk`), and in the latest checkpoint of the manifest in memory, of that on disk (`Recorded`)
and of the copy of the open call, and it follows a passing call from its commit to the publication
(`Recording`); `Careful` says what a call that does not pass leaves alone: what it quarantines is
its own, and where it resets a clone, the target holds the accepted work. `Placed` keeps the
projects apart: a commit of one holds files of its clone only.

The last theorem adds quarantine. An attempt adds one entry at most (`FewEntries`), so with no
more launches than entries are kept the retention removes nothing. Without that bound it removes
the oldest entry, whatever is in it (`workspace/quarantine.rs:50`). These four are false with two
workers (section 6), which is why that hypothesis is there.

### Start of a run

`RunStartProofs`, for any sources, runs, edits, Stops and faults, and both layouts:

| Theorem | Statement |
|---|---|
| `RunStartTypeCorrect` | `Spec => []RunStartTypeOK` |
| `OneSupervisorAlive` | `Spec => []OneSupervisor` |
| `ScheduledPlanDurable` | `Spec => []ScheduledPlanIsDurable` |
| `ManifestIsTrue` | `Spec => []ManifestMeansCopied` |

**The argument.** The handle of a thread is stored after the thread has started, so the slot alone
does not tell who is alive. `SlotInv` says that a thread that is alive is that of the run in the
slot, and that its handle is there or the main thread is about to store it. `Durable` follows the
plan from file to commit to memory by the place of the supervisor; that no other supervisor
replaces it meanwhile is `SlotInv` again. Phase workers may outlive their supervisor: `Ours` is
what can be found in their hands, in `AppState` and in the files of a root, the plan of the run
and those of abandoned ones; `Holding` says that a run which is not at its loop has workers only
if it is abandoned, and `AbandonedEnded` that such a run is over and its plan fixed. So what they
write is among `Ours`, and it stays there (`OursStays`). `CopiedSoFar` follows the copies: all
sources before the one at work are whole, those after it untouched, and of the one at work every
content read is that of its fingerprint as long as the source has it still; once it has another,
either the second fingerprint differs or the edit was taken back, which `undone` remembers.

### Plan and gates

`PlanProofs` and `GatesProofs`, for any answers of the architect and any workspaces:

| Theorem | Statement |
|---|---|
| `AcceptedOrdered` | `GatesSpec => []AcceptedIsOrdered` |
| `AcceptedRootsOurs` | `GatesSpec => []AcceptedRootsAreOurs` |
| `AcceptedIsLoaded` | `GatesSpec => AcceptedLoads` |
| `VerdictIsEarned` | `GatesSpec => []VerdictMatchesRuns` |

**The argument.** The topological sort is right because of `Counted`: the degree of a phase is the
number of its entries from phases not yet popped, it is queued once, when that is zero, and no set
of phases of which each waits for another of the set has a member among the popped. With distinct
ids, as many pops as phases then mean that nothing circular is there. `Pushes` has to be one for
the last entry and zero before, although repeated entries are taken away together (`PushesOnce`).
Of the roots, `Placed` says why each was let pass, which stays true while projects are added; when
none is missing, the slug of a new project is a project. The property asks for the plain order of
directories (`Below`); that the test of the code comes to the same for paths spelled without `.`
and `..`, and for no others, is `StartsBelow` with `Spelled`.

`AcceptedIsLoaded` relates the two algorithms of the code. The path of the search is one of phases
of which each waits for the one before it (`PathOK`), so a phase met again would close a circle in
a plan that has none (`NoWayBack`); this is `AcceptedIsNeverRefused`. The length of a phase is
defined by recursion over its dependents, and of the lengths it is shown that they exist
(`LongestDefined`), that a chain goes on from a phase with one that depends on it (`LongerChain`,
`ShorterChain`), and that therefore the length is that of the longest chain (`LongestChain`).

`VerdictMatchesRuns` follows from `EvidenceInv`: every test that applies and is behind the one at
work has a record, and every record tells the truth about how its test ended.

### Log and ledger

`StoreLogProofs`, for any number of runs, effects, tries, restarts and operations:

| Theorem | Statement |
|---|---|
| `LogTellsTheTruth` | `StoreLogSpec => []LogIsTrue` |
| `NothingShownTwice` | `StoreLogSpec => []ShownOnce` |
| `OperationsRunOnce` | `StoreLogSpec => []EffectsRunOnce` |

**The argument.** A commit marks the snapshots it overtakes as stale, and a writer gets the lock
on one that is not: so the number it has read is still the next one when it inserts (`Snapshots`).
An event is numbered when its writer begins with it and counted when the writer is answered
(`Numbered`), so it is in the log if and only if the answer says so (`LoggedByNow`). The merge of
the front end is a recursion over the batch, and `ShowIsOnce` says what it returns for batches of
any length. Of the ledger, `InWork` says that the state of an effect in work is the step of its
call.

### What the proofs do without

The library states induction over the natural numbers and over finite sets with an operator as a
parameter, which the installed provers cannot instantiate. Where a proof needs induction it takes
a least counterexample: of a set of numbers the least (`LeastNat`), of a family of subsets of a
finite set the smallest or the largest (`SmallestSet`, `LargestSet`), of a set of phases the first
or the last (`FirstOf`, `LastOf`), all of which follow from the theorem that the strict subset
order of a finite set is well-founded. That a recursive function exists is shown in the same way.

**Only model-checked**: liveness (`RunSettles`, `ReadyPhaseSettles`, `HostCallEnds`, `StopClears`,
`StopEnds`), because fairness and `ENABLED` are out of reach of the installed backends. Every
other property of the passing runs is stated by a theorem. The properties of the runs that expect
a violation are false.

## 5. Reservations on what holds

* `scheduler_retry_phase` accepts a phase of any status. From `passed` it takes the phase back
  while dependents may be at work, so the theorems about dependencies, finality, the board, the
  verdict *completed* and the budget exclude it. The front end exports the command and does not
  call it yet.
* `AttemptBudget` holds in `sched_commands`, where every phase has a root of its own. With a
  shared root it does not: contention raises the count (section 7).
* `NoStartWhenHeld` holds without aborts. An abort in the middle of a tick changes the status
  after the tick has read it, and the tick goes on to start its other phases.
* `CompletedMeansPassed` holds because a phase is blocked only below a failed one, which makes the
  run failed.
* `SchedulerCrash` has no command but stop beside the supervisor: pause, resume, low disk, abort
  and the retry of a phase are left out of its `Work`, so its theorems are about runs without
  them. Two of them would need a word of their own: `scheduler_retry_phase` on a phase that runs
  starts it again although an earlier attempt may have succeeded, and `scheduler_resume` of a run
  asks for no answer to the offer.

* `NothingEscapes` lets a process live outside any job when its record is `registered`: the
  degraded way to spawn leaves a suspended process behind when it cannot be opened.
* `RecoveredCancelIsClean` is about the answer given after a crash. The ends of a run that the
  supervisor writes ask no gate (section 7), and a forced abort may pass the gate just before a
  worker registers its next process.
* `ProcessHost` has one run, and no worker after a crash, since nothing restarts a supervisor. The
  command `reconcile_processes`, which may reconcile beside hosted calls, is left out. When a
  failed first spawn falls back to the second one, what dies of the first is no longer counted as
  the tree of the process. A record that is written twice with one state (the resume metadata
  after a timeout) is written once. The completed, failed and cancelled ends of a run are one
  value.

* `exec_serial` is about one worker at a time, and so are the theorems about its four invariants.
  With two, `AcceptedWorkKept` (`exec_lost_work`), `CheckpointRecorded` and `PassedIsProjected`
  fail through the copies, and `EscapeNeverPasses` through another worker that takes the stray
  file for its own escape, or rolls it back, before it is looked for.
* `AcceptedWorkKept` counts files in quarantine as kept and holds while the cap on its entries is
  not reached. `CheckpointRecorded` leaves out worktrees, whose work no checkpoint commits, and
  projects that were quarantined whole.
* `EscapeNeverPasses` is about the attempt that strays, and about new paths. A file in the clone
  of another project that an agent changes in place or removes passes unseen, and so does a new
  file where `snapshot_paths` does not go, below its depth of six or under `.git`, `node_modules`
  or `quarantine/`, or where `find_new_escapes` does not look, under `control/`, `fingerprints/`
  and outside the run's own root (`executor/diff.rs:124`, `executor/run.rs:148`). Both kinds are
  in the model, the second as files that are not walked, and the property leaves them out because
  they do pass. A stray file that a timed-out attempt leaves in the clone of another project stays
  there (section 7).
* `AcceptedWorkKept` and `CheckpointRecorded` are about rollback, quarantine and retention: a file
  that an agent changed or removed after it was accepted is none of theirs from then on.
* In `Executor` a project has one write root, the layout is not the flat one, what git ignores is
  not there, agents write neither the plan and the manifest nor git's own files (nothing in the
  code would keep them from it), and a quarantine moves (the copy the code falls back to leaves
  the source). A control checkpoint is folded into the project checkpoint: both are commits whose
  error ends the attempt; after failed gates the code ignores that error. The temporary file of
  the manifest is not an escape, though the code would take it for one in the moment between write
  and rename of another worker. A partly written temporary file is not modelled. The application
  does not crash.

* `OneSupervisor` is about the threads of runs, not about their workers, which an error leaves
  behind. What one run leaves in `AppState` stays there after its end (section 7).
* `ManifestMeansCopied` leaves out the flat layout, which copies nothing: there the fingerprints
  are compared, and an edit after that is no concern of theirs. In a repository the fingerprint is
  that of commit and working tree together. Fingerprints are content hashes: an edit that is taken
  back before the second one is not seen, although the copy may hold a piece of it (`undone`;
  `workspace/fingerprint.rs:40`). And a source is what they are taken of: ignored directories and
  files are in no fingerprint (`fingerprint.rs:107`, `:113`) but are copied all the same
  (`workspace/dirty.rs:221`), so of those the manifest says nothing.
* `ScheduledPlanIsDurable` is about the moment the loop runs, and about which plan it is, not
  about the statuses of its phases. Where an earlier run ended in an error with workers at work,
  its plan may be found in place of the one that is executed, as the code allows (section 7); the
  statement is that nothing else may. Commands by which a user writes `last_plan` by hand
  (`run_architect_pipeline`, `execute_phase_fixture`) are not in it. A later run of the flat
  layout over the same root is refused by its manifest.
* `AcceptedRootsAreOurs` is about roots spelled without `.` and `..`. A root that climbs is
  accepted by the code wherever it leads (section 7). It lets the root `.` alone pass, as the code
  does; which directory that is, the executor decides (section 7). Names that are one on a file
  system without case are two in the model.
* `VerdictMatchesRuns` takes a test for its exit code. A failing baseline blocks although the
  change may have nothing to do with it: such a phase is *blocked* with a test that ended
  otherwise, as stated.
* `ShownOnce` says that nothing is shown twice or invented. That everything is shown does not hold
  (section 7).
* `EffectsRunOnce` counts a call that was cut off between the operation and its last write as a
  reason to run it again, which is what the code promises; the operations are meant to bear it.

## 6. Where the code and its documents disagree

| Run | What the run shows |
|---|---|
| `sched_chain` | `evaluate_readiness` does not treat a blocked dependency as lost: below a failed phase only direct dependents become blocked; the others stay draft and the run never ends. |
| `exec_lost_work` | A worker puts back the manifest it was given at its launch and so removes the checkpoint record of a concurrent phase; a later timeout of that project resets the clone to the record before, without the work of a passed phase. |
| `plan_parallel` | Two phases of one project whose write roots are different folders, one inside the other or not, share no lock and no dependency: both run in the same repository at once. |

## 7. Met on the way and not run

These were met while reading and modelling. Where a document says otherwise it is named.

**Scheduler and supervisor**

* `insert_attempt` has raised `attempt_count` when `acquire_locks` finds a lock busy, so that
  contention can fail a phase for good that failed once (the comment at `scheduler/engine.rs:279`:
  leave ready for a later epoch). A crash between the row and the count makes every later start of
  the phase collide with the row and be taken for a lost race (`db/scheduler_store.rs:138`).
* On Stop the supervisor joins its workers and drops their outcomes: attempts stay `running` and
  their locks held, for all later runs over the same roots (MASTER-PLAN.md:785).
* The scan after a crash looks at active attempts only (`recovery/startup.rs:407`): a crash inside
  `complete_attempt` leaves locks or a running phase behind a completed attempt
  (docs/user/recovery.md:11).
* The first emergency press writes `cancelling` but does not set the supervisor's flag, so the
  supervisor idles and the run stays `cancelling`. A late Stop writes `cancelling` over
  `completed`, `failed` or `cancelled`, since the slot is never emptied.
* The reason of a block is stored as the phase's last failure kind, so an unblocked phase that
  never ran is treated as having failed; an interruption at Grok High leaves no progress to resume
  from, so the phase fails on Resume.
* An error in the loop (`runner.rs:464`, `:505`, `:563`) ends the supervisor as failed while
  workers run; `complete_attempt_safe` (`runner.rs:801`) returns early for an attempt that is
  terminal already, whatever the first call had still to do.

**Start of a run**

* A Stop kills the architect's first answer, which the pipeline takes for an invalid one: it asks
  once more, and nobody looks at the flag until the plan is there. The run then ends *failed* if
  the second answer is none (`architect.rs:158`, `runner.rs:212`;
  docs/user/pause-cancel-abort.md:9, MASTER-PLAN.md:704). `StopEnds` holds all the same.
* A refused start has emptied the slot already; a failed spawn leaves the run `started` in the
  slot. A preflight run in the thread, when nothing is cached, is never trusted and never starts.
* A second run into the same output directory of the flat layout is refused. With the output
  directory equal to the notes folder the source always counts as changed.
* The workers such an error leaves behind put their copies of the plan and the workspace back when
  they end (`runner.rs:690`), also into a run started meanwhile: its workers then project the plan
  of the failed run to `plan.json` and commit it.
* Fingerprints compare contents: of a source that is edited and edited back between the two looks
  a mixed copy is accepted (`fingerprint.rs:40`). What is ignored is copied and not fingerprinted.
* `completed` does not look at the fingerprints of the sources again. The commands
  `materialize_workspace`, `run_architect_pipeline` and `execute_phase_fixture`, and the dialogs
  of promotion and export, write `last_plan` or `last_workspace` also during a run. A failed write
  of `failed` may be repeated, and its event appear twice.

**Plan and gates**

* A test needs a command or a reason for the compiler and at least one token of a command for the
  schema: a test with a reason only is compiled and then rejected.
* `synthesize_phase_prompt` always contains the word "inapplicable" and the names of the plan
  files: the issues `empty_layer_unexplained` and `prompt_missing_plan_refs` cannot occur, and the
  reason of one empty layer explains them all.
* A criterion that no test to run covers is accepted, and its phase blocked by every gate
  (MASTER-PLAN.md:864).
* The baseline is taken right before the first run, after the agent's change
  (`verification/runner.rs:238`; MASTER-PLAN.md:866): a failure the agent caused is a failing
  baseline, and a flaky one that passes the second time an unlabelled pass (MASTER-PLAN.md:867).
* `..` is dropped from a path before it is compared (`intake/paths.rs:154`), and the id of a new
  project is read from the text of a root (`greenfield.rs:93`): a write root like
  `<run>/projects/app/../../notes/spec` is accepted as one inside `app` (`validate.rs:225`).
* `.` is accepted as a write root, and a project id of a notes snapshot as the first one of a
  phase: the executor then works in the root of the notes, or fails. An alias id of the flat
  layout passes validation and fails at the bootstrap (`greenfield.rs:159`).
* Texts are cut at byte 400 whatever character is there.

**Processes**

* `run_hosted` registers a record and returns the error of the spawn: the record stays
  `registered`, the run ends without asking a gate, and at the next start that record, without a
  pid, blocks Resume and Cancel (docs/user/pause-cancel-abort.md:33, MASTER-PLAN.md:299).
* A forced press of the shortcut or the tray with anything active always fails, because the mutex
  it holds keeps the host from writing the records it waits for. A worker may register its next
  process between the gate and the status of a forced abort (`abort.rs:120`).
* A run that crashed before its first cleanup proof cannot be cancelled after the restart:
  reconciliation reaps records without a proof, and the gate asks for one.
* The command `reconcile_processes` (`commands.rs:1193`) marks records of hosted processes as
  reaped.

**Events**

* A refused transaction is repeated by `emit_run_event` only. An abort ignores the error
  (`abort.rs:131`), and its status and event are lost; commands and `emit_process_event` report or
  drop theirs.
* `transition_run_status` (`commands.rs:244`) returns an error after status and event are
  committed when the outbox cannot be marked. Events of the scheduler, of aborts and of recovery
  are never emitted nor marked, and nothing reads the outbox.
* The front end replays before it listens, so an event in between is not shown; `onStart` puts the
  replay of the started run in place of all it shows, with what it heard meanwhile; after a
  restart the first run of the list is replayed, not the last (docs/user/graph-and-logger.md:9
  "Reopening the app replays the same ordered events"). Live events leave the mutex before they
  are emitted, and `Shell` does not sort them.

**Executor and workspaces**

* An agent works in the worktree of a git project, but `create_checkpoint` commits in its clone:
  the work of such a project is in no checkpoint (MASTER-PLAN.md:259 "Git commits are
  authoritative checkpoints for workspace content.").
* `handle_timeout` does not look for escapes (`find_new_escapes`). A file a timed-out agent left
  in the clone of another project stays, and is committed with that project's next phase
  (docs/contributor/operator-runbook.md:22 "Out-of-root write → stop, quarantine, show diff").
* `find_new_escapes` compares paths. A file in another clone that an agent changes in place or
  removes, and a new one where the snapshot does not go, pass unseen
  (docs/contributor/operator-runbook.md:22).
* Two workers at a time take each other's new files for escapes and quarantine them, and a stale
  copy of the plan overwrites the passed status of another phase, in memory and in `plan.json`
  (MASTER-PLAN.md:257).
* A timeout with the strategy *quarantine* and no changes moves the whole clone away and nothing
  brings it back: every later phase of that project fails.
* A phase that needs review is retried like a failed one; a worker always starts afresh, so a
  timeout "resume eligible" resumes nothing.
* A stale copy of the manifest also overwrites promotion records. An error or a crash during an
  export leaves a destination that every retry refuses (`promote.rs`); an export dialog held open
  while another run starts puts the manifest of the old run into `last_workspace`, where the
  workers of the new one take their copy (`promote_commands.rs`). A forced cleanup looks neither
  at unpromoted work nor at active runs.

## 8. Not modelled, and the plan

* **Promotion, export, retention, cleanup** (`workspace/promote.rs`, `retain.rs`,
  `app/promote_commands.rs`): sequences of file operations behind a dialog. They touch
  `last_workspace`, which section 7 names; a model of them beside a run is the next extension
  worth having.
* **Supervisor**: holder and expiry of the scheduler's lease (a takeover needs thirty seconds
  without a tick), what an error in the loop leaves in its tables (`RunStart` follows the plan
  only), a second load of the same plan (no caller), offers among several runs, and the commands
  of the user between crashes.
* **Processes**: the command `reconcile_processes` beside hosted calls, output capture and the
  metadata to resume by, the Unix variants.
* **Executor**: crashes between its steps; evidence and prompts.
* **Store**: `transition_run_status` of a command as one more writer, migrations, settings,
  artifacts.
* **Text and files without concurrent state**: the parsing of Markdown, the inspection of folders
  by the intake, the Cursor CLI adapter, the security policy, packaging, contracts, and the views
  of the front end stay outside.

Of proofs, these are left, in this order: `NoStartBeforeChoice` for several runs of which one was
offered; what accepted work can still rely on with several workers; the safety part of the
liveness properties (whoever is waited for can go on), from which their fairness arguments start.
