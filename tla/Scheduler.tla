----------------------------- MODULE Scheduler -----------------------------
(***************************************************************************)
(* The phase scheduler of the orchestrator: scheduler/engine.rs over the   *)
(* tables of db/scheduler_store.rs, driven by the supervisor loop of       *)
(* orchestrator/runner.rs.                                                 *)
(*                                                                         *)
(* Every operation (a tick, the completion of an attempt, a command) runs  *)
(* with the application's store mutex held from its first statement to its *)
(* last, so operations do not interleave; but each statement commits on    *)
(* its own.  A step of this module is one such statement, or a group of    *)
(* statements no other step can tell apart, and op says which operation    *)
(* holds the mutex and what it does next.  SchedulerCrash.tla cuts these   *)
(* operations short.                                                       *)
(***************************************************************************)
EXTENDS Integers, FiniteSets, Router

CONSTANTS
  Runs,          \* run ids
  Phases,        \* phases of all runs (the primary key of table phases)
  RunOf,         \* the run a phase belongs to
  Deps,          \* the phases of its run that a phase depends on
  LocksOf,       \* names of the write and resource locks a phase needs
  BaseTier,      \* the tier the architect assigned to a phase
  Rank,          \* place of a phase by critical path length, then phase id
  FinalReviews,  \* phases the caller of tick names as final reviews
  Available,     \* tiers with an available model
  MaxConcurrent, \* max_concurrent of the lease
  MaxAttempts,   \* max_attempts of the config, and DEFAULT_MAX_ATTEMPTS
  MaxRows,       \* bound: attempt rows of a phase after which contended starts are not explored
  RetryFrom,     \* phase statuses a caller of scheduler_retry_phase retries
  Commands,      \* the user commands of this instance
  NoPhase, NoRun

AllCommands == {"pause", "resume", "stop", "retry", "abort", "low_disk"}

ASSUME ConstantsAssumption ==
  /\ RunOf \in [Phases -> Runs]
  /\ Deps \in [Phases -> SUBSET Phases]
  /\ \A p \in Phases : \A d \in Deps[p] : RunOf[d] = RunOf[p] /\ d # p
  /\ BaseTier \in [Phases -> Tiers]
  /\ Rank \in [Phases -> Nat]
  /\ \A p, q \in Phases : Rank[p] = Rank[q] => p = q
  /\ FinalReviews \subseteq Phases
  /\ Available \subseteq Tiers
  /\ MaxConcurrent \in 1..4
  /\ MaxAttempts \in Nat \ {0}
  /\ MaxRows \in Nat /\ MaxRows > MaxAttempts
  /\ NoPhase \notin Phases /\ NoRun \notin Runs
  /\ Commands \subseteq AllCommands

ASSUME PhasesFinite == IsFiniteSet(Phases)

(* validate_dag: no phases wait for each other in a circle.                *)
ASSUME PlanIsOrdered ==
  \A S \in SUBSET Phases : S # {} => \E p \in S : Deps[p] \cap S = {}

VARIABLES
  runStatus,  \* runs.status
  lease,      \* scheduler_leases: the flags of the lease row
  driver,     \* TRUE while a supervisor thread loops over the run
  slot,       \* the run of the OrchestratorHandle in the application state
  stopping,   \* the cancel flag of the run's OrchestratorHandle
  stopWrite,  \* runs for which a Stop has set the flag and not yet the status
  status,     \* phases.status
  count,      \* phases.attempt_count
  failure,    \* the class of phases.last_failure_kind
  older,      \* <<p, q>>: ready_at of p is strictly before that of q
  attempt,    \* the latest row of table attempts for each phase
  locks,      \* resource_locks: rows [lock, phase, n], n the attempt number
  op          \* the operation that holds the store mutex

\* What only a supervisor and the Stop command write.
control == <<driver, slot, stopping, stopWrite>>

runVars == <<runStatus, lease, control>>

phaseVars == <<status, count, failure, older>>

vars == <<runStatus, lease, driver, slot, stopping, stopWrite, status, count,
          failure, older, attempt, locks, op>>

-----------------------------------------------------------------------------
RunStatuses == {"started", "executing", "paused", "interrupted", "cancelling",
                "cancelled", "completed", "failed"}

(* queued, verifying, skipped and needs_review are statuses no code of the *)
(* repository ever writes.                                                 *)
PhaseStatuses == {"draft", "ready", "running", "passed", "failed", "blocked",
                  "cancelled"}

TerminalPhase == {"passed", "failed", "cancelled"}

\* Faults: a ready phase is not pending; a blocked phase is.
PendingWithoutReady == {"draft", "running"}
PendingWithBlocked == {"draft", "ready", "running", "blocked"}

(* Statuses at which the supervisor still expects work from a phase.       *)
PendingPhase == {"draft", "ready", "running"}

Results == {"none", "succeeded", "failed", "cancelled", "lost"}

Steps == {"free", "scan", "bump", "lock", "mark", "launch",
          "release", "settle", "requeue", "lost_phase", "lost_release"}

(* marker: selection_reason of this row mentions the same-tier resume;     *)
(* resumed: that of some row of the phase with a terminal result does.     *)
AttemptRow == [n : Nat, status : {"none", "starting", "running", "completed"},
               result : Results, kind : FailureKinds, tier : Tiers,
               marker : BOOLEAN, resumed : BOOLEAN, progress : BOOLEAN]

NoAttempt(p) == [n |-> 0, status |-> "none", result |-> "none",
                 kind |-> "none", tier |-> BaseTier[p], marker |-> FALSE,
                 resumed |-> FALSE, progress |-> FALSE]

LockRow == [lock : UNION {LocksOf[p] : p \in Phases}, phase : Phases, n : Nat]

Lease == [paused : BOOLEAN, cleanupIncomplete : BOOLEAN, lowDisk : BOOLEAN]

Free == [pc |-> "free", run |-> NoRun, phase |-> NoPhase, todo |-> {}]

Holding(pc, r, p, todo) == [pc |-> pc, run |-> r, phase |-> p, todo |-> todo]

(* One conjunct per variable.                                              *)
TypeOK ==
  /\ runStatus \in [Runs -> RunStatuses]
  /\ lease \in [Runs -> Lease]
  /\ driver \in [Runs -> BOOLEAN]
  /\ slot \in Runs \cup {NoRun}
  /\ stopping \in [Runs -> BOOLEAN]
  /\ stopWrite \subseteq Runs
  /\ status \in [Phases -> PhaseStatuses]
  /\ count \in [Phases -> Nat]
  /\ failure \in [Phases -> FailureKinds]
  /\ older \subseteq Phases \X Phases
  /\ attempt \in [Phases -> AttemptRow]
  /\ locks \subseteq LockRow
  /\ op \in [pc : Steps, run : Runs \cup {NoRun}, phase : Phases \cup {NoPhase},
             todo : SUBSET Phases]

PhasesOf(r) == {p \in Phases : RunOf[p] = r}

ActiveAttempts(r) ==
  {p \in PhasesOf(r) : attempt[p].status \in {"starting", "running"}}

\* Fault: only the rows of the phase itself are looked at.
LocksBusyOwn(p) == \E row \in locks : row.lock \in LocksOf[p] /\ row.phase = p

(* A lock name of the phase is the primary key of a row of another owner.  *)
LocksBusy(p) == \E row \in locks : row.lock \in LocksOf[p]

-----------------------------------------------------------------------------
(* refresh_readiness: one pass over a snapshot st of the run's phases.     *)
(* Note that a dependency that is itself blocked only makes a phase wait.  *)

DependencyLost(p, st) == \E d \in Deps[p] : st[d] \in {"failed", "cancelled"}

\* Fault: one passed dependency is enough.
SomeDependencyPassed(p, st) == Deps[p] = {} \/ \E d \in Deps[p] : st[d] = "passed"

DependenciesPassed(p, st) == \A d \in Deps[p] : st[d] = "passed"

Refreshable(p, st, r) ==
  RunOf[p] = r /\ st[p] \notin TerminalPhase \cup {"running"}

\* Fault: the verdict of evaluate_readiness is stored as the status.
ReadinessVerdict(p, st) ==
  IF DependencyLost(p, st) THEN "blocked"
  ELSE IF DependenciesPassed(p, st) THEN "ready" ELSE "waiting"

Readiness(p, st) ==
  IF DependencyLost(p, st) THEN "blocked"
  ELSE IF DependenciesPassed(p, st) THEN "ready"
  ELSE IF st[p] = "blocked" THEN "blocked" ELSE "draft"

RefreshedStatus(st, r) ==
  [p \in Phases |-> IF Refreshable(p, st, r) THEN Readiness(p, st) ELSE st[p]]

(* The reason of a block is stored where the failure kind is read from.    *)
RefreshedFailure(fl, st, r) ==
  [p \in Phases |-> IF Refreshable(p, st, r) /\ DependencyLost(p, st)
                    THEN "transient" ELSE fl[p]]

(* The phases of S get the current time as their ready_at.                 *)
StampReady(old, S) ==
  {e \in old : e[1] \notin S /\ e[2] \notin S} \cup ((Phases \ S) \X S)

RefreshedOlder(old, st, r) ==
  StampReady(old, {p \in Phases : /\ st[p] # "ready"
                                  /\ RefreshedStatus(st, r)[p] = "ready"})

(* The phase table after the statements that made it st, fl, old are       *)
(* followed by a refresh of run r.                                         *)
RefreshFrom(st, fl, old, r) ==
  /\ status' = RefreshedStatus(st, r)
  /\ failure' = RefreshedFailure(fl, st, r)
  /\ older' = RefreshedOlder(old, st, r)

Refresh(r) == RefreshFrom(status, failure, older, r)

(* sort_ready_phases: oldest ready_at, then critical path, then phase id.  *)
Precedes(p, q) ==
  <<p, q>> \in older \/ (<<q, p>> \notin older /\ Rank[p] < Rank[q])

-----------------------------------------------------------------------------
Init ==
  /\ runStatus = [r \in Runs |-> "started"]
  /\ lease = [r \in Runs |-> [paused |-> FALSE, cleanupIncomplete |-> FALSE,
                              lowDisk |-> FALSE]]
  /\ driver = [r \in Runs |-> FALSE]
  /\ slot = NoRun
  /\ stopping = [r \in Runs |-> FALSE]
  /\ stopWrite = {}
  /\ status = [p \in Phases |-> "draft"]
  /\ count = [p \in Phases |-> 0]
  /\ failure = [p \in Phases |-> "none"]
  /\ older = {}
  /\ attempt = [p \in Phases |-> NoAttempt(p)]
  /\ locks = {}
  /\ op = Free

(* A supervisor reaches its execution loop: the run becomes executing, the *)
(* validated plan is loaded and readiness derived.  start_run refuses while *)
(* the supervisor of the run in the slot has not ended.                    *)
LoadPlan(r) ==
  /\ op = Free
  /\ runStatus[r] = "started" /\ \A s \in Runs : ~driver[s]
  /\ runStatus' = [runStatus EXCEPT ![r] = "executing"]
  /\ lease' = [lease EXCEPT ![r].paused = FALSE]
  /\ driver' = [driver EXCEPT ![r] = TRUE]
  /\ slot' = r
  /\ Refresh(r)
  /\ UNCHANGED <<stopping, stopWrite, count, attempt, locks, op>>

-----------------------------------------------------------------------------
(* A tick of the supervisor.  On an ended run, and while the lease says    *)
(* cleanup is incomplete or the disk is low, a tick changes no phase.      *)

EndedForTick == {"cancelled", "cancelling", "failed", "completed"}

MayTick(r) ==
  op = Free /\ driver[r] /\ runStatus[r] \notin EndedForTick

\* Fault: the disk flag is not read.
HeldBackByCleanup(r) == lease[r].cleanupIncomplete

Paused(r) == lease[r].paused \/ runStatus[r] = "paused"

HeldBack(r) == lease[r].cleanupIncomplete \/ lease[r].lowDisk

TickPaused(r) ==
  /\ MayTick(r) /\ Paused(r)
  /\ Refresh(r)
  /\ UNCHANGED <<runVars, count, attempt, locks, op>>

TickBegin(r) ==
  /\ MayTick(r) /\ ~Paused(r) /\ ~HeldBack(r)
  /\ Refresh(r)
  /\ op' = Holding("scan", r, NoPhase,
                   {p \in PhasesOf(r) : RefreshedStatus(status, r)[p] = "ready"})
  /\ UNCHANGED <<runVars, count, attempt, locks>>

\* Fault: the cap is off by one.
OverCapacity(r) == Cardinality(ActiveAttempts(r)) > MaxConcurrent

AtCapacity(r) == Cardinality(ActiveAttempts(r)) >= MaxConcurrent

TickEnd ==
  /\ op.pc = "scan"
  /\ op.todo = {} \/ AtCapacity(op.run)
  /\ Refresh(op.run)
  /\ op' = Free
  /\ UNCHANGED <<runVars, count, attempt, locks>>

(* The next phase of the sorted list.                                      *)
Scanning(p) ==
  /\ op.pc = "scan" /\ ~AtCapacity(op.run)
  /\ p \in op.todo /\ \A q \in op.todo \ {p} : Precedes(p, q)

Rest(p) == Holding("scan", op.run, NoPhase, op.todo \ {p})

(* What the retry decision says before a start: it is asked only if the    *)
(* phase row carries a failure.                                            *)
StartDecision(p) ==
  IF failure[p] = "none"
  THEN [allow |-> TRUE, tier |-> BaseTier[p], sameTier |-> FALSE]
  ELSE DecideRetry(attempt[p].tier, count[p], MaxAttempts, failure[p],
                   attempt[p].progress, attempt[p].resumed)

StartTier(p) ==
  RouteModel(StartDecision(p).tier, Available, p \in FinalReviews)

HasActiveAttempt(p) == attempt[p].status \in {"starting", "running"}

(* UNIQUE(run, phase, attempt_number) and the index on active attempts.    *)
InsertConflicts(p) == attempt[p].n >= count[p] + 1

(* The row bound: with MaxRows rows, a start that would find its locks     *)
(* busy is not explored (the tick goes on as if it had not tried).         *)
BeyondBound(p) == attempt[p].n >= MaxRows /\ LocksBusy(p)

SkipPhase(p) ==
  /\ Scanning(p)
  /\ \/ HasActiveAttempt(p)
     \/ StartDecision(p).allow /\ StartTier(p) # -1 /\ InsertConflicts(p)
     \/ BeyondBound(p)
  /\ op' = Rest(p)
  /\ UNCHANGED <<runVars, phaseVars, attempt, locks>>

(* The retry decision says no: the phase fails with the decision's reason  *)
(* as its last failure kind.                                               *)
DenyStart(p) ==
  /\ Scanning(p) /\ ~HasActiveAttempt(p) /\ ~BeyondBound(p)
  /\ ~StartDecision(p).allow
  /\ status' = [status EXCEPT ![p] = "failed"]
  /\ failure' = [failure EXCEPT ![p] = "transient"]
  /\ op' = Rest(p)
  /\ UNCHANGED <<runVars, count, older, attempt, locks>>

(* No model at or above the tier: the tick returns the routing error and   *)
(* the supervisor ends the run as failed.                                  *)
RefuseRoute(p) ==
  /\ Scanning(p) /\ ~HasActiveAttempt(p) /\ ~BeyondBound(p)
  /\ StartDecision(p).allow /\ StartTier(p) = -1
  /\ runStatus' = [runStatus EXCEPT ![op.run] = "failed"]
  /\ driver' = [driver EXCEPT ![op.run] = FALSE]
  /\ op' = Free
  /\ UNCHANGED <<lease, slot, stopping, stopWrite, phaseVars, attempt, locks>>

(* The attempt row is inserted as starting; the tick then bumps the        *)
(* phase's attempt count, acquires the locks and marks both rows running.  *)
InsertAttempt(p) ==
  /\ Scanning(p) /\ ~HasActiveAttempt(p) /\ ~BeyondBound(p)
  /\ StartDecision(p).allow /\ StartTier(p) # -1 /\ ~InsertConflicts(p)
  /\ attempt' = [attempt EXCEPT ![p] =
       [n |-> count[p] + 1, status |-> "starting", result |-> "none",
        kind |-> "none", tier |-> StartTier(p),
        marker |-> StartDecision(p).sameTier,
        resumed |-> attempt[p].resumed, progress |-> FALSE]]
  /\ op' = Holding("bump", op.run, p, op.todo \ {p})
  /\ UNCHANGED <<runVars, phaseVars, locks>>

BumpCount ==
  /\ op.pc = "bump"
  /\ count' = [count EXCEPT ![op.phase] = attempt[op.phase].n]
  /\ op' = [op EXCEPT !.pc = "lock"]
  /\ UNCHANGED <<runVars, status, failure, older, attempt, locks>>

(* All locks in one transaction, or none.                                  *)
AcquireLocks ==
  /\ op.pc = "lock" /\ ~LocksBusy(op.phase)
  /\ locks' = locks \cup
       {[lock |-> l, phase |-> op.phase, n |-> attempt[op.phase].n]
          : l \in LocksOf[op.phase]}
  /\ op' = [op EXCEPT !.pc = "mark"]
  /\ UNCHANGED <<runVars, phaseVars, attempt>>

(* A busy lock: the attempt is closed as cancelled and its selection       *)
(* reason overwritten; the phase stays ready and keeps the bumped count.   *)
LockContended ==
  /\ op.pc = "lock" /\ LocksBusy(op.phase)
  /\ attempt' = [attempt EXCEPT ![op.phase].status = "completed",
                                ![op.phase].result = "cancelled",
                                ![op.phase].marker = FALSE]
  /\ op' = Rest(op.phase)
  /\ UNCHANGED <<runVars, phaseVars, locks>>

MarkRunning ==
  /\ op.pc = "mark"
  /\ attempt' = [attempt EXCEPT ![op.phase].status = "running"]
  /\ op' = [op EXCEPT !.pc = "launch"]
  /\ UNCHANGED <<runVars, phaseVars, locks>>

LaunchPhase ==
  /\ op.pc = "launch"
  /\ status' = [status EXCEPT ![op.phase] = "running"]
  /\ op' = Rest(op.phase)
  /\ UNCHANGED <<runVars, count, failure, older, attempt, locks>>

-----------------------------------------------------------------------------
(* complete_attempt, for the outcome of a worker the supervisor harvests    *)
(* (its kinds are transient) or one that scheduler_complete_attempt reports. *)

\* Fault: an attempt that is completed can be completed again.
CompleteAgain(p, result, kind, progress) ==
  /\ op = Free /\ driver[RunOf[p]]
  /\ attempt[p].status \in {"running", "completed"}
  /\ attempt' = [attempt EXCEPT ![p].status = "completed",
                                ![p].result = result,
                                ![p].kind = kind,
                                ![p].progress = progress,
                                ![p].resumed = @ \/ attempt[p].marker]
  /\ op' = Holding("release", RunOf[p], p, {})
  /\ UNCHANGED <<runVars, phaseVars, locks>>

CompleteBegin(p, result, kind, progress) ==
  /\ op = Free /\ driver[RunOf[p]]
  /\ attempt[p].status = "running"
  /\ attempt' = [attempt EXCEPT ![p].status = "completed",
                                ![p].result = result,
                                ![p].kind = kind,
                                ![p].progress = progress,
                                ![p].resumed = @ \/ attempt[p].marker]
  /\ op' = Holding("release", RunOf[p], p, {})
  /\ UNCHANGED <<runVars, phaseVars, locks>>

WorkerSucceeds(p) == CompleteBegin(p, "succeeded", "none", FALSE)

WorkerFails(p) ==
  \E kind \in FailureKinds \ {"none"}, progress \in BOOLEAN :
    CompleteBegin(p, "failed", kind, progress)

\* Fault: the locks of the earlier attempts are released.
EarlierLocks(p) == {row \in locks : row.phase = p /\ row.n < attempt[p].n}

OwnLocks(p) == {row \in locks : row.phase = p /\ row.n = attempt[p].n}

ReleaseLocks ==
  /\ op.pc = "release"
  /\ locks' = locks \ OwnLocks(op.phase)
  /\ op' = [op EXCEPT !.pc = "settle"]
  /\ UNCHANGED <<runVars, phaseVars, attempt>>

(* After a failed attempt: the marker tested is that of this attempt only. *)
RetryDecision(p) ==
  DecideRetry(attempt[p].tier, count[p], MaxAttempts, attempt[p].kind,
              attempt[p].progress, attempt[p].marker)

SettledStatus(p) ==
  IF attempt[p].result = "succeeded" THEN "passed" ELSE "failed"

SettledFailure(p) ==
  IF attempt[p].kind = "none" THEN failure
  ELSE [failure EXCEPT ![p] = attempt[p].kind]

(* The phase row becomes passed or failed; unless a retry is due, a        *)
(* refresh ends the operation.                                             *)
SettlePhase ==
  LET p == op.phase
      st == [status EXCEPT ![p] = SettledStatus(p)]
  IN  /\ op.pc = "settle"
      /\ attempt[p].result = "failed" => ~RetryDecision(p).allow
      /\ RefreshFrom(st, SettledFailure(p), older, op.run)
      /\ op' = Free
      /\ UNCHANGED <<runVars, count, attempt, locks>>

SettleForRetry ==
  LET p == op.phase
  IN  /\ op.pc = "settle"
      /\ attempt[p].result = "failed" /\ RetryDecision(p).allow
      /\ status' = [status EXCEPT ![p] = "failed"]
      /\ failure' = SettledFailure(p)
      /\ op' = [op EXCEPT !.pc = "requeue"]
      /\ UNCHANGED <<runVars, count, older, attempt, locks>>

RequeuePhase ==
  /\ op.pc = "requeue"
  /\ RefreshFrom([status EXCEPT ![op.phase] = "ready"], failure,
                 StampReady(older, {op.phase}), op.run)
  /\ op' = Free
  /\ UNCHANGED <<runVars, count, attempt, locks>>

-----------------------------------------------------------------------------
(* The supervisor's terminal check and its reaction to the cancel flag,    *)
(* which it reads once a round: the round goes on if the flag is set later *)
(* (here, for any number of rounds).                                       *)

FinishRun(r) ==
  /\ op = Free /\ driver[r]
  /\ \A p \in PhasesOf(r) : /\ status[p] \notin PendingPhase
                            /\ attempt[p].status # "running"
  /\ runStatus' = [runStatus EXCEPT ![r] =
       IF \E p \in PhasesOf(r) : status[p] = "failed" THEN "failed" ELSE "completed"]
  /\ driver' = [driver EXCEPT ![r] = FALSE]
  /\ UNCHANGED <<lease, slot, stopping, stopWrite, phaseVars, attempt, locks, op>>

(* The workers are joined and their outcomes dropped.                      *)
CancelObserved(r) ==
  /\ op = Free /\ driver[r] /\ stopping[r]
  /\ runStatus' = [runStatus EXCEPT ![r] = "cancelled"]
  /\ driver' = [driver EXCEPT ![r] = FALSE]
  /\ UNCHANGED <<lease, slot, stopping, stopWrite, phaseVars, attempt, locks, op>>

-----------------------------------------------------------------------------
(* Commands of the user.                                                   *)

Loaded(r) == runStatus[r] # "started"

Pause(r) ==
  /\ op = Free /\ Loaded(r) /\ "pause" \in Commands
  /\ lease' = [lease EXCEPT ![r].paused = TRUE]
  /\ runStatus' = [runStatus EXCEPT ![r] = "paused"]
  /\ UNCHANGED <<control, phaseVars, attempt, locks, op>>

Resume(r) ==
  /\ op = Free /\ Loaded(r) /\ "resume" \in Commands
  /\ lease' = [lease EXCEPT ![r].paused = FALSE]
  /\ runStatus' = [runStatus EXCEPT ![r] = "executing"]
  /\ UNCHANGED <<control, phaseVars, attempt, locks, op>>

(* Stop: the cancel flag of the run in the slot, which nothing empties when *)
(* its supervisor ends; then, once the mutex is free, the status.          *)
RequestStop(r) ==
  /\ slot = r /\ r \notin stopWrite /\ "stop" \in Commands
  /\ stopping' = [stopping EXCEPT ![r] = TRUE]
  /\ stopWrite' = stopWrite \cup {r}
  /\ UNCHANGED <<runStatus, lease, driver, slot, phaseVars, attempt, locks, op>>

WriteCancelling(r) ==
  /\ op = Free /\ r \in stopWrite
  /\ runStatus' = [runStatus EXCEPT ![r] = "cancelling"]
  /\ stopWrite' = stopWrite \ {r}
  /\ UNCHANGED <<lease, driver, slot, stopping, phaseVars, attempt, locks, op>>

EndedRun == {"completed", "failed", "cancelled"}

(* The emergency abort writes the status through a store of its own: it    *)
(* does not wait for the mutex, and it does not set the cancel flag.  The  *)
(* first press needs processes to stop, the forced one that none is left.  *)
AbortPress(r) ==
  /\ "abort" \in Commands /\ Loaded(r) /\ runStatus[r] \notin EndedRun
  /\ ActiveAttempts(r) # {}
  /\ runStatus' = [runStatus EXCEPT ![r] = "cancelling"]
  /\ UNCHANGED <<lease, control, phaseVars, attempt, locks, op>>

ForcedAbort(r) ==
  /\ "abort" \in Commands /\ Loaded(r)
  /\ runStatus' = [runStatus EXCEPT ![r] = "cancelled"]
  /\ UNCHANGED <<lease, control, phaseVars, attempt, locks, op>>

(* The disk probe: the flag of the lease of every run that has not ended.  *)
LowDisk ==
  /\ op = Free /\ "low_disk" \in Commands
  /\ lease' = [r \in Runs |->
       IF Loaded(r) /\ runStatus[r] \notin EndedRun
       THEN [lease[r] EXCEPT !.lowDisk = TRUE] ELSE lease[r]]
  /\ UNCHANGED <<runStatus, control, phaseVars, attempt, locks, op>>

RetryPhase(p) ==
  /\ op = Free /\ Loaded(RunOf[p]) /\ "retry" \in Commands
  /\ status[p] \in RetryFrom
  /\ status' = [status EXCEPT ![p] = "ready"]
  /\ older' = StampReady(older, {p})
  /\ UNCHANGED <<runVars, count, failure, attempt, locks, op>>

-----------------------------------------------------------------------------
TickSteps ==
  \/ \E p \in Phases : SkipPhase(p) \/ DenyStart(p) \/ RefuseRoute(p) \/ InsertAttempt(p)
  \/ TickEnd \/ BumpCount \/ AcquireLocks \/ LockContended \/ MarkRunning \/ LaunchPhase

CompleteSteps == ReleaseLocks \/ SettlePhase \/ SettleForRetry \/ RequeuePhase

Supervisor(r) == TickPaused(r) \/ TickBegin(r) \/ FinishRun(r) \/ CancelObserved(r)

StopSteps == \E r \in Runs : RequestStop(r) \/ WriteCancelling(r)

UserCommands ==
  \/ \E r \in Runs : Pause(r) \/ Resume(r) \/ AbortPress(r) \/ ForcedAbort(r)
  \/ LowDisk
  \/ \E p \in Phases : RetryPhase(p)

Next ==
  \/ \E r \in Runs : LoadPlan(r) \/ Supervisor(r)
  \/ TickSteps
  \/ CompleteSteps
  \/ \E p \in Phases : WorkerSucceeds(p) \/ WorkerFails(p)
  \/ StopSteps
  \/ UserCommands

Spec == Init /\ [][Next]_vars

(* The supervisor thread runs: the operation it is in ends, it ticks, it   *)
(* looks at the terminal condition and at the cancel flag on every round   *)
(* of its loop, and harvests the workers, which all end (they run under    *)
(* the watchdog's timeout).  A Stop once begun writes its status.  Users promise *)
(* nothing else.                                                           *)
Fairness ==
  /\ WF_vars(TickSteps) /\ WF_vars(CompleteSteps)
  /\ \A r \in Runs : /\ SF_vars(TickBegin(r)) /\ SF_vars(TickPaused(r))
                     /\ SF_vars(FinishRun(r)) /\ SF_vars(CancelObserved(r))
                     /\ WF_vars(LoadPlan(r))
  /\ \A r \in Runs : SF_vars(WriteCancelling(r))
  /\ \A p \in Phases : SF_vars(WorkerSucceeds(p) \/ WorkerFails(p))

FairSpec == Spec /\ Fairness

-----------------------------------------------------------------------------
(* Safety.                                                                 *)

Running(p) == attempt[p].status = "running"

HasRow(l, p) == [lock |-> l, phase |-> p, n |-> attempt[p].n] \in locks

(* Phases that share a write root or a resource never have agents at work  *)
(* at the same time, in one run or across runs: the lock table taken by    *)
(* try_start_phase and released by complete_attempt excludes them, for any *)
(* order of ticks, completions, retries and stops.                         *)
WriteExclusion ==
  \A p, q \in Phases :
    p # q /\ Running(p) /\ Running(q) => LocksOf[p] \cap LocksOf[q] = {}

(* A lock row always has an owner that will give it back: the attempt it   *)
(* names is at work, or its completion is about to release it.  A row that *)
(* outlives its attempt would keep its phases from starting for ever.      *)
LocksOwned ==
  \A row \in locks :
    /\ attempt[row.phase].n = row.n
    /\ \/ HasActiveAttempt(row.phase)
       \/ op.pc = "release" /\ op.phase = row.phase

(* A phase is started only after everything it depends on has passed, and  *)
(* nothing it depends on is taken back while it works: readiness is stored *)
(* in the row and may be stale when try_start_phase reads it.              *)
DependenciesHold ==
  \A p \in Phases : HasActiveAttempt(p) => \A d \in Deps[p] : status[d] = "passed"

(* No run has more attempts at work than the lease allows, though the     *)
(* count of active attempts changes inside the loop of one tick.           *)
ConcurrencyCap == \A r \in Runs : Cardinality(ActiveAttempts(r)) <= MaxConcurrent

(* "Cap on attempts per phase" (scheduler/types.rs): the attempts counted  *)
(* for a phase stay within max_attempts, whatever the order of failures,   *)
(* denials and retries.                                                    *)
AttemptBudget == \A p \in Phases : count[p] <= MaxAttempts

(* A run is reported completed only if every phase of it passed.           *)
CompletedMeansPassed ==
  \A r \in Runs : runStatus[r] = "completed" =>
    \A p \in PhasesOf(r) : status[p] = "passed"

-----------------------------------------------------------------------------
(* What a step may never do.                                               *)

(* Accepted work stays accepted: no refresh, retry of another phase or     *)
(* late operation takes a passed phase back.                               *)
PassedIsFinal ==
  [][\A p \in Phases : status[p] = "passed" => status'[p] = "passed"]_vars

(* No attempt is created while its run is paused, ending, ended, low on    *)
(* disk or with cleanup incomplete: the flags are read at the start of a   *)
(* tick and the attempts created later in it.                              *)
NoStartWhenHeld ==
  [][\A p \in Phases : attempt'[p].n # attempt[p].n =>
       /\ lease[RunOf[p]] = [paused |-> FALSE, cleanupIncomplete |-> FALSE,
                             lowDisk |-> FALSE]
       /\ runStatus[RunOf[p]] \notin {"paused", "cancelling", "cancelled",
                                      "completed", "failed"}]_vars

-----------------------------------------------------------------------------
(* Strengthenings that make the invariants inductive (SchedulerProofs).    *)

TickPc == {"scan", "bump", "lock", "mark", "launch"}
DonePc == {"release", "settle", "requeue"}

(* The operation knows its phase, and the attempt of it is where the       *)
(* operation left it.                                                      *)
OpOK ==
  /\ op.pc \in {"free"} \cup TickPc \cup DonePc
  /\ op.pc \notin {"free", "scan"} => op.phase \in Phases
  /\ op.pc \in {"bump", "lock", "mark"} => attempt[op.phase].status = "starting"
  /\ op.pc = "launch" => attempt[op.phase].status = "running"
  /\ op.pc \in DonePc => attempt[op.phase].status = "completed"

(* The name of a lock is the primary key of its table.                     *)
LockKey == \A a, b \in locks : a.lock = b.lock => a = b

(* An attempt at work, or about to be marked so, has all its lock rows.    *)
HoldsLocks ==
  /\ \A p \in Phases : Running(p) => \A l \in LocksOf[p] : HasRow(l, p)
  /\ op.pc = "mark" => \A l \in LocksOf[op.phase] : HasRow(l, op.phase)

(* No row is left over, and a phase whose attempt was just inserted has    *)
(* none at all.                                                            *)
NoneLeft ==
  /\ LocksOwned
  /\ op.pc \in {"bump", "lock"} => \A row \in locks : row.phase # op.phase

LockInv == TypeOK /\ OpOK /\ LockKey /\ HoldsLocks /\ NoneLeft

(* What the tick found ready still is, and its dependencies are passed.    *)
TodoOK ==
  /\ op.pc \in TickPc => \A p \in op.todo :
       status[p] = "ready" /\ DependenciesPassed(p, status)
  /\ op.pc \in TickPc \ {"scan"} =>
       /\ op.phase \notin op.todo
       /\ status[op.phase] = "ready" /\ DependenciesPassed(op.phase, status)

(* An attempt at work has no result yet, and a phase is accepted only at    *)
(* the end of a completion.                                                *)
Unaccepted ==
  /\ \A p \in Phases : HasActiveAttempt(p) =>
       attempt[p].result = "none" /\ status[p] # "passed"
  /\ op.pc \in {"release", "settle"} =>
       /\ status[op.phase] # "passed"
       /\ attempt[op.phase].result \in {"succeeded", "failed"}
  /\ op.pc = "requeue" => status[op.phase] = "failed"

(* A success is accepted, or about to be.                                  *)
SuccessCounts ==
  \A p \in Phases : attempt[p].result = "succeeded" =>
    \/ status[p] = "passed"
    \/ op.pc \in {"release", "settle"} /\ op.phase = p

ResultOK == Unaccepted /\ SuccessCounts

PlanInv == LockInv /\ TodoOK /\ ResultOK /\ DependenciesHold

-----------------------------------------------------------------------------
(* The scheduler implements PhaseBoard: an agent is at work from the       *)
(* statement that marks its attempt running to the one that completes it,  *)
(* and its work is accepted by the statement that makes its phase passed.  *)

Board == INSTANCE PhaseBoard WITH
  working <- {p \in Phases : attempt[p].status = "running"},
  finished <- {p \in Phases : attempt[p].result = "succeeded"},
  passed <- {p \in Phases : status[p] = "passed"}

(* Every statement of the scheduler is a step of the board or leaves it    *)
(* alone.                                                                  *)
ImplementsBoard == Board!BoardSpec

-----------------------------------------------------------------------------
(* Liveness.                                                               *)

(* An executing run ends, with every phase passed or some phase failed:    *)
(* retries are bounded, blocked phases are not waited for, contended       *)
(* phases get their turn.                                                  *)
RunSettles ==
  \A r \in Runs : runStatus[r] = "executing" ~> runStatus[r] \in {"completed", "failed"}

(* A phase that is ready is settled in the end, however often it lost the  *)
(* race for its locks.                                                     *)
ReadyPhaseSettles ==
  \A p \in Phases : status[p] = "ready" ~> status[p] \in {"passed", "failed"}

(* The phases that depend on p, directly or through others.                *)
Downstream(p) ==
  {q \in Phases \ {p} :
     \A S \in SUBSET Phases :
       p \in S /\ (\A x \in Phases : Deps[x] \cap S # {} => x \in S) => q \in S}

(* When a phase fails, all that depends on it becomes blocked.             *)
DependentsBecomeBlocked ==
  \A p \in Phases : \A q \in Downstream(p) :
    status[p] = "failed" ~> status[q] = "blocked" \/ status[p] # "failed"
=============================================================================
