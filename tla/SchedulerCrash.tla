--------------------------- MODULE SchedulerCrash ---------------------------
(***************************************************************************)
(* The scheduler across crashes: the process may die between any two       *)
(* statements of Scheduler.tla, and the next start runs the recovery scan  *)
(* of recovery/startup.rs, statement by statement, before anything else.   *)
(*                                                                         *)
(* Nothing restarts the supervisor of an interrupted run.  After a restart *)
(* driver stands for the caller of the commands scheduler_tick and         *)
(* scheduler_complete_attempt, which run the same tick and                 *)
(* complete_attempt; the supervisor's terminal check is gone.              *)
(***************************************************************************)
EXTENDS Scheduler

CONSTANT MaxCrashes  \* bound on crashes

ASSUME MaxCrashesAssumption == MaxCrashes \in Nat

VARIABLES
  up,       \* the start-up scan of this process is over
  crashes,  \* number of crashes so far
  found,    \* runs with an attempt interrupted by the scan that is going on
  offer     \* recovery_offers: the state of the offer of a run

crashVars == <<up, crashes, found, offer>>

allVars == <<vars, crashVars>>

CrashInit ==
  /\ Init
  /\ up = TRUE
  /\ crashes = 0
  /\ found = {}
  /\ offer = [r \in Runs |-> "none"]

-----------------------------------------------------------------------------
(* What is only in memory is lost.                                         *)
Crash ==
  /\ crashes < MaxCrashes
  /\ crashes' = crashes + 1
  /\ up' = FALSE
  /\ found' = {}
  /\ driver' = [r \in Runs |-> FALSE]
  /\ slot' = NoRun
  /\ stopping' = [r \in Runs |-> FALSE]
  /\ stopWrite' = {}
  /\ op' = Free
  /\ UNCHANGED <<runStatus, lease, phaseVars, attempt, locks, offer>>

(* interrupt_active_attempts, one attempt: the row becomes completed/lost; *)
(* then its phase, if running, goes back to ready; then its locks go.      *)
InterruptAttempt(p) ==
  /\ ~up /\ op = Free /\ HasActiveAttempt(p)
  /\ attempt' = [attempt EXCEPT ![p].status = "completed",
                                ![p].result = "lost",
                                ![p].kind = "transient",
                                ![p].resumed = @ \/ attempt[p].marker]
  /\ found' = found \cup {RunOf[p]}
  /\ op' = Holding("lost_phase", RunOf[p], p, {})
  /\ UNCHANGED <<runVars, phaseVars, locks, up, crashes, offer>>

\* Fault: the phase of an interrupted attempt counts as passed.
InterruptedPasses ==
  /\ op.pc = "lost_phase"
  /\ status' = [status EXCEPT ![op.phase] = "passed"]
  /\ op' = [op EXCEPT !.pc = "lost_release"]
  /\ UNCHANGED <<runVars, failure, count, older, attempt, locks, crashVars>>

InterruptPhase ==
  /\ op.pc = "lost_phase"
  /\ IF status[op.phase] = "running"
     THEN /\ status' = [status EXCEPT ![op.phase] = "ready"]
          /\ failure' = [failure EXCEPT ![op.phase] = "transient"]
     ELSE UNCHANGED <<status, failure>>
  /\ op' = [op EXCEPT !.pc = "lost_release"]
  /\ UNCHANGED <<runVars, count, older, attempt, locks, crashVars>>

InterruptRelease ==
  /\ op.pc = "lost_release"
  /\ locks' = locks \ OwnLocks(op.phase)
  /\ op' = Free
  /\ UNCHANGED <<runVars, phaseVars, attempt, crashVars>>

(* The run that gets the offer: one with an attempt interrupted by this    *)
(* scan, else one that has not ended, if any is recoverable.               *)
Recoverable == {"executing", "paused", "interrupted"}

\* Fault: a run without an interrupted attempt gets no offer.
OfferedIfInterrupted(r) == r \in found

Offered(r) ==
  IF found # {} THEN r \in found
  ELSE /\ \E s \in Runs : runStatus[s] \in Recoverable
       /\ Loaded(r) /\ runStatus[r] \notin EndedRun

CallersDrive == [r \in Runs |-> Loaded(r)]

(* The end of the scan: the offered run is interrupted, its lease paused   *)
(* and marked as needing cleanup.                                          *)
ScanOffers(r) ==
  /\ ~up /\ op = Free /\ Offered(r)
  /\ \A p \in Phases : ~HasActiveAttempt(p)
  /\ runStatus' = [runStatus EXCEPT ![r] = IF @ \in EndedRun THEN @ ELSE "interrupted"]
  /\ lease' = [lease EXCEPT ![r].paused = TRUE, ![r].cleanupIncomplete = TRUE]
  /\ offer' = [offer EXCEPT ![r] = "pending"]
  /\ up' = TRUE
  /\ driver' = CallersDrive
  /\ UNCHANGED <<slot, stopping, stopWrite, phaseVars, attempt, locks, op, crashes, found>>

ScanWithoutOffer ==
  /\ ~up /\ op = Free
  /\ \A p \in Phases : ~HasActiveAttempt(p)
  /\ \A r \in Runs : ~Offered(r)
  /\ up' = TRUE
  /\ driver' = CallersDrive
  /\ UNCHANGED <<runStatus, lease, slot, stopping, stopWrite, phaseVars, attempt,
                 locks, op, crashes, found, offer>>

-----------------------------------------------------------------------------
(* The user's answer.  Only a pending offer can be resumed; Cancel asks no  *)
(* more than that there is an offer.  Offers with a hard failure, and the   *)
(* process registry that Cancel consults, are outside this module.          *)

ResolveResume(r) ==
  /\ up /\ op = Free /\ offer[r] = "pending"
  /\ offer' = [offer EXCEPT ![r] = "resumed"]
  /\ runStatus' = [runStatus EXCEPT ![r] = "executing"]
  /\ lease' = IF lease[r].lowDisk THEN lease
              ELSE [lease EXCEPT ![r].paused = FALSE, ![r].cleanupIncomplete = FALSE]
  /\ UNCHANGED <<control, phaseVars, attempt, locks, op, up, crashes, found>>

ResolveCancel(r) ==
  /\ up /\ op = Free /\ offer[r] # "none"
  /\ offer' = [offer EXCEPT ![r] = "cancelled"]
  /\ runStatus' = [runStatus EXCEPT ![r] = "cancelled"]
  /\ lease' = [lease EXCEPT ![r].paused = TRUE]
  /\ UNCHANGED <<control, phaseVars, attempt, locks, op, up, crashes, found>>

(* What scheduler_tick asks first.                                         *)
ExecutionAllowed(r) == offer[r] \notin {"pending", "cancelled"}

-----------------------------------------------------------------------------
Recovery ==
  \/ \E p \in Phases : InterruptAttempt(p)
  \/ InterruptPhase \/ InterruptRelease
  \/ \E r \in Runs : ScanOffers(r)
  \/ ScanWithoutOffer

Answer == \E r \in Runs : ResolveResume(r) \/ ResolveCancel(r)

Work ==
  /\ up
  /\ \/ \E r \in Runs : ExecutionAllowed(r) /\ (TickPaused(r) \/ TickBegin(r))
     \/ \E r \in Runs : crashes = 0 /\ (LoadPlan(r) \/ FinishRun(r) \/ CancelObserved(r))
     \/ TickSteps
     \/ CompleteSteps
     \/ StopSteps
     \/ \E p \in Phases : WorkerSucceeds(p) \/ WorkerFails(p)
  /\ UNCHANGED crashVars

CrashNext == Crash \/ Recovery \/ Answer \/ Work

CrashSpec == CrashInit /\ [][CrashNext]_allVars

-----------------------------------------------------------------------------
(* Properties across crashes.                                              *)

(* After a restart no attempt is created before the user resumed its run   *)
(* ("no new execution until you choose", docs/user/recovery.md).           *)
NoStartBeforeChoice ==
  [][\A p \in Phases :
       crashes > 0 /\ attempt'[p].n # attempt[p].n => offer[RunOf[p]] = "resumed"]_allVars

(* A phase counts as passed only on the success of its latest attempt,     *)
(* whatever was cut short: completion is never guessed.                    *)
PassedMeansSucceeded ==
  \A p \in Phases : status[p] = "passed" => attempt[p].result = "succeeded"
-----------------------------------------------------------------------------
(* Strengthenings that make the properties inductive (CrashProofs).  Of    *)
(* the scheduler's own, NoneLeft and SuccessCounts do not survive a crash: *)
(* rows of a completed attempt may be left, and so may a success that was  *)
(* never accepted.                                                         *)

(* Between the crash and the end of the scan, an operation is the          *)
(* interruption of an attempt.                                             *)
CrashOp ==
  /\ up => OpOK
  /\ ~up /\ op # Free =>
       /\ op.pc \in {"lost_phase", "lost_release"} /\ op.phase \in Phases
       /\ attempt[op.phase].status = "completed" /\ attempt[op.phase].result = "lost"

(* The phase of a success that is not accepted stays running, which no     *)
(* refresh, scan or tick changes: it is never started again.               *)
SuccessKept ==
  /\ \A p \in Phases : attempt[p].result = "succeeded" => status[p] \in {"passed", "running"}
  /\ up => \A p \in Phases :
       Running(p) => status[p] = "running" \/ (op.pc = "launch" /\ op.phase = p)

CrashInv ==
  /\ TypeOK /\ CrashOp /\ LockKey /\ HoldsLocks /\ TodoOK /\ Unaccepted /\ DependenciesHold
  /\ SuccessKept /\ PassedMeansSucceeded

(* After a restart, who drives a run that can tick has the user's answer,  *)
(* and so has the tick at work.                                            *)
AskedInv ==
  /\ \A r \in Runs : up /\ crashes > 0 /\ driver[r] /\ runStatus[r] \notin EndedForTick => offer[r] # "none"
  /\ crashes > 0 /\ op.pc \in TickPc => offer[op.run] = "resumed"
=============================================================================
