--------------------------- MODULE SchedulerProofs ---------------------------
(***************************************************************************)
(* Proofs about the scheduler, for any plan, lock table and user commands. *)
(***************************************************************************)
EXTENDS Scheduler, FiniteSetTheorems, TLAPS

-----------------------------------------------------------------------------
(* The router.                                                             *)

(* A non-empty set of tiers has a lowest one.                              *)
LEMMA LowestIsMember ==
  ASSUME NEW S \in SUBSET Tiers, S # {}
  PROVE  Lowest(S) \in S
<1>1. \E t \in S : \A u \in S : t <= u
  <2>1. CASE 0 \in S
    BY <2>1, SMT DEF Tiers, GrokHigh
  <2>2. CASE 0 \notin S /\ 1 \in S
    BY <2>2, SMT DEF Tiers, GrokHigh
  <2>3. CASE 0 \notin S /\ 1 \notin S /\ 2 \in S
    BY <2>3, SMT DEF Tiers, GrokHigh
  <2>4. CASE 0 \notin S /\ 1 \notin S /\ 2 \notin S
    <3>1. PICK t \in S : TRUE
      OBVIOUS
    <3>2. \A u \in S : u = 3
      BY <2>4, SMT DEF Tiers, GrokHigh
    <3> QED
      BY <3>1, <3>2, SMT
  <2> QED
    BY <2>1, <2>2, <2>3, <2>4
<1> QED
  BY <1>1 DEF Lowest

(* route_model selects a tier, or refuses.                                 *)
LEMMA RouteModelType ==
  ASSUME NEW t \in Tiers, NEW S \in SUBSET Tiers, NEW b
  PROVE  RouteModel(t, S, b) \in Tiers \cup {-1}
<1>1. \A e : Candidates(e, S) \in SUBSET Tiers
  BY DEF Candidates
<1> QED
  BY <1>1, LowestIsMember DEF RouteModel

(* decide_retry answers with a tier whatever the history.                  *)
LEMMA DecideRetryType ==
  ASSUME NEW t \in Tiers, NEW c \in Nat, NEW m \in Nat, NEW f,
         NEW pr \in BOOLEAN, NEW re \in BOOLEAN
  PROVE  /\ DecideRetry(t, c, m, f, pr, re).tier \in Tiers
         /\ DecideRetry(t, c, m, f, pr, re).allow \in BOOLEAN
         /\ DecideRetry(t, c, m, f, pr, re).sameTier \in BOOLEAN
<1>1. t < GrokHigh => t + 1 \in Tiers
  BY SMT DEF Tiers, GrokHigh
<1>2. GrokHigh \in Tiers /\ t \in Int /\ GrokHigh \in Int
  BY SMT DEF Tiers, GrokHigh
<1>3. CASE c >= m \/ f = "deterministic" \/ (t >= GrokHigh /\ (re \/ ~pr))
  BY <1>3 DEF DecideRetry
<1>4. CASE ~(c >= m \/ f = "deterministic" \/ (t >= GrokHigh /\ (re \/ ~pr)))
  BY <1>1, <1>2, <1>4, SMT DEF DecideRetry
<1> QED
  BY <1>3, <1>4

-----------------------------------------------------------------------------
(* Readiness.                                                              *)

(* A refresh never makes a phase passed, and never takes one back.         *)
LEMMA RefreshKeepsPassed ==
  ASSUME NEW st, NEW r, NEW p \in Phases
  PROVE  RefreshedStatus(st, r)[p] = "passed" <=> st[p] = "passed"
BY DEF RefreshedStatus, Refreshable, Readiness, TerminalPhase

(* A phase that a refresh leaves ready has its dependencies passed.        *)
LEMMA RefreshReady ==
  ASSUME NEW st, NEW r, NEW p \in PhasesOf(r), RefreshedStatus(st, r)[p] = "ready"
  PROVE  DependenciesPassed(p, st)
BY DEF RefreshedStatus, Refreshable, Readiness, TerminalPhase, PhasesOf

(* What a refresh writes has the type of the columns.                      *)
LEMMA RefreshType ==
  ASSUME NEW st \in [Phases -> PhaseStatuses], NEW fl \in [Phases -> FailureKinds],
         NEW old \in SUBSET (Phases \X Phases), NEW r,
         RefreshFrom(st, fl, old, r)
  PROVE  /\ status' \in [Phases -> PhaseStatuses]
         /\ failure' \in [Phases -> FailureKinds]
         /\ older' \in SUBSET (Phases \X Phases)
<1>1. \A p \in Phases : RefreshedStatus(st, r)[p] \in PhaseStatuses
  BY DEF RefreshedStatus, Readiness, PhaseStatuses
<1>2. \A p \in Phases : RefreshedFailure(fl, st, r)[p] \in FailureKinds
  BY DEF RefreshedFailure, FailureKinds
<1>3. \A S \in SUBSET Phases : StampReady(old, S) \in SUBSET (Phases \X Phases)
  BY DEF StampReady
<1>4. RefreshedOlder(old, st, r) \in SUBSET (Phases \X Phases)
  BY <1>3 DEF RefreshedOlder
<1>5. RefreshedStatus(st, r) \in [Phases -> PhaseStatuses]
  BY <1>1 DEF RefreshedStatus
<1>6. RefreshedFailure(fl, st, r) \in [Phases -> FailureKinds]
  BY <1>2 DEF RefreshedFailure
<1> QED
  BY <1>4, <1>5, <1>6 DEF RefreshFrom

-----------------------------------------------------------------------------
(* Types.                                                                  *)

(* The two columns written by name only.                                   *)
LEMMA NoAttemptType == \A p \in Phases : NoAttempt(p) \in AttemptRow
BY ConstantsAssumption DEF NoAttempt, AttemptRow, Results, FailureKinds

\* The initial state has the type.
LEMMA InitType == Init => TypeOK
<1> SUFFICES ASSUME Init PROVE TypeOK
  OBVIOUS
<1>1. attempt \in [Phases -> AttemptRow]
  BY NoAttemptType DEF Init
<1>2. /\ runStatus \in [Runs -> RunStatuses]
      /\ lease \in [Runs -> Lease]
      /\ driver \in [Runs -> BOOLEAN]
      /\ slot \in Runs \cup {NoRun}
      /\ stopping \in [Runs -> BOOLEAN]
      /\ stopWrite \subseteq Runs
  BY DEF Init, RunStatuses, Lease
<1>3. /\ status \in [Phases -> PhaseStatuses]
      /\ count \in [Phases -> Nat]
      /\ failure \in [Phases -> FailureKinds]
      /\ older \subseteq Phases \X Phases
  BY DEF Init, PhaseStatuses, FailureKinds
<1>4. /\ locks \subseteq LockRow
      /\ op \in [pc : Steps, run : Runs \cup {NoRun}, phase : Phases \cup {NoPhase},
                 todo : SUBSET Phases]
  BY DEF Init, Free, Steps
<1> QED
  BY <1>1, <1>2, <1>3, <1>4 DEF TypeOK

(* The tier a start would use, and the decision behind it.                 *)
LEMMA StartType ==
  ASSUME TypeOK, NEW p \in Phases
  PROVE  /\ StartTier(p) \in Tiers \cup {-1}
         /\ StartDecision(p).sameTier \in BOOLEAN
<1>1. attempt[p] \in AttemptRow /\ count[p] \in Nat /\ BaseTier[p] \in Tiers
      /\ MaxAttempts \in Nat /\ Available \in SUBSET Tiers
  BY ConstantsAssumption DEF TypeOK
<1>2. attempt[p].tier \in Tiers /\ attempt[p].progress \in BOOLEAN
      /\ attempt[p].resumed \in BOOLEAN
  BY <1>1 DEF AttemptRow
<1>3. StartDecision(p).tier \in Tiers /\ StartDecision(p).sameTier \in BOOLEAN
  <2>1. CASE failure[p] = "none"
    BY <1>1, <2>1 DEF StartDecision
  <2>2. CASE failure[p] # "none"
    BY <1>1, <1>2, <2>2, DecideRetryType DEF StartDecision
  <2> QED
    BY <2>1, <2>2
<1> QED
  BY <1>1, <1>3, RouteModelType DEF StartTier

-----------------------------------------------------------------------------
(* Each step keeps the types.  The first lemma is about the steps that     *)
(* leave the attempts, the locks and the operation alone.                  *)

OutsideStep ==
  \/ \E r \in Runs :
       \/ LoadPlan(r) \/ TickPaused(r) \/ FinishRun(r) \/ CancelObserved(r)
       \/ RequestStop(r) \/ WriteCancelling(r)
       \/ Pause(r) \/ Resume(r) \/ AbortPress(r) \/ ForcedAbort(r)
  \/ LowDisk
  \/ \E p \in Phases : RetryPhase(p)
  \/ UNCHANGED vars

\* A step outside the operations of the scheduler leaves attempts, locks and the operation alone.
LEMMA OutsideUnchanged == OutsideStep => UNCHANGED <<attempt, locks, op>>
BY DEF OutsideStep, LoadPlan, TickPaused, FinishRun, CancelObserved, RequestStop,
       WriteCancelling, Pause, Resume, AbortPress, ForcedAbort, LowDisk, RetryPhase, vars

\* It keeps the types.
LEMMA OutsideType == TypeOK /\ OutsideStep => TypeOK'
<1> SUFFICES ASSUME TypeOK, OutsideStep PROVE TypeOK'
  OBVIOUS
<1> USE DEF TypeOK, runVars, control, phaseVars
<1>u. UNCHANGED <<attempt, locks, op>>
  BY OutsideUnchanged
<1>1. ASSUME NEW r \in Runs, LoadPlan(r) PROVE TypeOK'
  <2>1. status' \in [Phases -> PhaseStatuses] /\ failure' \in [Phases -> FailureKinds]
        /\ older' \in SUBSET (Phases \X Phases)
    BY <1>1, RefreshType DEF LoadPlan, Refresh
  <2> QED
    BY <1>1, <1>u, <2>1 DEF LoadPlan, RunStatuses, Lease
<1>2. ASSUME NEW r \in Runs, TickPaused(r) PROVE TypeOK'
  <2>1. status' \in [Phases -> PhaseStatuses] /\ failure' \in [Phases -> FailureKinds]
        /\ older' \in SUBSET (Phases \X Phases)
    BY <1>2, RefreshType DEF TickPaused, Refresh
  <2> QED
    BY <1>2, <1>u, <2>1 DEF TickPaused
<1>3. ASSUME NEW r \in Runs, FinishRun(r) PROVE TypeOK'
  BY <1>3, <1>u DEF FinishRun, RunStatuses
<1>4. ASSUME NEW r \in Runs, CancelObserved(r) PROVE TypeOK'
  BY <1>4, <1>u DEF CancelObserved, RunStatuses
<1>5. ASSUME NEW r \in Runs, RequestStop(r) PROVE TypeOK'
  BY <1>5, <1>u DEF RequestStop
<1>6. ASSUME NEW r \in Runs, WriteCancelling(r) PROVE TypeOK'
  BY <1>6, <1>u DEF WriteCancelling, RunStatuses
<1>7. ASSUME NEW r \in Runs, Pause(r) PROVE TypeOK'
  BY <1>7, <1>u DEF Pause, RunStatuses, Lease
<1>8. ASSUME NEW r \in Runs, Resume(r) PROVE TypeOK'
  BY <1>8, <1>u DEF Resume, RunStatuses, Lease
<1>9. ASSUME NEW r \in Runs, AbortPress(r) PROVE TypeOK'
  BY <1>9, <1>u DEF AbortPress, RunStatuses
<1>10. ASSUME NEW r \in Runs, ForcedAbort(r) PROVE TypeOK'
  BY <1>10, <1>u DEF ForcedAbort, RunStatuses
<1>11. ASSUME LowDisk PROVE TypeOK'
  BY <1>11, <1>u DEF LowDisk, Lease
<1>12. ASSUME NEW p \in Phases, RetryPhase(p) PROVE TypeOK'
  BY <1>12, <1>u DEF RetryPhase, PhaseStatuses, StampReady
<1>13. ASSUME UNCHANGED vars PROVE TypeOK'
  BY <1>13 DEF vars
<1> QED
  BY <1>1, <1>2, <1>3, <1>4, <1>5, <1>6, <1>7, <1>8, <1>9, <1>10, <1>11, <1>12, <1>13 DEF OutsideStep

(* The steps of a tick and of a completion.                                *)
InsideStep ==
  \/ \E r \in Runs : TickBegin(r)
  \/ TickSteps
  \/ \E p \in Phases : WorkerSucceeds(p) \/ WorkerFails(p)
  \/ CompleteSteps

\* A step is outside the operations, or inside one.
LEMMA NextCases == [Next]_vars => OutsideStep \/ InsideStep
BY DEF Next, Supervisor, StopSteps, UserCommands, OutsideStep, InsideStep

\* A step inside an operation keeps the types.
LEMMA InsideType == TypeOK /\ OpOK /\ InsideStep => TypeOK'
<1> SUFFICES ASSUME TypeOK, OpOK, InsideStep PROVE TypeOK'
  OBVIOUS
<1> USE DEF TypeOK, runVars, control, phaseVars
<1>1. ASSUME NEW r \in Runs, TickBegin(r) PROVE TypeOK'
  <2>1. status' \in [Phases -> PhaseStatuses] /\ failure' \in [Phases -> FailureKinds]
        /\ older' \in SUBSET (Phases \X Phases)
    BY <1>1, RefreshType DEF TickBegin, Refresh
  <2>2. op' \in [pc : Steps, run : Runs \cup {NoRun}, phase : Phases \cup {NoPhase},
                 todo : SUBSET Phases]
    BY <1>1 DEF TickBegin, Holding, Steps, PhasesOf
  <2> QED
    BY <1>1, <2>1, <2>2 DEF TickBegin
<1>2. ASSUME TickEnd PROVE TypeOK'
  <2>1. status' \in [Phases -> PhaseStatuses] /\ failure' \in [Phases -> FailureKinds]
        /\ older' \in SUBSET (Phases \X Phases)
    BY <1>2, RefreshType DEF TickEnd, Refresh
  <2> QED
    BY <1>2, <2>1 DEF TickEnd, Free, Steps
<1>3. ASSUME NEW p \in Phases, SkipPhase(p) PROVE TypeOK'
  BY <1>3 DEF SkipPhase, Rest, Holding, Steps
<1>4. ASSUME NEW p \in Phases, DenyStart(p) PROVE TypeOK'
  BY <1>4 DEF DenyStart, Rest, Holding, Steps, PhaseStatuses, FailureKinds
<1>5. ASSUME NEW p \in Phases, RefuseRoute(p) PROVE TypeOK'
  BY <1>5 DEF RefuseRoute, Free, Steps, RunStatuses
<1>6. ASSUME NEW p \in Phases, InsertAttempt(p) PROVE TypeOK'
  <2>1. attempt[p].resumed \in BOOLEAN /\ count[p] + 1 \in Nat
    BY DEF AttemptRow
  <2>2. StartTier(p) \in Tiers /\ StartDecision(p).sameTier \in BOOLEAN
    BY <1>6, StartType DEF InsertAttempt
  <2>3. attempt' \in [Phases -> AttemptRow]
    BY <1>6, <2>1, <2>2 DEF InsertAttempt, AttemptRow, Results, FailureKinds
  <2> QED
    BY <1>6, <2>3 DEF InsertAttempt, Holding, Steps
<1>7. ASSUME BumpCount PROVE TypeOK'
  BY <1>7 DEF BumpCount, OpOK, AttemptRow, Steps
<1>8. ASSUME AcquireLocks PROVE TypeOK'
  <2>1. op.phase \in Phases /\ attempt[op.phase].n \in Nat
    BY <1>8 DEF AcquireLocks, OpOK, AttemptRow
  <2>2. locks' \subseteq LockRow
    BY <1>8, <2>1 DEF AcquireLocks, LockRow
  <2> QED
    BY <1>8, <2>2 DEF AcquireLocks, Steps
<1>9. ASSUME LockContended PROVE TypeOK'
  <2>1. op.phase \in Phases /\ attempt[op.phase] \in AttemptRow
    BY <1>9 DEF LockContended, OpOK
  <2>2. [attempt[op.phase] EXCEPT !.status = "completed", !.result = "cancelled",
                                  !.marker = FALSE] \in AttemptRow
    BY <2>1 DEF AttemptRow, Results
  <2>3. attempt' = [attempt EXCEPT ![op.phase] =
          [attempt[op.phase] EXCEPT !.status = "completed", !.result = "cancelled",
                                    !.marker = FALSE]]
    BY <1>9, <2>1 DEF LockContended
  <2>4. attempt' \in [Phases -> AttemptRow]
    BY <2>1, <2>2, <2>3
  <2> QED
    BY <1>9, <2>4 DEF LockContended, Rest, Holding, Steps
<1>10. ASSUME MarkRunning PROVE TypeOK'
  <2>1. op.phase \in Phases /\ attempt[op.phase] \in AttemptRow
    BY <1>10 DEF MarkRunning, OpOK
  <2>2. [attempt[op.phase] EXCEPT !.status = "running"] \in AttemptRow
    BY <2>1 DEF AttemptRow
  <2>3. attempt' = [attempt EXCEPT ![op.phase] =
                      [attempt[op.phase] EXCEPT !.status = "running"]]
    BY <1>10 DEF MarkRunning
  <2>4. attempt' \in [Phases -> AttemptRow]
    BY <2>1, <2>2, <2>3
  <2> QED
    BY <1>10, <2>4 DEF MarkRunning, Steps
<1>11. ASSUME LaunchPhase PROVE TypeOK'
  BY <1>11 DEF LaunchPhase, OpOK, Rest, Holding, Steps, PhaseStatuses
<1>12. ASSUME NEW p \in Phases, NEW res \in {"succeeded", "failed"}, NEW k \in FailureKinds,
            NEW g \in BOOLEAN, CompleteBegin(p, res, k, g)
     PROVE  TypeOK'
  <2> DEFINE old == attempt[p]
             row == [old EXCEPT !.status = "completed", !.result = res, !.kind = k,
                                !.progress = g, !.resumed = old.resumed \/ old.marker]
  <2>0. old \in AttemptRow
    OBVIOUS
  <2>1. row \in AttemptRow
    <3>1. (old.resumed \/ old.marker) \in BOOLEAN
      OBVIOUS
    <3>2. res \in Results
      BY DEF Results
    <3> HIDE DEF old
    <3> QED
      BY <2>0, <3>1, <3>2 DEF AttemptRow
  <2>2. attempt' \in [Phases -> AttemptRow]
    <3>1. attempt' = [attempt EXCEPT ![p] = row]
      BY <1>12 DEF CompleteBegin
    <3> QED
      BY <2>1, <3>1
  <2>3. RunOf[p] \in Runs
    BY ConstantsAssumption
  <2> QED
    BY <1>12, <2>2, <2>3 DEF CompleteBegin, Holding, Steps
<1>13. ASSUME NEW p \in Phases, WorkerSucceeds(p) \/ WorkerFails(p) PROVE TypeOK'
  <2>1. CASE WorkerSucceeds(p)
    <3>1. CompleteBegin(p, "succeeded", "none", FALSE)
      BY <2>1 DEF WorkerSucceeds
    <3> QED
      BY <3>1, <1>12 DEF FailureKinds
  <2>2. CASE WorkerFails(p)
    <3>1. PICK k \in FailureKinds, g \in BOOLEAN : CompleteBegin(p, "failed", k, g)
      BY <2>2 DEF WorkerFails
    <3> QED
      BY <3>1, <1>12
  <2> QED
    BY <1>13, <2>1, <2>2
<1>14. ASSUME ReleaseLocks PROVE TypeOK'
  BY <1>14 DEF ReleaseLocks, Steps
<1>15. ASSUME SettlePhase PROVE TypeOK'
  <2> DEFINE st == [status EXCEPT ![op.phase] = SettledStatus(op.phase)]
  <2>1. op.phase \in Phases /\ attempt[op.phase].kind \in FailureKinds
    BY <1>15 DEF SettlePhase, OpOK, AttemptRow, DonePc
  <2>2. st \in [Phases -> PhaseStatuses]
    BY <2>1 DEF SettledStatus, PhaseStatuses
  <2>3. SettledFailure(op.phase) \in [Phases -> FailureKinds]
    BY <2>1 DEF SettledFailure
  <2>4. RefreshFrom(st, SettledFailure(op.phase), older, op.run)
    BY <1>15 DEF SettlePhase
  <2>5. status' \in [Phases -> PhaseStatuses] /\ failure' \in [Phases -> FailureKinds]
        /\ older' \in SUBSET (Phases \X Phases)
    BY <2>2, <2>3, <2>4, RefreshType
  <2> QED
    BY <1>15, <2>5 DEF SettlePhase, Free, Steps
<1>16. ASSUME SettleForRetry PROVE TypeOK'
  <2>1. op.phase \in Phases /\ attempt[op.phase].kind \in FailureKinds
    BY <1>16 DEF SettleForRetry, OpOK, AttemptRow
  <2>2. SettledFailure(op.phase) \in [Phases -> FailureKinds]
    BY <2>1 DEF SettledFailure
  <2> QED
    BY <1>16, <2>2 DEF SettleForRetry, Steps, PhaseStatuses
<1>17. ASSUME RequeuePhase PROVE TypeOK'
  <2> DEFINE st == [status EXCEPT ![op.phase] = "ready"]
             old == StampReady(older, {op.phase})
  <2>1. st \in [Phases -> PhaseStatuses] /\ old \in SUBSET (Phases \X Phases)
    BY <1>17 DEF RequeuePhase, OpOK, PhaseStatuses, StampReady
  <2>2. RefreshFrom(st, failure, old, op.run)
    BY <1>17 DEF RequeuePhase
  <2>3. status' \in [Phases -> PhaseStatuses] /\ failure' \in [Phases -> FailureKinds]
        /\ older' \in SUBSET (Phases \X Phases)
    BY <2>1, <2>2, RefreshType
  <2> QED
    BY <1>17, <2>3 DEF RequeuePhase, Free, Steps
<1> QED
  BY <1>1, <1>2, <1>3, <1>4, <1>5, <1>6, <1>7, <1>8, <1>9, <1>10, <1>11, <1>13, <1>14, <1>15, <1>16, <1>17 DEF InsideStep, TickSteps, CompleteSteps

-----------------------------------------------------------------------------
(* What the steps that write an attempt row do to the columns the          *)
(* invariants read.                                                        *)

Written(p, n, st, res) ==
  \A q \in Phases :
    /\ attempt'[q].n = IF q = p THEN n ELSE attempt[q].n
    /\ attempt'[q].status = IF q = p THEN st ELSE attempt[q].status
    /\ attempt'[q].result = IF q = p THEN res ELSE attempt[q].result

\* What the insertion of an attempt writes.
LEMMA InsertWrites ==
  ASSUME TypeOK, NEW p \in Phases, InsertAttempt(p)
  PROVE  Written(p, count[p] + 1, "starting", "none")
BY DEF TypeOK, InsertAttempt, Written

\* What a start that loses a lock writes.
LEMMA ContendedWrites ==
  ASSUME TypeOK, OpOK, LockContended
  PROVE  /\ op.phase \in Phases
         /\ Written(op.phase, attempt[op.phase].n, "completed", "cancelled")
<1>1. op.phase \in Phases
  BY DEF OpOK, LockContended
<1>2. attempt[op.phase] \in AttemptRow
  BY <1>1 DEF TypeOK
<1>3. attempt' = [attempt EXCEPT ![op.phase] =
        [attempt[op.phase] EXCEPT !.status = "completed", !.result = "cancelled",
                                  !.marker = FALSE]]
  BY <1>1 DEF LockContended, TypeOK
<1> QED
  BY <1>1, <1>2, <1>3 DEF TypeOK, AttemptRow, Written

\* What the step that marks the phase writes.
LEMMA MarkWrites ==
  ASSUME TypeOK, OpOK, MarkRunning
  PROVE  /\ op.phase \in Phases
         /\ Written(op.phase, attempt[op.phase].n, "running", attempt[op.phase].result)
<1>1. op.phase \in Phases
  BY DEF OpOK, MarkRunning
<1>2. attempt[op.phase] \in AttemptRow
  BY <1>1 DEF TypeOK
<1> QED
  BY <1>1, <1>2 DEF TypeOK, AttemptRow, MarkRunning, Written

\* What the completion of an attempt writes.
LEMMA CompleteWrites ==
  ASSUME TypeOK, NEW p \in Phases, NEW res, NEW k, NEW g, CompleteBegin(p, res, k, g)
  PROVE  Written(p, attempt[p].n, "completed", res)
<1>1. attempt[p] \in AttemptRow
  BY DEF TypeOK
<1>2. attempt' = [attempt EXCEPT ![p] =
        [attempt[p] EXCEPT !.status = "completed", !.result = res, !.kind = k,
            !.progress = g, !.resumed = attempt[p].resumed \/ attempt[p].marker]]
  BY DEF CompleteBegin, TypeOK
<1> QED
  BY <1>1, <1>2 DEF TypeOK, AttemptRow, Written

(* A worker's outcome is the completion of its attempt, one way or the     *)
(* other.                                                                  *)
LEMMA WorkerCases ==
  ASSUME TypeOK, NEW p \in Phases, WorkerSucceeds(p) \/ WorkerFails(p)
  PROVE  \E res \in {"succeeded", "failed"}, k \in FailureKinds, g \in BOOLEAN :
           CompleteBegin(p, res, k, g)
<1>1. CASE WorkerSucceeds(p)
  BY <1>1 DEF WorkerSucceeds, FailureKinds
<1>2. CASE WorkerFails(p)
  BY <1>2 DEF WorkerFails
<1> QED
  BY <1>1, <1>2

-----------------------------------------------------------------------------
(* The locks.                                                              *)

\* The locks are free in the beginning.
LEMMA InitLock == Init => LockInv
<1> SUFFICES ASSUME Init PROVE LockInv
  OBVIOUS
<1>1. \A p \in Phases : attempt[p].status = "none"
  BY DEF Init, NoAttempt
<1>2. op.pc = "free" /\ locks = {}
  BY DEF Init, Free
<1> QED
  BY <1>1, <1>2, InitType
     DEF LockInv, OpOK, TickPc, DonePc, LockKey, HoldsLocks, Running, NoneLeft, LocksOwned

\* Steps outside the operations keep the locks' invariant.
LEMMA OutsideLock == LockInv /\ OutsideStep => LockInv'
<1> SUFFICES ASSUME LockInv, OutsideStep PROVE LockInv'
  OBVIOUS
<1>1. UNCHANGED <<attempt, locks, op>>
  BY OutsideUnchanged
<1>2. TypeOK'
  BY OutsideType DEF LockInv
<1> QED
  BY <1>1, <1>2 DEF LockInv, OpOK, TickPc, DonePc, LockKey, HoldsLocks, Running,
     HasRow, NoneLeft, LocksOwned, HasActiveAttempt

\* Steps inside an operation keep the locks of the attempts, and leave no row behind.
LEMMA InsideLock ==
  ASSUME TypeOK, OpOK, LockKey, HoldsLocks, InsideStep
  PROVE  /\ TypeOK' /\ OpOK' /\ LockKey' /\ HoldsLocks'
         /\ NoneLeft => NoneLeft'
<1>t. TypeOK'
  BY InsideType
<1>p. TypeOK /\ OpOK /\ LockKey /\ HoldsLocks
  OBVIOUS
<1> USE DEF TickPc, DonePc, Running, HasActiveAttempt
<1> DEFINE Kept == NoneLeft => NoneLeft'
           Goal == OpOK' /\ LockKey' /\ HoldsLocks' /\ Kept
<1>1. ASSUME NEW r \in Runs, TickBegin(r) PROVE Goal
  <2>1. UNCHANGED <<attempt, locks>> /\ op.pc = "free" /\ op'.pc = "scan"
    BY <1>1 DEF TickBegin, MayTick, Free, Holding
  <2> QED
    BY <2>1, <1>p DEF OpOK, LockKey, HoldsLocks, HasRow, NoneLeft, LocksOwned
<1>2. ASSUME TickEnd PROVE Goal
  <2>91. OpOK'
    BY <1>2, <1>p DEF OpOK, TickEnd, Free
  <2>92. LockKey'
    BY <1>2, <1>p DEF LockKey, OpOK, TickEnd, Free
  <2>93. HoldsLocks'
    BY <1>2, <1>p DEF HoldsLocks, HasRow, OpOK, TickEnd, Free
  <2>94. Kept
    BY <1>2, <1>p DEF NoneLeft, LocksOwned, OpOK, TickEnd, Free
  <2> QED
    BY <2>91, <2>92, <2>93, <2>94
<1>3. ASSUME NEW p \in Phases, SkipPhase(p) \/ DenyStart(p) PROVE Goal
  <2>1. UNCHANGED <<attempt, locks>> /\ op.pc = "scan" /\ op'.pc = "scan"
    BY <1>3 DEF SkipPhase, DenyStart, Rest, Holding, Scanning
  <2>91. OpOK'
    BY <1>3, <2>1, <1>p DEF OpOK
  <2>92. LockKey'
    BY <1>3, <2>1, <1>p DEF LockKey, OpOK
  <2>93. HoldsLocks'
    BY <1>3, <2>1, <1>p DEF HoldsLocks, HasRow, OpOK
  <2>94. Kept
    BY <1>3, <2>1, <1>p DEF NoneLeft, LocksOwned, OpOK
  <2> QED
    BY <2>91, <2>92, <2>93, <2>94
<1>4. ASSUME NEW p \in Phases, RefuseRoute(p) PROVE Goal
  <2>1. UNCHANGED <<attempt, locks>> /\ op.pc = "scan" /\ op'.pc = "free"
    BY <1>4 DEF RefuseRoute, Free, Scanning
  <2>91. OpOK'
    BY <1>4, <2>1, <1>p DEF OpOK
  <2>92. LockKey'
    BY <1>4, <2>1, <1>p DEF LockKey, OpOK
  <2>93. HoldsLocks'
    BY <1>4, <2>1, <1>p DEF HoldsLocks, HasRow, OpOK
  <2>94. Kept
    BY <1>4, <2>1, <1>p DEF NoneLeft, LocksOwned, OpOK
  <2> QED
    BY <2>91, <2>92, <2>93, <2>94
<1>5. ASSUME NEW p \in Phases, InsertAttempt(p) PROVE Goal
  <2>1. UNCHANGED locks /\ op.pc = "scan" /\ op'.pc = "bump" /\ op'.phase = p
    BY <1>5 DEF InsertAttempt, Holding, Scanning
  <2>2. attempt[p].status \notin {"starting", "running"}
    BY <1>5 DEF InsertAttempt
  <2>3. NoneLeft => \A row \in locks : row.phase # p
    BY <1>p, <2>1, <2>2 DEF NoneLeft, LocksOwned
  <2>4. Written(p, count[p] + 1, "starting", "none")
    BY <1>5, <1>p, InsertWrites
  <2>5. \A row \in locks : row.phase \in Phases
    BY <1>p DEF TypeOK, LockRow
  <2>91. OpOK'
    BY <2>1, <2>2, <2>3, <2>4, <2>5, <1>p DEF OpOK, Written
  <2>92. LockKey'
    BY <2>1, <2>2, <2>3, <2>4, <2>5, <1>p DEF LockKey, OpOK, Written
  <2>93. HoldsLocks'
    BY <2>1, <2>2, <2>3, <2>4, <2>5, <1>p DEF HoldsLocks, HasRow, OpOK, Written
  <2>94. Kept
    BY <2>1, <2>2, <2>3, <2>4, <2>5, <1>p DEF NoneLeft, LocksOwned, OpOK, Written
  <2> QED
    BY <2>91, <2>92, <2>93, <2>94
<1>6. ASSUME BumpCount PROVE Goal
  <2>1. op \in [pc : Steps, run : Runs \cup {NoRun}, phase : Phases \cup {NoPhase},
                todo : SUBSET Phases]
    BY <1>p DEF TypeOK
  <2>2. UNCHANGED <<attempt, locks>> /\ op.pc = "bump" /\ op'.pc = "lock" /\ op'.phase = op.phase
    BY <1>6, <2>1 DEF BumpCount
  <2>91. OpOK'
    BY <2>2, <1>p DEF OpOK
  <2>92. LockKey'
    BY <2>2, <1>p DEF LockKey, OpOK
  <2>93. HoldsLocks'
    BY <2>2, <1>p DEF HoldsLocks, HasRow, OpOK
  <2>94. Kept
    BY <2>2, <1>p DEF NoneLeft, LocksOwned, OpOK
  <2> QED
    BY <2>91, <2>92, <2>93, <2>94
<1>7. ASSUME AcquireLocks PROVE Goal
  <2>1. op \in [pc : Steps, run : Runs \cup {NoRun}, phase : Phases \cup {NoPhase},
                todo : SUBSET Phases]
    BY <1>p DEF TypeOK
  <2>2. /\ UNCHANGED attempt /\ op.pc = "lock" /\ op'.pc = "mark" /\ op'.phase = op.phase
        /\ locks' = locks \cup
             {[lock |-> l, phase |-> op.phase, n |-> attempt[op.phase].n]
                : l \in LocksOf[op.phase]}
        /\ \A row \in locks : row.lock \notin LocksOf[op.phase]
    BY <1>7, <2>1 DEF AcquireLocks, LocksBusy
  <2>91. OpOK'
    BY <2>2, <1>p DEF OpOK
  <2>92. LockKey'
    BY <2>2, <1>p DEF LockKey, OpOK
  <2>93. HoldsLocks'
    BY <2>2, <1>p DEF HoldsLocks, HasRow, OpOK
  <2>94. Kept
    BY <2>2, <1>p DEF NoneLeft, LocksOwned, OpOK
  <2> QED
    BY <2>91, <2>92, <2>93, <2>94
<1>8. ASSUME LockContended PROVE Goal
  <2>1. UNCHANGED locks /\ op.pc = "lock" /\ op'.pc = "scan"
    BY <1>8 DEF LockContended, Rest, Holding
  <2>2. /\ op.phase \in Phases
        /\ Written(op.phase, attempt[op.phase].n, "completed", "cancelled")
    BY <1>8, <1>p, ContendedWrites
  <2>3. \A row \in locks : row.phase \in Phases /\ (NoneLeft => row.phase # op.phase)
    BY <1>p, <2>1 DEF TypeOK, LockRow, NoneLeft
  <2>91. OpOK'
    BY <2>1, <2>2, <2>3, <1>p DEF OpOK, Written
  <2>92. LockKey'
    BY <2>1, <2>2, <2>3, <1>p DEF LockKey, OpOK, Written
  <2>93. HoldsLocks'
    BY <2>1, <2>2, <2>3, <1>p DEF HoldsLocks, HasRow, OpOK, Written
  <2>94. Kept
    BY <2>1, <2>2, <2>3, <1>p DEF NoneLeft, LocksOwned, OpOK, Written
  <2> QED
    BY <2>91, <2>92, <2>93, <2>94
<1>9. ASSUME MarkRunning PROVE Goal
  <2>1. op \in [pc : Steps, run : Runs \cup {NoRun}, phase : Phases \cup {NoPhase},
                todo : SUBSET Phases]
    BY <1>p DEF TypeOK
  <2>2. UNCHANGED locks /\ op.pc = "mark" /\ op'.pc = "launch" /\ op'.phase = op.phase
    BY <1>9, <2>1 DEF MarkRunning
  <2>3. /\ op.phase \in Phases
        /\ Written(op.phase, attempt[op.phase].n, "running", attempt[op.phase].result)
    BY <1>9, <1>p, MarkWrites
  <2>4. \A row \in locks : row.phase \in Phases
    BY <1>p DEF TypeOK, LockRow
  <2>91. OpOK'
    BY <2>2, <2>3, <2>4, <1>p DEF OpOK, Written
  <2>92. LockKey'
    BY <2>2, <2>3, <2>4, <1>p DEF LockKey, OpOK, Written
  <2>93. HoldsLocks'
    BY <2>2, <2>3, <2>4, <1>p DEF HoldsLocks, HasRow, OpOK, Written
  <2>94. Kept
    BY <2>2, <2>3, <2>4, <1>p DEF NoneLeft, LocksOwned, OpOK, Written
  <2> QED
    BY <2>91, <2>92, <2>93, <2>94
<1>10. ASSUME LaunchPhase PROVE Goal
  <2>1. UNCHANGED <<attempt, locks>> /\ op.pc = "launch" /\ op'.pc = "scan"
    BY <1>10 DEF LaunchPhase, Rest, Holding
  <2>91. OpOK'
    BY <2>1, <1>p DEF OpOK
  <2>92. LockKey'
    BY <2>1, <1>p DEF LockKey, OpOK
  <2>93. HoldsLocks'
    BY <2>1, <1>p DEF HoldsLocks, HasRow, OpOK
  <2>94. Kept
    BY <2>1, <1>p DEF NoneLeft, LocksOwned, OpOK
  <2> QED
    BY <2>91, <2>92, <2>93, <2>94
<1>11. ASSUME NEW p \in Phases, WorkerSucceeds(p) \/ WorkerFails(p) PROVE Goal
  <2>1. PICK res \in {"succeeded", "failed"}, k \in FailureKinds, g \in BOOLEAN :
          CompleteBegin(p, res, k, g)
    BY <1>11, <1>p, WorkerCases
  <2>2. /\ UNCHANGED locks /\ op.pc = "free" /\ op'.pc = "release" /\ op'.phase = p
        /\ attempt[p].status = "running"
    BY <2>1 DEF CompleteBegin, Holding, Free
  <2>3. Written(p, attempt[p].n, "completed", res)
    BY <1>p, <2>1, CompleteWrites
  <2>4. \A row \in locks : row.phase \in Phases
    BY <1>p DEF TypeOK, LockRow
  <2>91. OpOK'
    BY <2>2, <2>3, <2>4, <1>p DEF OpOK, Written
  <2>92. LockKey'
    BY <2>2, <2>3, <2>4, <1>p DEF LockKey, OpOK, Written
  <2>93. HoldsLocks'
    BY <2>2, <2>3, <2>4, <1>p DEF HoldsLocks, HasRow, OpOK, Written
  <2>94. Kept
    BY <2>2, <2>3, <2>4, <1>p DEF NoneLeft, LocksOwned, OpOK, Written
  <2> QED
    BY <2>91, <2>92, <2>93, <2>94
<1>12. ASSUME ReleaseLocks PROVE Goal
  <2>1. op \in [pc : Steps, run : Runs \cup {NoRun}, phase : Phases \cup {NoPhase},
                todo : SUBSET Phases]
    BY <1>p DEF TypeOK
  <2>2. /\ UNCHANGED attempt /\ op.pc = "release" /\ op'.pc = "settle" /\ op'.phase = op.phase
        /\ locks' = locks \ {row \in locks : row.phase = op.phase /\ row.n = attempt[op.phase].n}
    BY <1>12, <2>1 DEF ReleaseLocks, OwnLocks
  <2>91. OpOK'
    BY <2>2, <1>p DEF OpOK
  <2>92. LockKey'
    BY <2>2, <1>p DEF LockKey, OpOK
  <2>93. HoldsLocks'
    BY <2>2, <1>p DEF HoldsLocks, HasRow, OpOK
  <2>94. Kept
    BY <2>2, <1>p DEF NoneLeft, LocksOwned, OpOK
  <2> QED
    BY <2>91, <2>92, <2>93, <2>94
<1>13. ASSUME SettlePhase \/ SettleForRetry \/ RequeuePhase PROVE Goal
  <2>1. op \in [pc : Steps, run : Runs \cup {NoRun}, phase : Phases \cup {NoPhase},
                todo : SUBSET Phases]
    BY <1>p DEF TypeOK
  <2>2. /\ UNCHANGED <<attempt, locks>> /\ op.pc \in {"settle", "requeue"}
        /\ op'.pc = "free" \/ (op'.pc = "requeue" /\ op'.phase = op.phase)
    BY <1>13, <2>1 DEF SettlePhase, SettleForRetry, RequeuePhase, Free
  <2>91. OpOK'
    BY <2>2, <1>p DEF OpOK
  <2>92. LockKey'
    BY <2>2, <1>p DEF LockKey, OpOK
  <2>93. HoldsLocks'
    BY <2>2, <1>p DEF HoldsLocks, HasRow, OpOK
  <2>94. Kept
    BY <2>2, <1>p DEF NoneLeft, LocksOwned, OpOK
  <2> QED
    BY <2>91, <2>92, <2>93, <2>94
<1>q. Goal
  BY <1>1, <1>2, <1>3, <1>4, <1>5, <1>6, <1>7, <1>8, <1>9, <1>10, <1>11, <1>12, <1>13 DEF InsideStep, TickSteps, CompleteSteps
<1> QED
  BY <1>q, <1>t

(* The lock invariant holds at every state.                                *)
LEMMA LockInvariant == Spec => []LockInv
<1>1. LockInv /\ [Next]_vars => LockInv'
  BY NextCases, OutsideLock, InsideLock DEF LockInv
<1> QED
  BY InitLock, <1>1, PTL DEF Spec

(* TypeOK: every column keeps its type.                                    *)
THEOREM TypeCorrect == Spec => []TypeOK
<1>1. LockInv => TypeOK
  BY DEF LockInv
<1> QED
  BY LockInvariant, <1>1, PTL

(* LocksOwned: no lock row outlives its attempt while the process lives.   *)
THEOREM LocksAreOwned == Spec => []LocksOwned
<1>1. LockInv => LocksOwned
  BY DEF LockInv, NoneLeft
<1> QED
  BY LockInvariant, <1>1, PTL

(* Two rows of one lock are one row, and all running attempts have theirs. *)
LEMMA LocksExclude == HoldsLocks /\ LockKey => WriteExclusion
<1> SUFFICES ASSUME HoldsLocks, LockKey, NEW p \in Phases, NEW q \in Phases, p # q,
                    Running(p), Running(q), NEW l \in LocksOf[p], l \in LocksOf[q]
             PROVE  FALSE
  BY DEF WriteExclusion
<1>1. HasRow(l, p) /\ HasRow(l, q)
  BY DEF HoldsLocks
<1>2. [lock |-> l, phase |-> p, n |-> attempt[p].n]
        = [lock |-> l, phase |-> q, n |-> attempt[q].n]
  BY <1>1 DEF HasRow, LockKey
<1> QED
  BY <1>2

(* WriteExclusion: phases that share a lock never have agents at work at   *)
(* the same time.                                                          *)
THEOREM WritersExclude == Spec => []WriteExclusion
<1>1. LockInv => WriteExclusion
  BY LocksExclude DEF LockInv
<1> QED
  BY LockInvariant, <1>1, PTL

-----------------------------------------------------------------------------
(* The plan.  From here on no caller retries a passed phase.               *)

PassedSame == \A p \in Phases : status'[p] = "passed" <=> status[p] = "passed"

(* The only step that passes a phase, and what it does to the others.      *)
Accepting ==
  /\ SettlePhase /\ op.phase \in Phases
  /\ attempt[op.phase].result = "succeeded"
  /\ \A p \in Phases : status'[p] = "passed" <=> (status[p] = "passed" \/ p = op.phase)

\* Steps outside the operations leave passed phases alone, if none can be retried.
LEMMA OutsidePassed ==
  ASSUME "passed" \notin RetryFrom, TypeOK, OutsideStep
  PROVE  PassedSame
<1> USE DEF PassedSame
<1>1. ASSUME NEW r \in Runs, LoadPlan(r) \/ TickPaused(r) PROVE PassedSame
  <2>1. status' = RefreshedStatus(status, r)
    BY <1>1 DEF LoadPlan, TickPaused, Refresh, RefreshFrom
  <2> QED
    BY <2>1, RefreshKeepsPassed
<1>2. ASSUME NEW p \in Phases, RetryPhase(p) PROVE PassedSame
  BY <1>2 DEF RetryPhase, TypeOK
<1>3. CASE UNCHANGED status
  BY <1>3
<1> QED
  BY <1>1, <1>2, <1>3
     DEF OutsideStep, FinishRun, CancelObserved, RequestStop, WriteCancelling, Pause,
         Resume, AbortPress, ForcedAbort, LowDisk, vars, phaseVars

\* A step inside an operation keeps it, or accepts a phase.
LEMMA InsidePassed ==
  ASSUME TypeOK, OpOK, TodoOK, Unaccepted, InsideStep
  PROVE  PassedSame \/ Accepting
<1>p. TypeOK /\ OpOK /\ TodoOK /\ Unaccepted
  OBVIOUS
<1> USE DEF PassedSame, TickPc, DonePc
<1>1. ASSUME NEW r, status' = RefreshedStatus(status, r) PROVE PassedSame
  BY <1>1, RefreshKeepsPassed
<1>2. ASSUME NEW p \in Phases, DenyStart(p) PROVE PassedSame
  <2>1. status[p] = "ready"
    BY <1>2, <1>p DEF DenyStart, Scanning, TodoOK
  <2> QED
    BY <1>2, <1>p, <2>1 DEF DenyStart, TypeOK
<1>3. ASSUME LaunchPhase PROVE PassedSame
  <2>1. status[op.phase] = "ready"
    BY <1>3, <1>p DEF LaunchPhase, TodoOK
  <2> QED
    BY <1>3, <1>p, <2>1 DEF LaunchPhase, TypeOK
<1>4. ASSUME SettleForRetry PROVE PassedSame
  <2>1. status[op.phase] # "passed"
    BY <1>4, <1>p DEF SettleForRetry, Unaccepted
  <2> QED
    BY <1>4, <1>p, <2>1 DEF SettleForRetry, TypeOK
<1>5. ASSUME RequeuePhase PROVE PassedSame
  <2> DEFINE st == [status EXCEPT ![op.phase] = "ready"]
  <2>1. status[op.phase] = "failed"
    BY <1>5, <1>p DEF RequeuePhase, Unaccepted
  <2>2. \A p \in Phases : st[p] = "passed" <=> status[p] = "passed"
    BY <1>p, <2>1 DEF TypeOK
  <2>3. status' = RefreshedStatus(st, op.run)
    BY <1>5 DEF RequeuePhase, RefreshFrom
  <2> HIDE DEF st
  <2>4. \A p \in Phases : status'[p] = "passed" <=> st[p] = "passed"
    BY <2>3, RefreshKeepsPassed
  <2> QED
    BY <2>2, <2>4
<1>6. ASSUME SettlePhase PROVE PassedSame \/ Accepting
  <2> DEFINE st == [status EXCEPT ![op.phase] = SettledStatus(op.phase)]
  <2>1. op.phase \in Phases /\ status[op.phase] # "passed"
    BY <1>6, <1>p DEF SettlePhase, OpOK, Unaccepted
  <2>2. status' = RefreshedStatus(st, op.run)
    BY <1>6 DEF SettlePhase, RefreshFrom
  <2>3. \A p \in Phases : status'[p] = "passed" <=> st[p] = "passed"
    <3> HIDE DEF st
    <3> QED
      BY <2>2, RefreshKeepsPassed
  <2>4. CASE attempt[op.phase].result = "succeeded"
    <3>1. \A p \in Phases : st[p] = "passed" <=> (status[p] = "passed" \/ p = op.phase)
      BY <1>p, <2>1, <2>4 DEF TypeOK, SettledStatus
    <3> QED
      BY <1>6, <2>1, <2>4, <2>3, <3>1 DEF Accepting
  <2>5. CASE attempt[op.phase].result # "succeeded"
    <3>1. \A p \in Phases : st[p] = "passed" <=> status[p] = "passed"
      BY <1>p, <2>1, <2>5 DEF TypeOK, SettledStatus
    <3> QED
      BY <2>3, <3>1
  <2> QED
    BY <2>4, <2>5
<1>7. CASE UNCHANGED status
  BY <1>7
<1>8. CASE TickEnd \/ \E r \in Runs : TickBegin(r)
  BY <1>8, <1>1 DEF TickEnd, TickBegin, Refresh, RefreshFrom
<1>9. ASSUME \/ \E p \in Phases : \/ SkipPhase(p) \/ RefuseRoute(p) \/ InsertAttempt(p)
                                  \/ WorkerSucceeds(p) \/ WorkerFails(p)
             \/ BumpCount \/ AcquireLocks \/ LockContended \/ MarkRunning \/ ReleaseLocks
      PROVE  UNCHANGED status
  <2>1. ASSUME NEW p \in Phases, SkipPhase(p) \/ RefuseRoute(p) \/ InsertAttempt(p) PROVE UNCHANGED status
    BY <2>1 DEF SkipPhase, RefuseRoute, InsertAttempt, phaseVars
  <2>2. ASSUME NEW p \in Phases, WorkerSucceeds(p) \/ WorkerFails(p) PROVE UNCHANGED status
    BY <2>2 DEF WorkerSucceeds, WorkerFails, CompleteBegin, phaseVars
  <2>3. ASSUME BumpCount \/ AcquireLocks \/ LockContended \/ MarkRunning \/ ReleaseLocks PROVE UNCHANGED status
    BY <2>3 DEF BumpCount, AcquireLocks, LockContended, MarkRunning, ReleaseLocks, phaseVars
  <2> QED
    BY <1>9, <2>1, <2>2, <2>3
<1> QED
  BY <1>2, <1>3, <1>4, <1>5, <1>6, <1>7, <1>8, <1>9
     DEF InsideStep, TickSteps, CompleteSteps

\* In the beginning no attempt was made against the plan.
LEMMA InitPlan == Init => PlanInv
<1> SUFFICES ASSUME Init PROVE PlanInv
  OBVIOUS
<1>1. /\ \A p \in Phases : attempt[p].status = "none" /\ attempt[p].result = "none"
      /\ op.pc = "free"
  BY DEF Init, NoAttempt, Free
<1> QED
  BY <1>1, InitLock
     DEF PlanInv, TodoOK, TickPc, ResultOK, Unaccepted, SuccessCounts, DependenciesHold, HasActiveAttempt

\* Steps outside the operations keep the plan's invariant, if a passed phase cannot be retried.
LEMMA OutsidePlan == "passed" \notin RetryFrom /\ PlanInv /\ OutsideStep => PlanInv'
<1> SUFFICES ASSUME "passed" \notin RetryFrom, PlanInv, OutsideStep PROVE PlanInv'
  OBVIOUS
<1>1. UNCHANGED <<attempt, op>>
  BY OutsideUnchanged
<1>2. PassedSame
  BY OutsidePassed DEF PlanInv, LockInv
<1>3. op.pc = "free" \/ UNCHANGED status
  <2>1. CASE op = Free
    BY <2>1 DEF Free
  <2>2. ASSUME NEW r \in Runs,
               RequestStop(r) \/ AbortPress(r) \/ ForcedAbort(r)
        PROVE  UNCHANGED status
    BY <2>2 DEF RequestStop, AbortPress, ForcedAbort, phaseVars
  <2>3. CASE UNCHANGED vars
    BY <2>3 DEF vars
  <2> QED
    BY <2>1, <2>2, <2>3
       DEF OutsideStep, LoadPlan, TickPaused, MayTick, FinishRun, CancelObserved,
           WriteCancelling, Pause, Resume, LowDisk, RetryPhase
<1>4. LockInv'
  BY OutsideLock DEF PlanInv
<1>5. TodoOK'
  BY <1>1, <1>3 DEF PlanInv, TodoOK, TickPc, DependenciesPassed
<1>6. ResultOK'
  <2>1. CASE op.pc = "free"
    BY <2>1, <1>1, <1>2 DEF PlanInv, ResultOK, Unaccepted, SuccessCounts, HasActiveAttempt, PassedSame
  <2>2. CASE UNCHANGED status
    BY <2>2, <1>1 DEF PlanInv, ResultOK, Unaccepted, SuccessCounts, HasActiveAttempt
  <2> QED
    BY <2>1, <2>2, <1>3
<1>7. DependenciesHold'
  BY <1>1, <1>2, ConstantsAssumption
     DEF PlanInv, DependenciesHold, HasActiveAttempt, PassedSame
<1> QED
  BY <1>4, <1>5, <1>6, <1>7 DEF PlanInv

\* Steps inside an operation keep it, and its parts that survive a crash without the others.
LEMMA InsidePlan ==
  ASSUME TypeOK, OpOK, OpOK', TodoOK, Unaccepted, DependenciesHold, InsideStep
  PROVE  /\ TodoOK' /\ Unaccepted' /\ DependenciesHold'
         /\ SuccessCounts => SuccessCounts'
<1>p. TypeOK /\ OpOK /\ TodoOK /\ Unaccepted /\ DependenciesHold
  OBVIOUS
<1>d. \A p \in Phases : Deps[p] \subseteq Phases
  BY ConstantsAssumption
<1>m. \A p \in Phases : status[p] = "passed" => status'[p] = "passed"
  BY InsidePassed DEF PassedSame, Accepting
<1>o. op \in [pc : Steps, run : Runs \cup {NoRun}, phase : Phases \cup {NoPhase},
              todo : SUBSET Phases]
  BY <1>p DEF TypeOK
<1>s. status \in [Phases -> PhaseStatuses]
  BY <1>p DEF TypeOK
<1> USE DEF TickPc, DonePc, HasActiveAttempt, DependenciesPassed
<1> DEFINE Kept == SuccessCounts => SuccessCounts'
           Goal == TodoOK' /\ Unaccepted' /\ DependenciesHold' /\ Kept
<1>1. ASSUME NEW r \in Runs, TickBegin(r) PROVE Goal
  <2>1. /\ UNCHANGED attempt /\ op.pc = "free" /\ op'.pc = "scan"
        /\ op'.todo = {p \in PhasesOf(r) : RefreshedStatus(status, r)[p] = "ready"}
        /\ status' = RefreshedStatus(status, r)
    BY <1>1 DEF TickBegin, MayTick, Free, Holding, Refresh, RefreshFrom
  <2>2. \A p \in op'.todo :
          p \in Phases /\ status'[p] = "ready" /\ \A d \in Deps[p] : status[d] = "passed"
    <3> SUFFICES ASSUME NEW p \in op'.todo
                 PROVE  /\ p \in Phases /\ status'[p] = "ready"
                        /\ DependenciesPassed(p, status)
      OBVIOUS
    <3>1. p \in PhasesOf(r) /\ RefreshedStatus(status, r)[p] = "ready"
      BY <2>1
    <3>2. DependenciesPassed(p, status)
      BY <3>1, RefreshReady
    <3> QED
      BY <2>1, <3>1, <3>2 DEF PhasesOf
  <2>3. \A p \in Phases : status'[p] = "passed" <=> status[p] = "passed"
    BY <2>1, RefreshKeepsPassed
  <2>91. TodoOK'
    BY <2>1, <2>2, <2>3, <1>p, <1>d, <1>m, <1>o, <1>s DEF TodoOK, OpOK
  <2>92. Unaccepted'
    BY <2>1, <2>2, <2>3, <1>p, <1>m, <1>o, <1>s DEF Unaccepted, OpOK, TodoOK
  <2>94. Kept
    BY <2>1, <2>2, <2>3, <1>p, <1>m, <1>o, <1>s DEF SuccessCounts, Unaccepted, OpOK, TodoOK
  <2>93. DependenciesHold'
    BY <2>1, <2>2, <2>3, <1>p, <1>d, <1>m, <1>o, <1>s DEF DependenciesHold, OpOK, TodoOK
  <2> QED
    BY <2>91, <2>92, <2>93, <2>94
<1>2. ASSUME TickEnd PROVE Goal
  <2>1. /\ UNCHANGED attempt /\ op.pc = "scan" /\ op'.pc = "free"
        /\ status' = RefreshedStatus(status, op.run)
    BY <1>2 DEF TickEnd, Free, Refresh, RefreshFrom
  <2>2. \A p \in Phases : status'[p] = "passed" <=> status[p] = "passed"
    BY <2>1, RefreshKeepsPassed
  <2>91. TodoOK'
    BY <2>1, <2>2, <1>p, <1>d, <1>m, <1>o, <1>s DEF TodoOK, OpOK
  <2>92. Unaccepted'
    BY <2>1, <2>2, <1>p, <1>m, <1>o, <1>s DEF Unaccepted, OpOK, TodoOK
  <2>94. Kept
    BY <2>1, <2>2, <1>p, <1>m, <1>o, <1>s DEF SuccessCounts, Unaccepted, OpOK, TodoOK
  <2>93. DependenciesHold'
    BY <2>1, <2>2, <1>p, <1>d, <1>m, <1>o, <1>s DEF DependenciesHold, OpOK, TodoOK
  <2> QED
    BY <2>91, <2>92, <2>93, <2>94
<1>3. ASSUME NEW p \in Phases, SkipPhase(p) PROVE Goal
  <2>1. /\ UNCHANGED <<attempt, status>> /\ op.pc = "scan" /\ op'.pc = "scan"
        /\ op'.todo \subseteq op.todo
    BY <1>3 DEF SkipPhase, Scanning, Rest, Holding, phaseVars
  <2>91. TodoOK'
    BY <2>1, <1>p, <1>d, <1>m, <1>o, <1>s DEF TodoOK, OpOK
  <2>92. Unaccepted'
    BY <2>1, <1>p, <1>m, <1>o, <1>s DEF Unaccepted, OpOK, TodoOK
  <2>94. Kept
    BY <2>1, <1>p, <1>m, <1>o, <1>s DEF SuccessCounts, Unaccepted, OpOK, TodoOK
  <2>93. DependenciesHold'
    BY <2>1, <1>p, <1>d, <1>m, <1>o, <1>s DEF DependenciesHold, OpOK, TodoOK
  <2> QED
    BY <2>91, <2>92, <2>93, <2>94
<1>4. ASSUME NEW p \in Phases, DenyStart(p) PROVE Goal
  <2>1. /\ UNCHANGED attempt /\ op.pc = "scan" /\ op'.pc = "scan"
        /\ op'.todo = op.todo \ {p} /\ status' = [status EXCEPT ![p] = "failed"]
        /\ attempt[p].status \notin {"starting", "running"} /\ p \in op.todo
    BY <1>4 DEF DenyStart, Scanning, Rest, Holding
  <2>2. status[p] = "ready" /\ op.todo \subseteq Phases
    BY <2>1, <1>p, <1>o DEF TodoOK
  <2>91. TodoOK'
    BY <2>1, <2>2, <1>p, <1>d, <1>m, <1>o, <1>s DEF TodoOK, OpOK
  <2>92. Unaccepted'
    BY <2>1, <2>2, <1>p, <1>m, <1>o, <1>s DEF Unaccepted, OpOK, TodoOK
  <2>94. Kept
    BY <2>1, <2>2, <1>p, <1>m, <1>o, <1>s DEF SuccessCounts, Unaccepted, OpOK, TodoOK
  <2>93. DependenciesHold'
    BY <2>1, <2>2, <1>p, <1>d, <1>m, <1>o, <1>s DEF DependenciesHold, OpOK, TodoOK
  <2> QED
    BY <2>91, <2>92, <2>93, <2>94
<1>5. ASSUME NEW p \in Phases, RefuseRoute(p) PROVE Goal
  <2>1. UNCHANGED <<attempt, status>> /\ op.pc = "scan" /\ op'.pc = "free"
    BY <1>5 DEF RefuseRoute, Scanning, Free, phaseVars
  <2>91. TodoOK'
    BY <2>1, <1>p, <1>d, <1>m, <1>o, <1>s DEF TodoOK, OpOK
  <2>92. Unaccepted'
    BY <2>1, <1>p, <1>m, <1>o, <1>s DEF Unaccepted, OpOK, TodoOK
  <2>94. Kept
    BY <2>1, <1>p, <1>m, <1>o, <1>s DEF SuccessCounts, Unaccepted, OpOK, TodoOK
  <2>93. DependenciesHold'
    BY <2>1, <1>p, <1>d, <1>m, <1>o, <1>s DEF DependenciesHold, OpOK, TodoOK
  <2> QED
    BY <2>91, <2>92, <2>93, <2>94
<1>6. ASSUME NEW p \in Phases, InsertAttempt(p) PROVE Goal
  <2>1. /\ UNCHANGED status /\ op.pc = "scan" /\ op'.pc = "bump" /\ op'.phase = p
        /\ op'.todo = op.todo \ {p} /\ p \in op.todo
    BY <1>6 DEF InsertAttempt, Scanning, Holding, phaseVars
  <2>2. Written(p, count[p] + 1, "starting", "none")
    BY <1>6, <1>p, InsertWrites
  <2>3. status[p] = "ready" /\ \A d \in Deps[p] : status[d] = "passed"
    BY <2>1, <1>p DEF TodoOK
  <2>91. TodoOK'
    BY <2>1, <2>2, <2>3, <1>p, <1>d, <1>m, <1>o, <1>s DEF TodoOK, OpOK, Written
  <2>92. Unaccepted'
    BY <2>1, <2>2, <2>3, <1>p, <1>m, <1>o, <1>s DEF Unaccepted, OpOK, TodoOK, Written
  <2>94. Kept
    BY <2>1, <2>2, <2>3, <1>p, <1>m, <1>o, <1>s DEF SuccessCounts, Unaccepted, OpOK, TodoOK, Written
  <2>93. DependenciesHold'
    BY <2>1, <2>2, <2>3, <1>p, <1>d, <1>m, <1>o, <1>s DEF DependenciesHold, OpOK, TodoOK, Written
  <2> QED
    BY <2>91, <2>92, <2>93, <2>94
<1>7. ASSUME BumpCount \/ AcquireLocks PROVE Goal
  <2>1. /\ UNCHANGED <<attempt, status>> /\ op.pc \in {"bump", "lock"}
        /\ op'.pc \in {"lock", "mark"} /\ op'.phase = op.phase /\ op'.todo = op.todo
    BY <1>7, <1>o DEF BumpCount, AcquireLocks, phaseVars
  <2>91. TodoOK'
    BY <2>1, <1>p, <1>d, <1>m, <1>o, <1>s DEF TodoOK, OpOK
  <2>92. Unaccepted'
    BY <2>1, <1>p, <1>m, <1>o, <1>s DEF Unaccepted, OpOK, TodoOK
  <2>94. Kept
    BY <2>1, <1>p, <1>m, <1>o, <1>s DEF SuccessCounts, Unaccepted, OpOK, TodoOK
  <2>93. DependenciesHold'
    BY <2>1, <1>p, <1>d, <1>m, <1>o, <1>s DEF DependenciesHold, OpOK, TodoOK
  <2> QED
    BY <2>91, <2>92, <2>93, <2>94
<1>8. ASSUME LockContended PROVE Goal
  <2>1. /\ UNCHANGED status /\ op.pc = "lock" /\ op'.pc = "scan"
        /\ op'.todo = op.todo \ {op.phase}
    BY <1>8 DEF LockContended, Rest, Holding, phaseVars
  <2>2. /\ op.phase \in Phases
        /\ Written(op.phase, attempt[op.phase].n, "completed", "cancelled")
    BY <1>8, <1>p, ContendedWrites
  <2>91. TodoOK'
    BY <2>1, <2>2, <1>p, <1>d, <1>m, <1>o, <1>s DEF TodoOK, OpOK, Written
  <2>92. Unaccepted'
    BY <2>1, <2>2, <1>p, <1>m, <1>o, <1>s DEF Unaccepted, OpOK, TodoOK, Written
  <2>94. Kept
    BY <2>1, <2>2, <1>p, <1>m, <1>o, <1>s DEF SuccessCounts, Unaccepted, OpOK, TodoOK, Written
  <2>93. DependenciesHold'
    BY <2>1, <2>2, <1>p, <1>d, <1>m, <1>o, <1>s DEF DependenciesHold, OpOK, TodoOK, Written
  <2> QED
    BY <2>91, <2>92, <2>93, <2>94
<1>9. ASSUME MarkRunning PROVE Goal
  <2>1. /\ UNCHANGED status /\ op.pc = "mark" /\ op'.pc = "launch"
        /\ op'.phase = op.phase /\ op'.todo = op.todo
    BY <1>9, <1>o DEF MarkRunning, phaseVars
  <2>2. /\ op.phase \in Phases
        /\ Written(op.phase, attempt[op.phase].n, "running", attempt[op.phase].result)
    BY <1>9, <1>p, MarkWrites
  <2>91. TodoOK'
    BY <2>1, <2>2, <1>p, <1>d, <1>m, <1>o, <1>s DEF TodoOK, OpOK, Written
  <2>92. Unaccepted'
    BY <2>1, <2>2, <1>p, <1>m, <1>o, <1>s DEF Unaccepted, OpOK, TodoOK, Written
  <2>94. Kept
    BY <2>1, <2>2, <1>p, <1>m, <1>o, <1>s DEF SuccessCounts, Unaccepted, OpOK, TodoOK, Written
  <2>93. DependenciesHold'
    BY <2>1, <2>2, <1>p, <1>d, <1>m, <1>o, <1>s DEF DependenciesHold, OpOK, TodoOK, Written
  <2> QED
    BY <2>91, <2>92, <2>93, <2>94
<1>10. ASSUME LaunchPhase PROVE Goal
  <2>1. /\ UNCHANGED attempt /\ op.pc = "launch" /\ op'.pc = "scan"
        /\ op'.todo = op.todo \ {op.phase} /\ op.phase \in Phases
        /\ status' = [status EXCEPT ![op.phase] = "running"]
    BY <1>10, <1>p DEF LaunchPhase, Rest, Holding, OpOK
  <2>2. status[op.phase] = "ready" /\ op.phase \notin op.todo
    BY <2>1, <1>p DEF TodoOK
  <2>91. TodoOK'
    BY <2>1, <2>2, <1>p, <1>d, <1>m, <1>o, <1>s DEF TodoOK, OpOK
  <2>92. Unaccepted'
    BY <2>1, <2>2, <1>p, <1>m, <1>o, <1>s DEF Unaccepted, OpOK, TodoOK
  <2>94. Kept
    BY <2>1, <2>2, <1>p, <1>m, <1>o, <1>s DEF SuccessCounts, Unaccepted, OpOK, TodoOK
  <2>93. DependenciesHold'
    BY <2>1, <2>2, <1>p, <1>d, <1>m, <1>o, <1>s DEF DependenciesHold, OpOK, TodoOK
  <2> QED
    BY <2>91, <2>92, <2>93, <2>94
<1>11. ASSUME NEW p \in Phases, WorkerSucceeds(p) \/ WorkerFails(p) PROVE Goal
  <2>1. PICK res \in {"succeeded", "failed"}, k \in FailureKinds, g \in BOOLEAN :
          CompleteBegin(p, res, k, g)
    BY <1>11, <1>p, WorkerCases
  <2>2. /\ UNCHANGED status /\ op.pc = "free" /\ op'.pc = "release" /\ op'.phase = p
        /\ attempt[p].status = "running"
    BY <2>1 DEF CompleteBegin, Holding, Free, phaseVars
  <2>3. Written(p, attempt[p].n, "completed", res)
    BY <1>p, <2>1, CompleteWrites
  <2>91. TodoOK'
    BY <2>2, <2>3, <1>p, <1>d, <1>m, <1>o, <1>s DEF TodoOK, OpOK, Written
  <2>92. Unaccepted'
    BY <2>2, <2>3, <1>p, <1>m, <1>o, <1>s DEF Unaccepted, OpOK, TodoOK, Written
  <2>94. Kept
    BY <2>2, <2>3, <1>p, <1>m, <1>o, <1>s DEF SuccessCounts, Unaccepted, OpOK, TodoOK, Written
  <2>93. DependenciesHold'
    BY <2>2, <2>3, <1>p, <1>d, <1>m, <1>o, <1>s DEF DependenciesHold, OpOK, TodoOK, Written
  <2> QED
    BY <2>91, <2>92, <2>93, <2>94
<1>12. ASSUME ReleaseLocks PROVE Goal
  <2>1. /\ UNCHANGED <<attempt, status>> /\ op.pc = "release" /\ op'.pc = "settle"
        /\ op'.phase = op.phase
    BY <1>12, <1>o DEF ReleaseLocks, phaseVars
  <2>91. TodoOK'
    BY <2>1, <1>p, <1>d, <1>m, <1>o, <1>s DEF TodoOK, OpOK
  <2>92. Unaccepted'
    BY <2>1, <1>p, <1>m, <1>o, <1>s DEF Unaccepted, OpOK, TodoOK
  <2>94. Kept
    BY <2>1, <1>p, <1>m, <1>o, <1>s DEF SuccessCounts, Unaccepted, OpOK, TodoOK
  <2>93. DependenciesHold'
    BY <2>1, <1>p, <1>d, <1>m, <1>o, <1>s DEF DependenciesHold, OpOK, TodoOK
  <2> QED
    BY <2>91, <2>92, <2>93, <2>94
<1>13. ASSUME SettlePhase PROVE Goal
  <2>1. UNCHANGED attempt /\ op.pc = "settle" /\ op'.pc = "free"
    BY <1>13 DEF SettlePhase, Free
  <2>2. op.phase \in Phases /\ attempt[op.phase].status = "completed"
    BY <2>1, <1>p DEF OpOK
  <2>3. PassedSame \/ Accepting
    BY InsidePassed
  <2>4. attempt[op.phase].result = "succeeded" => status'[op.phase] = "passed"
    <3> DEFINE st == [status EXCEPT ![op.phase] = SettledStatus(op.phase)]
    <3>1. status' = RefreshedStatus(st, op.run)
      BY <1>13 DEF SettlePhase, RefreshFrom
    <3>2. attempt[op.phase].result = "succeeded" => st[op.phase] = "passed"
      BY <2>2, <1>s DEF SettledStatus
    <3> HIDE DEF st
    <3> QED
      BY <3>1, <3>2, <2>2, RefreshKeepsPassed
  <2>91. TodoOK'
    BY <2>1, <2>2, <2>3, <2>4, <1>p, <1>d, <1>m, <1>o, <1>s DEF TodoOK, OpOK, PassedSame, Accepting
  <2>92. Unaccepted'
    BY <2>1, <2>2, <2>3, <2>4, <1>p, <1>m, <1>o, <1>s DEF Unaccepted, OpOK, TodoOK, PassedSame, Accepting
  <2>94. Kept
    BY <2>1, <2>2, <2>3, <2>4, <1>p, <1>m, <1>o, <1>s DEF SuccessCounts, Unaccepted, OpOK, TodoOK, PassedSame, Accepting
  <2>93. DependenciesHold'
    BY <2>1, <2>2, <2>3, <2>4, <1>p, <1>d, <1>m, <1>o, <1>s DEF DependenciesHold, OpOK, TodoOK, PassedSame, Accepting
  <2> QED
    BY <2>91, <2>92, <2>93, <2>94
<1>14. ASSUME SettleForRetry PROVE Goal
  <2>1. /\ UNCHANGED attempt /\ op.pc = "settle" /\ op'.pc = "requeue"
        /\ op'.phase = op.phase /\ op.phase \in Phases
        /\ status' = [status EXCEPT ![op.phase] = "failed"]
        /\ attempt[op.phase].result = "failed"
    BY <1>14, <1>p, <1>o DEF SettleForRetry, OpOK
  <2>91. TodoOK'
    BY <2>1, <1>p, <1>d, <1>m, <1>o, <1>s DEF TodoOK, OpOK
  <2>92. Unaccepted'
    BY <2>1, <1>p, <1>m, <1>o, <1>s DEF Unaccepted, OpOK, TodoOK
  <2>94. Kept
    BY <2>1, <1>p, <1>m, <1>o, <1>s DEF SuccessCounts, Unaccepted, OpOK, TodoOK
  <2>93. DependenciesHold'
    BY <2>1, <1>p, <1>d, <1>m, <1>o, <1>s DEF DependenciesHold, OpOK, TodoOK
  <2> QED
    BY <2>91, <2>92, <2>93, <2>94
<1>15. ASSUME RequeuePhase PROVE Goal
  <2>1. UNCHANGED attempt /\ op.pc = "requeue" /\ op'.pc = "free"
    BY <1>15 DEF RequeuePhase, Free
  <2>5. PassedSame
    <3>1. ~Accepting
      BY <2>1 DEF Accepting, SettlePhase
    <3> QED
      BY <3>1, InsidePassed
  <2>91. TodoOK'
    BY <2>1, <2>5, <1>p, <1>d, <1>m, <1>o, <1>s DEF TodoOK, OpOK, PassedSame
  <2>92. Unaccepted'
    BY <2>1, <2>5, <1>p, <1>m, <1>o, <1>s DEF Unaccepted, OpOK, TodoOK, PassedSame
  <2>94. Kept
    BY <2>1, <2>5, <1>p, <1>m, <1>o, <1>s DEF SuccessCounts, Unaccepted, OpOK, TodoOK, PassedSame
  <2>93. DependenciesHold'
    BY <2>1, <2>5, <1>p, <1>d, <1>m, <1>o, <1>s DEF DependenciesHold, OpOK, TodoOK, PassedSame
  <2> QED
    BY <2>91, <2>92, <2>93, <2>94
<1>q. Goal
  BY <1>1, <1>2, <1>3, <1>4, <1>5, <1>6, <1>7, <1>8, <1>9, <1>10, <1>11, <1>12, <1>13, <1>14, <1>15 DEF InsideStep, TickSteps, CompleteSteps
<1> QED
  BY <1>q

(* PlanInv is an invariant if no caller retries a passed phase.            *)
LEMMA PlanInvariant ==
  ASSUME "passed" \notin RetryFrom
  PROVE  Spec => []PlanInv
<1>1. PlanInv /\ [Next]_vars => PlanInv'
  <2> SUFFICES ASSUME PlanInv, [Next]_vars PROVE PlanInv'
    OBVIOUS
  <2>1. CASE InsideStep
    <3>1. LockInv'
      BY <2>1, InsideLock DEF PlanInv, LockInv
    <3> QED
      BY <2>1, <3>1, InsidePlan DEF PlanInv, LockInv, ResultOK
  <2> QED
    BY <2>1, NextCases, OutsidePlan
<1> QED
  BY InitPlan, <1>1, PTL DEF Spec

(* DependenciesHold: while an agent works on a phase, all it depends on is *)
(* passed.                                                                 *)
THEOREM DependenciesArePassed ==
  ASSUME "passed" \notin RetryFrom
  PROVE  Spec => []DependenciesHold
<1>1. PlanInv => DependenciesHold
  BY DEF PlanInv
<1> QED
  BY PlanInvariant, <1>1, PTL

(* PassedIsFinal: no step takes a passed phase back.                       *)
THEOREM PassedStaysPassed ==
  ASSUME "passed" \notin RetryFrom
  PROVE  Spec => PassedIsFinal
<1>1. ASSUME PlanInv, [Next]_vars
      PROVE  [\A p \in Phases : status[p] = "passed" => status'[p] = "passed"]_vars
  <2>1. CASE OutsideStep
    BY <1>1, <2>1, OutsidePassed DEF PlanInv, LockInv, PassedSame
  <2>2. CASE InsideStep
    BY <1>1, <2>2, InsidePassed DEF PassedSame, Accepting, PlanInv, LockInv, ResultOK
  <2> QED
    BY <1>1, <2>1, <2>2, NextCases
<1> QED
  BY PlanInvariant, <1>1, PTL DEF Spec, PassedIsFinal

-----------------------------------------------------------------------------
(* The scheduler implements the board.                                     *)

Working == {p \in Phases : attempt[p].status = "running"}
Finished == {p \in Phases : attempt[p].result = "succeeded"}
PassedPhases == {p \in Phases : status[p] = "passed"}

(* What a tick is about to start has not succeeded yet.                    *)
TodoUndone == op.pc \in TickPc => \A p \in op.todo : attempt[p].result # "succeeded"

\* A step that changes neither attempts nor what is passed is a stutter of the board.
LEMMA BoardStays == ASSUME UNCHANGED attempt, PassedSame PROVE UNCHANGED Board!boardVars
BY DEF PassedSame, Board!boardVars

\* A step inside an operation maps to a step of the board or to a stutter.
LEMMA BoardMoves ==
  ASSUME TypeOK, OpOK, TodoOK, Unaccepted, DependenciesHold, TodoUndone, WriteExclusion', InsideStep
  PROVE  Board!BoardNext \/ UNCHANGED Board!boardVars
<1>p. TypeOK /\ OpOK /\ TodoOK /\ Unaccepted /\ DependenciesHold /\ TodoUndone
  OBVIOUS
<1>s. PassedSame => PassedPhases' = PassedPhases
  BY DEF PassedSame, PassedPhases
<1>u. Working' = Working /\ Finished' = Finished /\ PassedPhases' = PassedPhases
        => UNCHANGED Board!boardVars
  BY DEF Working, Finished, PassedPhases, Board!boardVars
<1>a. UNCHANGED attempt => Working' = Working /\ Finished' = Finished
  BY DEF Working, Finished
<1>b. \A p \in Phases : \A n, st, res : Written(p, n, st, res) =>
        /\ Working' = IF st = "running" THEN Working \cup {p} ELSE Working \ {p}
        /\ Finished' = IF res = "succeeded" THEN Finished \cup {p} ELSE Finished \ {p}
  BY DEF Written, Working, Finished
<1>2. ASSUME NEW p \in Phases, InsertAttempt(p) PROVE UNCHANGED Board!boardVars
  <2>1. /\ UNCHANGED status /\ op.pc = "scan" /\ p \in op.todo
        /\ attempt[p].status \notin {"starting", "running"}
    BY <1>2 DEF InsertAttempt, Scanning, HasActiveAttempt, phaseVars
  <2>2. p \notin Finished /\ p \notin Working
    BY <2>1, <1>p DEF Finished, Working, TodoUndone, TickPc
  <2>3. Written(p, count[p] + 1, "starting", "none")
    BY <1>2, <1>p, InsertWrites
  <2>4. PassedPhases' = PassedPhases
    BY <2>1 DEF PassedPhases
  <2> QED
    BY <2>2, <2>3, <2>4, <1>b, <1>u
<1>3. ASSUME LockContended PROVE UNCHANGED Board!boardVars
  <2>1. op.pc = "lock" /\ UNCHANGED status
    BY <1>3 DEF LockContended, phaseVars
  <2>2. /\ op.phase \in Phases
        /\ Written(op.phase, attempt[op.phase].n, "completed", "cancelled")
    BY <1>3, <1>p, ContendedWrites
  <2>3. op.phase \notin Finished /\ op.phase \notin Working
    BY <2>1, <2>2, <1>p DEF Finished, Working, Unaccepted, OpOK, HasActiveAttempt
  <2>4. PassedPhases' = PassedPhases
    BY <2>1 DEF PassedPhases
  <2> QED
    BY <2>2, <2>3, <2>4, <1>b, <1>u
<1>4. ASSUME MarkRunning, NEW p \in Phases, p = op.phase PROVE Board!Start(p)
  <2>1. op.pc = "mark" /\ UNCHANGED status
    BY <1>4 DEF MarkRunning, phaseVars
  <2>2. Written(p, attempt[p].n, "running", attempt[p].result)
    BY <1>4, <1>p, MarkWrites
  <2>3. attempt[p].status = "starting" /\ attempt[p].result = "none"
    BY <1>4, <2>1, <1>p DEF OpOK, Unaccepted, HasActiveAttempt
  <2>4. Deps[p] \subseteq PassedPhases
    BY <2>2, <2>3, <1>p, ConstantsAssumption
       DEF DependenciesHold, HasActiveAttempt, PassedPhases
  <2>5. \A q \in Working : LocksOf[p] \cap LocksOf[q] = {}
    <3> SUFFICES ASSUME NEW q \in Working PROVE LocksOf[p] \cap LocksOf[q] = {}
      OBVIOUS
    <3>1. q \in Phases /\ q # p /\ attempt'[q].status = "running"
          /\ attempt'[p].status = "running"
      BY <2>2, <2>3 DEF Working, Written
    <3> QED
      BY <3>1, <2>2 DEF WriteExclusion, Running
  <2>6. p \notin Working \cup Finished
    BY <2>3 DEF Working, Finished
  <2>7. /\ Working' = Working \cup {p} /\ Finished' = Finished
        /\ PassedPhases' = PassedPhases
    <3>1. Working' = Working \cup {p}
      BY <2>2, <1>b
    <3>2. Finished' = Finished
      BY <2>2, <2>3, <2>6, <1>b
    <3> QED
      BY <3>1, <3>2, <2>1 DEF PassedPhases
  <2> QED
    BY <2>2, <2>4, <2>5, <2>6, <2>7 DEF Board!Start, Working, Finished, PassedPhases
<1>5. ASSUME NEW p \in Phases, WorkerSucceeds(p) \/ WorkerFails(p)
      PROVE  Board!Succeed(p) \/ Board!GiveUp(p)
  <2>1. PICK res \in {"succeeded", "failed"}, k \in FailureKinds, g \in BOOLEAN :
          CompleteBegin(p, res, k, g)
    BY <1>5, <1>p, WorkerCases
  <2>2. attempt[p].status = "running" /\ UNCHANGED status
    BY <2>1 DEF CompleteBegin, phaseVars
  <2>3. Written(p, attempt[p].n, "completed", res)
    BY <2>1, <1>p, CompleteWrites
  <2>4. p \in Working /\ p \notin Finished
    BY <2>2, <1>p DEF Working, Finished, Unaccepted, HasActiveAttempt
  <2>5. /\ Working' = Working \ {p} /\ PassedPhases' = PassedPhases
        /\ Finished' = IF res = "succeeded" THEN Finished \cup {p} ELSE Finished
    BY <2>2, <2>3, <2>4, <1>b DEF PassedPhases
  <2> QED
    BY <2>4, <2>5 DEF Board!Succeed, Board!GiveUp, Working, Finished, PassedPhases
<1>6. ASSUME Accepting, NEW p \in Phases, p = op.phase PROVE Board!Accept(p)
  <2>1. UNCHANGED attempt /\ op.pc = "settle"
    BY <1>6 DEF Accepting, SettlePhase
  <2>2. p \in Finished \ PassedPhases
    BY <1>6, <2>1, <1>p DEF Accepting, Finished, PassedPhases, Unaccepted
  <2>3. PassedPhases' = PassedPhases \cup {p}
    BY <1>6, <2>1 DEF Accepting, PassedPhases
  <2> QED
    BY <2>1, <2>2, <2>3, <1>a DEF Board!Accept, Working, Finished, PassedPhases
<1>8. InsideStep =>
        \/ \E p \in Phases : InsertAttempt(p) \/ WorkerSucceeds(p) \/ WorkerFails(p)
        \/ LockContended \/ MarkRunning \/ UNCHANGED attempt
  BY DEF InsideStep, TickSteps, CompleteSteps, TickBegin, TickEnd, SkipPhase, DenyStart,
     RefuseRoute, BumpCount, AcquireLocks, LaunchPhase, ReleaseLocks, SettlePhase,
     SettleForRetry, RequeuePhase
<1>9. ASSUME MarkRunning \/ Accepting PROVE Board!BoardNext
  <2>1. PICK p \in Phases : p = op.phase
    BY <1>9, <1>p, MarkWrites DEF Accepting
  <2> QED
    BY <1>4, <1>6, <1>9, <2>1 DEF Board!BoardNext
<1>10. ASSUME NEW p \in Phases, WorkerSucceeds(p) \/ WorkerFails(p)
       PROVE  Board!BoardNext
  BY <1>5, <1>10 DEF Board!BoardNext
<1> QED
  BY <1>2, <1>3, <1>8, <1>9, <1>10, InsidePassed, BoardStays

(* ImplementsBoard: every behaviour of the scheduler is one of the board.  *)
THEOREM SchedulerImplementsBoard ==
  ASSUME "passed" \notin RetryFrom
  PROVE  Spec => ImplementsBoard
<1>1. Init => Board!BoardInit
  BY DEF Init, NoAttempt, Board!BoardInit
<1>v. LockInv => WriteExclusion
  BY LocksExclude DEF LockInv
<1>w. LockInv' => WriteExclusion'
  BY <1>v, PTL
<1>2. PlanInv /\ LockInv' /\ [Next]_vars => [Board!BoardNext]_(Board!boardVars)
  <2> SUFFICES ASSUME PlanInv, LockInv', [Next]_vars PROVE [Board!BoardNext]_(Board!boardVars)
    OBVIOUS
  <2>p. TypeOK /\ OpOK /\ TodoOK /\ ResultOK /\ Unaccepted /\ DependenciesHold
    BY DEF PlanInv, LockInv, ResultOK
  <2>1. CASE OutsideStep
    BY <2>1, <2>p, OutsideUnchanged, OutsidePassed, BoardStays
  <2>2. CASE InsideStep
    <3>1. TodoUndone
      <4>1. op.todo \subseteq Phases
        BY <2>p DEF TypeOK
      <4> QED
        BY <2>p, <4>1 DEF TodoUndone, TodoOK, ResultOK, SuccessCounts, TickPc
    <3> QED
      BY <1>w, <2>2, <2>p, <3>1, BoardMoves
  <2> QED
    BY <2>1, <2>2, NextCases
<1>3. PlanInv => LockInv
  BY DEF PlanInv
<1> QED
  BY PlanInvariant, <1>1, <1>2, <1>3, PTL DEF Spec, ImplementsBoard, Board!BoardSpec

-----------------------------------------------------------------------------
(* The cap on attempts at work.                                            *)

(* An operation only knows phases of its run.                              *)
OpRunInv == op.pc # "free" =>
  op.run \in Runs /\ op.todo \subseteq PhasesOf(op.run) /\ (op.pc # "scan" => op.phase \in PhasesOf(op.run))

(* What a step does to the operation.                                      *)
OpMoves ==
  \/ op' = op
  \/ op' = Free
  \/ \E r \in Runs : TickBegin(r)
  \/ op.pc = "scan" /\ \E p \in op.todo : op' = Rest(p) \/ op' = Holding("bump", op.run, p, op.todo \ {p})
  \/ op.pc \in {"bump", "lock", "mark"} /\ \E pc \in TickPc : op' = [op EXCEPT !.pc = pc]
  \/ op.pc \in {"lock", "launch"} /\ op' = Rest(op.phase)
  \/ op = Free /\ \E p \in Phases : op' = Holding("release", RunOf[p], p, {})
  \/ op.pc \in DonePc /\ \E pc \in DonePc : op' = [op EXCEPT !.pc = pc]

\* No step does anything else to the operation.
LEMMA NextOpMoves == ASSUME [Next]_vars PROVE OpMoves
<1>1. CASE OutsideStep
  BY <1>1, OutsideUnchanged DEF OpMoves
<1>2. CASE InsideStep
  <2>1. ASSUME NEW p \in Phases, SkipPhase(p) \/ DenyStart(p) \/ RefuseRoute(p) \/ InsertAttempt(p) PROVE OpMoves
    BY <2>1 DEF SkipPhase, DenyStart, RefuseRoute, InsertAttempt, Scanning, OpMoves
  <2>2. CASE TickEnd \/ BumpCount \/ AcquireLocks \/ LockContended \/ MarkRunning \/ LaunchPhase
    BY <2>2 DEF TickEnd, BumpCount, AcquireLocks, LockContended, MarkRunning, LaunchPhase, OpMoves, TickPc
  <2>3. ASSUME NEW p \in Phases, WorkerSucceeds(p) \/ WorkerFails(p) PROVE OpMoves
    BY <2>3 DEF WorkerSucceeds, WorkerFails, CompleteBegin, OpMoves
  <2>4. CASE CompleteSteps
    BY <2>4 DEF CompleteSteps, ReleaseLocks, SettlePhase, SettleForRetry, RequeuePhase, OpMoves, DonePc
  <2> QED
    BY <1>2, <2>1, <2>2, <2>3, <2>4 DEF InsideStep, TickSteps, OpMoves
<1> QED
  BY <1>1, <1>2, NextCases

\* The operation stays one of its run.
LEMMA OpRunStep == ASSUME TypeOK, OpRunInv, [Next]_vars PROVE OpRunInv'
<1>o. op \in [pc : Steps, run : Runs \cup {NoRun}, phase : Phases \cup {NoPhase}, todo : SUBSET Phases]
  BY DEF TypeOK
<1> USE DEF OpRunInv
<1>1. CASE op' = op
  BY <1>1 DEF PhasesOf
<1>2. CASE op' = Free
  BY <1>2 DEF Free
<1>3. ASSUME NEW r \in Runs, TickBegin(r) PROVE OpRunInv'
  BY <1>3 DEF TickBegin, Holding, PhasesOf
<1>4. ASSUME op.pc = "scan", NEW p \in op.todo, op' = Rest(p) \/ op' = Holding("bump", op.run, p, op.todo \ {p})
      PROVE  OpRunInv'
  BY <1>4 DEF Rest, Holding, PhasesOf
<1>5. ASSUME op.pc \in {"bump", "lock", "mark"} \cup DonePc, NEW pc, op' = [op EXCEPT !.pc = pc] PROVE OpRunInv'
  BY <1>5, <1>o DEF PhasesOf, DonePc
<1>6. ASSUME op.pc \in {"lock", "launch"}, op' = Rest(op.phase) PROVE OpRunInv'
  BY <1>6 DEF Rest, Holding, PhasesOf
<1>7. ASSUME NEW p \in Phases, op' = Holding("release", RunOf[p], p, {}) PROVE OpRunInv'
  BY <1>7, ConstantsAssumption DEF Holding, PhasesOf
<1> QED
  BY <1>1, <1>2, <1>3, <1>4, <1>5, <1>6, <1>7, NextOpMoves DEF OpMoves

(* Attempts become active by their insertion only.                         *)
LEMMA ActiveMoves ==
  ASSUME TypeOK, OpOK, [Next]_vars, NEW p \in Phases, HasActiveAttempt(p)', ~HasActiveAttempt(p)
  PROVE  InsertAttempt(p)
<1>1. CASE OutsideStep
  BY <1>1, OutsideUnchanged DEF HasActiveAttempt
<1>2. CASE InsideStep
  <2>1. CASE UNCHANGED attempt
    BY <2>1 DEF HasActiveAttempt
  <2>2. ASSUME NEW q \in Phases, InsertAttempt(q) PROVE q = p
    BY <2>2, InsertWrites DEF Written, HasActiveAttempt
  <2>3. CASE LockContended
    BY <2>3, ContendedWrites DEF Written, HasActiveAttempt
  <2>4. CASE MarkRunning
    BY <2>4, MarkWrites DEF Written, HasActiveAttempt, OpOK, MarkRunning
  <2>5. ASSUME NEW q \in Phases, WorkerSucceeds(q) \/ WorkerFails(q) PROVE FALSE
    BY <2>5, WorkerCases, CompleteWrites DEF Written, HasActiveAttempt
  <2>6. ASSUME NEW q \in Phases, SkipPhase(q) \/ DenyStart(q) \/ RefuseRoute(q) PROVE UNCHANGED attempt
    BY <2>6 DEF SkipPhase, DenyStart, RefuseRoute
  <2>7. ASSUME TickEnd \/ BumpCount \/ AcquireLocks \/ LaunchPhase \/ CompleteSteps \/ \E r \in Runs : TickBegin(r)
        PROVE  UNCHANGED attempt
    BY <2>7 DEF TickEnd, BumpCount, AcquireLocks, LaunchPhase, CompleteSteps, ReleaseLocks, SettlePhase,
                SettleForRetry, RequeuePhase, TickBegin
  <2> QED
    BY <1>2, <2>1, <2>2, <2>3, <2>4, <2>5, <2>6, <2>7 DEF InsideStep, TickSteps
<1> QED
  BY <1>1, <1>2, NextCases

\* An insertion finds one place free, and nothing else makes an attempt active.
LEMMA CapStep == ASSUME TypeOK, OpOK, OpRunInv, ConcurrencyCap, [Next]_vars PROVE ConcurrencyCap'
<1> SUFFICES ASSUME NEW r \in Runs PROVE Cardinality(ActiveAttempts(r)') <= MaxConcurrent
  BY DEF ConcurrencyCap
<1>1. /\ IsFiniteSet(ActiveAttempts(r)) /\ Cardinality(ActiveAttempts(r)) \in Nat
      /\ Cardinality(ActiveAttempts(r)) <= MaxConcurrent /\ MaxConcurrent \in Nat
  <2>1. ActiveAttempts(r) \in SUBSET Phases
    BY DEF ActiveAttempts, PhasesOf
  <2> QED
    BY <2>1, PhasesFinite, FS_Subset, FS_CardinalityType, ConstantsAssumption DEF ConcurrencyCap
<1>2. \A q \in ActiveAttempts(r)' \ ActiveAttempts(r) : q \in PhasesOf(r) /\ InsertAttempt(q)
  BY ActiveMoves DEF ActiveAttempts, PhasesOf, HasActiveAttempt
<1>3. CASE ActiveAttempts(r)' \subseteq ActiveAttempts(r)
  <2>1. Cardinality(ActiveAttempts(r)') <= Cardinality(ActiveAttempts(r)) /\ Cardinality(ActiveAttempts(r)') \in Nat
    BY <1>1, <1>3, FS_Subset, FS_CardinalityType
  <2> QED
    BY <1>1, <2>1
<1>4. ASSUME NEW p \in PhasesOf(r), InsertAttempt(p) PROVE Cardinality(ActiveAttempts(r)') <= MaxConcurrent
  <2>1. op.run = r /\ ~AtCapacity(r)
    BY <1>4 DEF InsertAttempt, Scanning, OpRunInv, TickPc, PhasesOf
  <2>2. Cardinality(ActiveAttempts(r)) + 1 <= MaxConcurrent
    BY <1>1, <2>1 DEF AtCapacity
  <2>3. ActiveAttempts(r)' \subseteq ActiveAttempts(r) \cup {p}
    <3>1. p \in Phases
      BY DEF PhasesOf
    <3>2. \A q \in Phases : q # p => attempt'[q].status = attempt[q].status
      BY <1>4, <3>1, InsertWrites DEF Written
    <3> QED
      BY <3>2 DEF ActiveAttempts, PhasesOf
  <2>4. /\ IsFiniteSet(ActiveAttempts(r) \cup {p})
        /\ Cardinality(ActiveAttempts(r) \cup {p}) <= Cardinality(ActiveAttempts(r)) + 1
        /\ Cardinality(ActiveAttempts(r) \cup {p}) \in Nat
    <3>1. /\ IsFiniteSet(ActiveAttempts(r) \cup {p})
          /\ \/ Cardinality(ActiveAttempts(r) \cup {p}) = Cardinality(ActiveAttempts(r))
             \/ Cardinality(ActiveAttempts(r) \cup {p}) = Cardinality(ActiveAttempts(r)) + 1
      BY <1>1, FS_AddElement
    <3> QED
      BY <1>1, <3>1
  <2>5. /\ Cardinality(ActiveAttempts(r)') <= Cardinality(ActiveAttempts(r) \cup {p})
        /\ Cardinality(ActiveAttempts(r)') \in Nat
    BY <2>3, <2>4, FS_Subset, FS_CardinalityType
  <2> QED
    BY <1>1, <2>2, <2>4, <2>5
<1> QED
  BY <1>2, <1>3, <1>4

(* ConcurrencyCap: no run has more attempts at work than its lease allows. *)
THEOREM CapHolds == Spec => []ConcurrencyCap
<1>1. Init => OpRunInv /\ ConcurrencyCap
  <2> SUFFICES ASSUME Init PROVE OpRunInv /\ ConcurrencyCap
    OBVIOUS
  <2>1. OpRunInv
    BY DEF Init, Free, OpRunInv
  <2>2. \A r \in Runs : ActiveAttempts(r) = {}
    BY DEF Init, NoAttempt, ActiveAttempts, PhasesOf
  <2>3. MaxConcurrent \in Nat
    BY ConstantsAssumption
  <2> QED
    BY <2>1, <2>2, <2>3, FS_EmptySet DEF ConcurrencyCap
<1>2. ASSUME LockInv, OpRunInv, ConcurrencyCap, [Next]_vars PROVE OpRunInv' /\ ConcurrencyCap'
  BY <1>2, OpRunStep, CapStep DEF LockInv
<1> QED
  BY <1>1, <1>2, LockInvariant, PTL DEF Spec

-----------------------------------------------------------------------------
(* Starts.  From here to the theorem nobody aborts: an abort does not wait *)
(* for the operation at work.                                              *)

Quiet(r) ==
  /\ lease[r] = [paused |-> FALSE, cleanupIncomplete |-> FALSE, lowDisk |-> FALSE]
  /\ runStatus[r] \notin {"paused", "cancelling", "cancelled", "completed", "failed"}

(* A tick at work is one of a run that is not held back.                   *)
QuietInv == op.pc \in TickPc => Quiet(op.run)

\* While a tick is at work, nothing else writes the lease or the status of a run.
LEMMA QuietStays ==
  ASSUME "abort" \notin Commands, TypeOK, OpRunInv, [Next]_vars, op.pc \in TickPc, op'.pc \in TickPc
  PROVE  op'.run = op.run /\ UNCHANGED <<runStatus, lease>>
<1>1. op'.run = op.run /\ op # Free
  <2>1. op \in [pc : Steps, run : Runs \cup {NoRun}, phase : Phases \cup {NoPhase}, todo : SUBSET Phases]
    BY DEF TypeOK
  <2>2. op # Free
    BY DEF Free, TickPc
  <2> QED
    BY <2>1, <2>2, NextOpMoves DEF OpMoves, Rest, Holding, TickBegin, MayTick, Free, TickPc, DonePc
<1>2. CASE OutsideStep
  BY <1>1, <1>2 DEF OutsideStep, LoadPlan, TickPaused, MayTick, FinishRun, CancelObserved, RequestStop,
                    WriteCancelling, Pause, Resume, AbortPress, ForcedAbort, LowDisk, RetryPhase, vars
<1>3. CASE InsideStep
  <2>1. ASSUME NEW p \in Phases, SkipPhase(p) \/ DenyStart(p) \/ InsertAttempt(p) PROVE UNCHANGED <<runStatus, lease>>
    BY <2>1 DEF SkipPhase, DenyStart, InsertAttempt, runVars
  <2>2. ASSUME NEW p \in Phases, RefuseRoute(p) PROVE FALSE
    BY <2>2 DEF RefuseRoute, Free, TickPc
  <2>3. CASE TickEnd \/ BumpCount \/ AcquireLocks \/ LockContended \/ MarkRunning \/ LaunchPhase
    BY <1>1, <2>3 DEF TickEnd, BumpCount, AcquireLocks, LockContended, MarkRunning, LaunchPhase, runVars
  <2>4. ASSUME NEW p \in Phases, WorkerSucceeds(p) \/ WorkerFails(p) PROVE FALSE
    BY <1>1, <2>4 DEF WorkerSucceeds, WorkerFails, CompleteBegin
  <2>5. ASSUME NEW r \in Runs, TickBegin(r) PROVE FALSE
    BY <1>1, <2>5 DEF TickBegin, MayTick
  <2>6. CASE CompleteSteps
    BY <1>1, <2>6 DEF CompleteSteps, ReleaseLocks, SettlePhase, SettleForRetry, RequeuePhase, runVars
  <2> QED
    BY <1>1, <1>3, <2>1, <2>2, <2>3, <2>4, <2>5, <2>6 DEF InsideStep, TickSteps
<1> QED
  BY <1>1, <1>2, <1>3, NextCases

\* A tick begins when nothing holds its run back.
LEMMA QuietStep ==
  ASSUME "abort" \notin Commands, TypeOK, OpRunInv, QuietInv, [Next]_vars
  PROVE  QuietInv'
<1> SUFFICES ASSUME op'.pc \in TickPc PROVE Quiet(op.run)'
  BY DEF QuietInv
<1>1. CASE op.pc \in TickPc
  BY <1>1, QuietStays DEF QuietInv, Quiet
<1>2. CASE op.pc \notin TickPc
  <2>1. PICK r \in Runs : TickBegin(r)
    <3>1. op'.pc # op.pc
      BY <1>2
    <3>2. op \in [pc : Steps, run : Runs \cup {NoRun}, phase : Phases \cup {NoPhase}, todo : SUBSET Phases]
      BY DEF TypeOK
    <3> QED
      BY <1>2, <3>1, <3>2, NextOpMoves DEF OpMoves, TickPc, DonePc, Free, Holding
  <2>2. op'.run = r /\ UNCHANGED <<runStatus, lease>>
    BY <2>1 DEF TickBegin, Holding, runVars
  <2>3. lease[r] \in Lease
    BY DEF TypeOK
  <2>4. Quiet(r)
    BY <2>1, <2>3 DEF TickBegin, MayTick, Paused, HeldBack, EndedForTick, Quiet, Lease
  <2> QED
    BY <2>2, <2>4 DEF Quiet
<1> QED
  BY <1>1, <1>2

(* Only an insertion makes a new row.                                      *)
LEMMA RowMoves ==
  ASSUME TypeOK, OpOK, [Next]_vars, NEW p \in Phases, attempt'[p].n # attempt[p].n
  PROVE  InsertAttempt(p)
<1>1. CASE OutsideStep
  BY <1>1, OutsideUnchanged
<1>2. CASE InsideStep
  <2>1. CASE UNCHANGED attempt
    BY <2>1
  <2>2. ASSUME NEW q \in Phases, InsertAttempt(q) PROVE q = p
    BY <2>2, InsertWrites DEF Written
  <2>3. CASE LockContended
    BY <2>3, ContendedWrites DEF Written
  <2>4. CASE MarkRunning
    BY <2>4, MarkWrites DEF Written
  <2>5. ASSUME NEW q \in Phases, WorkerSucceeds(q) \/ WorkerFails(q) PROVE FALSE
    BY <2>5, WorkerCases, CompleteWrites DEF Written
  <2>6. ASSUME NEW q \in Phases, SkipPhase(q) \/ DenyStart(q) \/ RefuseRoute(q) PROVE UNCHANGED attempt
    BY <2>6 DEF SkipPhase, DenyStart, RefuseRoute
  <2>7. ASSUME TickEnd \/ BumpCount \/ AcquireLocks \/ LaunchPhase \/ CompleteSteps \/ \E r \in Runs : TickBegin(r)
        PROVE  UNCHANGED attempt
    BY <2>7 DEF TickEnd, BumpCount, AcquireLocks, LaunchPhase, CompleteSteps, ReleaseLocks, SettlePhase,
                SettleForRetry, RequeuePhase, TickBegin
  <2> QED
    BY <1>2, <2>1, <2>2, <2>3, <2>4, <2>5, <2>6, <2>7 DEF InsideStep, TickSteps
<1> QED
  BY <1>1, <1>2, NextCases

(* NoStartWhenHeld: no attempt is created while its run is held back,      *)
(* although the flags are read once, at the start of the tick; an abort    *)
(* may come between the two.                                               *)
THEOREM HeldRunsStartNothing ==
  ASSUME "abort" \notin Commands
  PROVE  Spec => NoStartWhenHeld
<1>1. Init => OpRunInv /\ QuietInv
  BY DEF Init, Free, OpRunInv, QuietInv, TickPc
<1>2. ASSUME LockInv, OpRunInv, QuietInv, [Next]_vars PROVE OpRunInv' /\ QuietInv'
  BY <1>2, OpRunStep, QuietStep DEF LockInv
<1>3. ASSUME LockInv, OpRunInv, QuietInv, [Next]_vars
      PROVE  [\A p \in Phases : attempt'[p].n # attempt[p].n =>
                /\ lease[RunOf[p]] = [paused |-> FALSE, cleanupIncomplete |-> FALSE, lowDisk |-> FALSE]
                /\ runStatus[RunOf[p]] \notin {"paused", "cancelling", "cancelled", "completed", "failed"}]_vars
  <2>1. ASSUME NEW p \in Phases, attempt'[p].n # attempt[p].n PROVE Quiet(RunOf[p])
    <3>1. InsertAttempt(p)
      BY <1>3, <2>1, RowMoves DEF LockInv
    <3> QED
      BY <1>3, <3>1 DEF InsertAttempt, Scanning, OpRunInv, QuietInv, TickPc, PhasesOf
  <2> QED
    BY <2>1 DEF Quiet
<1> QED
  BY <1>1, <1>2, <1>3, LockInvariant, PTL DEF Spec, NoStartWhenHeld

-----------------------------------------------------------------------------
(* The end of a run.                                                       *)

(* A blocked phase waits for something that is not passed, and no code     *)
(* cancels a phase.                                                        *)
BlockedIn(st) == \A p \in Phases : (st[p] = "blocked" => ~DependenciesPassed(p, st)) /\ st[p] # "cancelled"

BlockedInv == BlockedIn(status)

\* What a refresh blocks, or leaves blocked, waits for something that is not passed.
LEMMA RefreshBlocked ==
  ASSUME NEW st \in [Phases -> PhaseStatuses], NEW r, \A p \in Phases : st[p] # "cancelled",
         \A p \in Phases \ PhasesOf(r) : st[p] = "blocked" => ~DependenciesPassed(p, st)
  PROVE  BlockedIn(RefreshedStatus(st, r))
<1> SUFFICES ASSUME NEW p \in Phases
             PROVE  /\ RefreshedStatus(st, r)[p] = "blocked" => ~DependenciesPassed(p, RefreshedStatus(st, r))
                    /\ RefreshedStatus(st, r)[p] # "cancelled"
  BY DEF BlockedIn
<1>1. RefreshedStatus(st, r)[p] # "cancelled"
  BY DEF RefreshedStatus, Readiness
<1>2. ASSUME RefreshedStatus(st, r)[p] = "blocked" PROVE ~DependenciesPassed(p, st)
  <2>1. CASE Refreshable(p, st, r)
    BY <1>2, <2>1 DEF RefreshedStatus, Readiness, DependencyLost, DependenciesPassed
  <2>2. CASE ~Refreshable(p, st, r)
    <3>1. st[p] = "blocked"
      BY <1>2, <2>2 DEF RefreshedStatus
    <3>2. p \notin PhasesOf(r)
      BY <2>2, <3>1 DEF Refreshable, PhasesOf, TerminalPhase
    <3> QED
      BY <3>1, <3>2
  <2> QED
    BY <2>1, <2>2
<1>3. DependenciesPassed(p, RefreshedStatus(st, r)) => DependenciesPassed(p, st)
  BY RefreshKeepsPassed, ConstantsAssumption DEF DependenciesPassed
<1> QED
  BY <1>1, <1>2, <1>3

(* A phase that was not passed gets another status, unless that of a block. *)
LEMMA WriteBlocked ==
  ASSUME TypeOK, BlockedInv, NEW p \in Phases, NEW s \in PhaseStatuses \ {"blocked", "passed", "cancelled"}
  PROVE  BlockedIn([status EXCEPT ![p] = s])
<1> DEFINE st == [status EXCEPT ![p] = s]
<1>1. \A q \in Phases : st[q] = IF q = p THEN s ELSE status[q]
  BY DEF TypeOK
<1>2. \A q \in Phases : DependenciesPassed(q, st) => DependenciesPassed(q, status)
  BY <1>1, ConstantsAssumption DEF DependenciesPassed
<1> HIDE DEF st
<1>3. BlockedIn(st)
  BY <1>1, <1>2 DEF BlockedInv, BlockedIn
<1> QED
  BY <1>3 DEF st

\* Every step keeps it so.
LEMMA BlockedStep == ASSUME LockInv, OpRunInv, BlockedInv, [Next]_vars PROVE BlockedInv'
<1>t. TypeOK /\ OpOK /\ status \in [Phases -> PhaseStatuses]
  BY DEF LockInv, TypeOK
<1>i. BlockedIn(status)' <=> BlockedIn(status')
  BY DEF BlockedIn, DependenciesPassed
<1>1. ASSUME NEW st \in [Phases -> PhaseStatuses], NEW r, \A p \in Phases : st[p] # "cancelled",
             \A p \in Phases \ PhasesOf(r) : st[p] = "blocked" => ~DependenciesPassed(p, st),
             status' = RefreshedStatus(st, r)
      PROVE  BlockedInv'
  BY <1>1, <1>i, RefreshBlocked DEF BlockedInv
<1>2. ASSUME NEW r, status' = RefreshedStatus(status, r) PROVE BlockedInv'
  BY <1>1, <1>2, <1>t DEF BlockedInv, BlockedIn
<1>3. ASSUME NEW p \in Phases, NEW s \in PhaseStatuses \ {"blocked", "passed", "cancelled"},
             status' = [status EXCEPT ![p] = s]
      PROVE  BlockedInv'
  BY <1>3, <1>i, <1>t, WriteBlocked DEF BlockedInv
<1>4. CASE UNCHANGED status
  BY <1>4, <1>i DEF BlockedInv
<1>5. ASSUME NEW p \in Phases, RunOf[p] = op.run, NEW s \in PhaseStatuses \ {"blocked", "cancelled"},
             status' = RefreshedStatus([status EXCEPT ![p] = s], op.run)
      PROVE  BlockedInv'
  <2> DEFINE st == [status EXCEPT ![p] = s]
  <2>1. st \in [Phases -> PhaseStatuses] /\ \A q \in Phases : st[q] = IF q = p THEN s ELSE status[q]
    BY <1>t
  <2>2. \A q \in Phases \ PhasesOf(op.run) : DependenciesPassed(q, st) => DependenciesPassed(q, status)
    <3>1. \A q \in Phases \ PhasesOf(op.run) : p \notin Deps[q] /\ Deps[q] \subseteq Phases
      BY <1>5, ConstantsAssumption DEF PhasesOf
    <3> QED
      BY <2>1, <3>1 DEF DependenciesPassed
  <2>3. p \in PhasesOf(op.run)
    BY <1>5 DEF PhasesOf
  <2> HIDE DEF st
  <2>4. \A q \in Phases : st[q] # "cancelled"
    BY <2>1 DEF BlockedInv, BlockedIn
  <2>5. \A q \in Phases \ PhasesOf(op.run) : st[q] = "blocked" => ~DependenciesPassed(q, st)
    BY <2>1, <2>2, <2>3 DEF BlockedInv, BlockedIn
  <2>6. status' = RefreshedStatus(st, op.run)
    BY <1>5 DEF st
  <2> QED
    BY <1>1, <2>1, <2>4, <2>5, <2>6
<1>6. CASE OutsideStep
  <2>1. ASSUME NEW r \in Runs, LoadPlan(r) \/ TickPaused(r) PROVE \E s \in Runs : status' = RefreshedStatus(status, s)
    BY <2>1 DEF LoadPlan, TickPaused, Refresh, RefreshFrom
  <2>2. ASSUME NEW p \in Phases, RetryPhase(p) PROVE status' = [status EXCEPT ![p] = "ready"]
    BY <2>2 DEF RetryPhase
  <2>3. "ready" \in PhaseStatuses \ {"blocked", "passed", "cancelled"}
    BY DEF PhaseStatuses
  <2>4. ASSUME NEW r \in Runs, \/ FinishRun(r) \/ CancelObserved(r) \/ RequestStop(r) \/ WriteCancelling(r)
                              \/ Pause(r) \/ Resume(r) \/ AbortPress(r) \/ ForcedAbort(r)
        PROVE  UNCHANGED status
    BY <2>4 DEF FinishRun, CancelObserved, RequestStop, WriteCancelling, Pause, Resume, AbortPress, ForcedAbort, phaseVars
  <2>5. ASSUME LowDisk \/ UNCHANGED vars PROVE UNCHANGED status
    BY <2>5 DEF LowDisk, vars, phaseVars
  <2> QED
    BY <1>2, <1>3, <1>4, <1>6, <2>1, <2>2, <2>3, <2>4, <2>5 DEF OutsideStep
<1>7. CASE InsideStep
  <2>1. ASSUME NEW r \in Runs, TickBegin(r) PROVE status' = RefreshedStatus(status, r)
    BY <2>1 DEF TickBegin, Refresh, RefreshFrom
  <2>2. ASSUME TickEnd PROVE status' = RefreshedStatus(status, op.run)
    BY <2>2 DEF TickEnd, Refresh, RefreshFrom
  <2>3. ASSUME NEW p \in Phases, DenyStart(p) PROVE status' = [status EXCEPT ![p] = "failed"]
    BY <2>3 DEF DenyStart
  <2>4. ASSUME NEW p \in Phases, \/ SkipPhase(p) \/ RefuseRoute(p) \/ InsertAttempt(p)
                                \/ WorkerSucceeds(p) \/ WorkerFails(p)
        PROVE  UNCHANGED status
    BY <2>4 DEF SkipPhase, RefuseRoute, InsertAttempt, WorkerSucceeds, WorkerFails, CompleteBegin, phaseVars
  <2>5. ASSUME BumpCount \/ AcquireLocks \/ LockContended \/ MarkRunning \/ ReleaseLocks PROVE UNCHANGED status
    BY <2>5 DEF BumpCount, AcquireLocks, LockContended, MarkRunning, ReleaseLocks, phaseVars
  <2>6. ASSUME LaunchPhase PROVE op.phase \in Phases /\ status' = [status EXCEPT ![op.phase] = "running"]
    BY <2>6, <1>t DEF LaunchPhase, OpOK
  <2>7. ASSUME SettleForRetry PROVE op.phase \in Phases /\ status' = [status EXCEPT ![op.phase] = "failed"]
    BY <2>7, <1>t DEF SettleForRetry, OpOK
  <2>8. ASSUME SettlePhase \/ RequeuePhase
        PROVE  /\ op.phase \in Phases /\ RunOf[op.phase] = op.run
               /\ \E s \in {"passed", "failed", "ready"} :
                    status' = RefreshedStatus([status EXCEPT ![op.phase] = s], op.run)
    BY <2>8, <1>t DEF SettlePhase, RequeuePhase, RefreshFrom, SettledStatus, OpRunInv, PhasesOf
  <2>9. /\ {"failed", "running"} \subseteq PhaseStatuses \ {"blocked", "passed", "cancelled"}
        /\ {"passed", "failed", "ready"} \subseteq PhaseStatuses \ {"blocked", "cancelled"}
    BY DEF PhaseStatuses
  <2>10. ASSUME TickSteps PROVE BlockedInv'
    BY <1>2, <1>3, <1>4, <2>2, <2>3, <2>4, <2>5, <2>6, <2>9, <2>10 DEF TickSteps
  <2>11. ASSUME CompleteSteps PROVE BlockedInv'
    BY <1>3, <1>4, <1>5, <2>5, <2>7, <2>8, <2>9, <2>11 DEF CompleteSteps
  <2> QED
    BY <1>2, <1>4, <1>7, <2>1, <2>4, <2>10, <2>11 DEF InsideStep
<1> QED
  BY <1>6, <1>7, NextCases

(* Only the end of a run completes it.                                     *)
LEMMA CompletedMoves ==
  ASSUME TypeOK, [Next]_vars, NEW r \in Runs, runStatus'[r] = "completed", runStatus[r] # "completed"
  PROVE  FinishRun(r)
<1>1. CASE OutsideStep
  <2>1. ASSUME NEW s \in Runs, FinishRun(s) PROVE s = r
    BY <2>1 DEF FinishRun, TypeOK
  <2>2. ASSUME NEW s \in Runs, \/ LoadPlan(s) \/ CancelObserved(s) \/ WriteCancelling(s) \/ Pause(s) \/ Resume(s)
                              \/ AbortPress(s) \/ ForcedAbort(s)
        PROVE  FALSE
    BY <2>2 DEF LoadPlan, CancelObserved, WriteCancelling, Pause, Resume, AbortPress, ForcedAbort, TypeOK
  <2>3. ASSUME NEW s \in Runs, TickPaused(s) \/ RequestStop(s) PROVE UNCHANGED runStatus
    BY <2>3 DEF TickPaused, RequestStop, runVars
  <2>4. ASSUME LowDisk \/ UNCHANGED vars \/ \E p \in Phases : RetryPhase(p) PROVE UNCHANGED runStatus
    BY <2>4 DEF LowDisk, vars, RetryPhase, runVars
  <2> QED
    BY <1>1, <2>1, <2>2, <2>3, <2>4 DEF OutsideStep
<1>2. CASE InsideStep
  <2>1. ASSUME NEW p \in Phases, RefuseRoute(p) PROVE FALSE
    BY <2>1 DEF RefuseRoute, TypeOK
  <2>2. ASSUME NEW p \in Phases, \/ SkipPhase(p) \/ DenyStart(p) \/ InsertAttempt(p) \/ WorkerSucceeds(p) \/ WorkerFails(p)
        PROVE  UNCHANGED runStatus
    BY <2>2 DEF SkipPhase, DenyStart, InsertAttempt, WorkerSucceeds, WorkerFails, CompleteBegin, runVars
  <2>3. ASSUME TickEnd \/ BumpCount \/ AcquireLocks \/ LockContended \/ MarkRunning \/ LaunchPhase PROVE UNCHANGED runStatus
    BY <2>3 DEF TickEnd, BumpCount, AcquireLocks, LockContended, MarkRunning, LaunchPhase, runVars
  <2>4. ASSUME CompleteSteps \/ \E s \in Runs : TickBegin(s) PROVE UNCHANGED runStatus
    BY <2>4 DEF CompleteSteps, ReleaseLocks, SettlePhase, SettleForRetry, RequeuePhase, TickBegin, runVars
  <2> QED
    BY <1>2, <2>1, <2>2, <2>3, <2>4 DEF InsideStep, TickSteps
<1> QED
  BY <1>1, <1>2, NextCases

(* With nothing pending and nothing failed, a phase of the lowest that are *)
(* blocked would wait for passed ones only.                                *)
LEMMA NothingLeft ==
  ASSUME TypeOK, BlockedInv, NEW r \in Runs, FinishRun(r), runStatus'[r] = "completed"
  PROVE  \A p \in PhasesOf(r) : status[p] = "passed"
<1> DEFINE S == {p \in PhasesOf(r) : status[p] # "passed"}
<1>1. ~\E p \in PhasesOf(r) : status[p] = "failed"
  BY DEF FinishRun, TypeOK
<1>2. \A p \in S : p \in Phases /\ status[p] = "blocked"
  BY <1>1 DEF TypeOK, FinishRun, PendingPhase, PhaseStatuses, BlockedInv, BlockedIn, PhasesOf
<1>3. ASSUME S # {} PROVE FALSE
  <2>1. PICK p \in S : Deps[p] \cap S = {}
    BY <1>2, <1>3, PlanIsOrdered
  <2>2. p \in Phases /\ RunOf[p] = r /\ \A d \in Deps[p] : d \in PhasesOf(r)
    BY <1>2, ConstantsAssumption DEF PhasesOf
  <2>3. DependenciesPassed(p, status)
    BY <2>1, <2>2 DEF DependenciesPassed
  <2> QED
    BY <1>2, <2>3 DEF BlockedInv, BlockedIn
<1> QED
  BY <1>3

(* CompletedMeansPassed: a run is reported completed only if every phase   *)
(* of it passed, though the supervisor only looks for pending and failed   *)
(* phases, and a phase once blocked stays so when its cause is retried.    *)
THEOREM CompletedRunsPassed ==
  ASSUME "passed" \notin RetryFrom
  PROVE  Spec => []CompletedMeansPassed
<1>1. Init => OpRunInv /\ BlockedInv /\ CompletedMeansPassed
  BY DEF Init, Free, OpRunInv, BlockedInv, BlockedIn, CompletedMeansPassed
<1>2. ASSUME PlanInv, OpRunInv, BlockedInv, CompletedMeansPassed, [Next]_vars
      PROVE  OpRunInv' /\ BlockedInv' /\ CompletedMeansPassed'
  <2>1. LockInv /\ TypeOK /\ OpOK /\ TodoOK /\ Unaccepted
    BY <1>2 DEF PlanInv, LockInv, ResultOK
  <2>2. OpRunInv' /\ BlockedInv'
    BY <1>2, <2>1, OpRunStep, BlockedStep
  <2>3. \A p \in Phases : status[p] = "passed" => status'[p] = "passed"
    BY <1>2, <2>1, NextCases, OutsidePassed, InsidePassed DEF PassedSame, Accepting
  <2>4. ASSUME NEW r \in Runs, runStatus'[r] = "completed" PROVE \A p \in PhasesOf(r) : status[p] = "passed"
    <3>1. CASE runStatus[r] = "completed"
      BY <1>2, <3>1 DEF CompletedMeansPassed
    <3>2. CASE runStatus[r] # "completed"
      BY <1>2, <2>1, <2>4, <3>2, CompletedMoves, NothingLeft
    <3> QED
      BY <3>1, <3>2
  <2> QED
    BY <2>2, <2>3, <2>4 DEF CompletedMeansPassed, PhasesOf
<1> QED
  BY <1>1, <1>2, PlanInvariant, PTL DEF Spec

-----------------------------------------------------------------------------
(* The budget of attempts, for phases that share no lock: a start that     *)
(* loses the race for one is counted, and leaves no failure behind.        *)

Settling(p) == op.pc \in {"release", "settle"} /\ op.phase = p

(* A phase without a failure was not tried, or its one attempt is at work  *)
(* or being completed, or it passed.                                       *)
Untried(p) == count[p] = 0 \/ HasActiveAttempt(p) \/ Settling(p) \/ status[p] = "passed"

BudgetInv ==
  /\ AttemptBudget
  /\ op.pc = "bump" => attempt[op.phase].n = count[op.phase] + 1 /\ count[op.phase] < MaxAttempts
  /\ op.pc \in {"release", "settle"} /\ attempt[op.phase].result = "failed" => attempt[op.phase].kind # "none"
  /\ \A p \in Phases : failure[p] = "none" => Untried(p)
  /\ \A row \in locks : row.lock \in LocksOf[row.phase]

FailureKept == \A p \in Phases : failure'[p] = "none" => failure[p] = "none"
PassedKept == \A p \in Phases : status[p] = "passed" => status'[p] = "passed"

(* A step that writes no attempt and no count.                             *)
LEMMA BudgetKept ==
  ASSUME TypeOK, BudgetInv, UNCHANGED <<attempt, count>>, FailureKept, PassedKept, locks' \subseteq locks,
         \/ op' = op
         \/ /\ op'.pc \notin {"bump", "release", "settle"}
            /\ \A p \in Phases : Settling(p) => status'[p] = "passed" \/ failure'[p] # "none"
  PROVE  BudgetInv'
<1>1. \A p \in Phases : failure'[p] = "none" => Untried(p)'
  BY DEF BudgetInv, Untried, Settling, HasActiveAttempt, FailureKept, PassedKept
<1> QED
  BY <1>1 DEF BudgetInv, AttemptBudget

(* A refresh adds failures only.                                           *)
LEMMA RefreshFailure ==
  ASSUME NEW fl, NEW st, NEW r, NEW p \in Phases, RefreshedFailure(fl, st, r)[p] = "none"
  PROVE  fl[p] = "none"
BY DEF RefreshedFailure

(* A start that is allowed is within the budget.                           *)
LEMMA StartWithin ==
  ASSUME TypeOK, BudgetInv, NEW p \in Phases, op.pc = "scan", status[p] = "ready", ~HasActiveAttempt(p),
         StartDecision(p).allow
  PROVE  count[p] < MaxAttempts
<1>1. count[p] \in Nat /\ MaxAttempts \in Nat \ {0}
  BY ConstantsAssumption DEF TypeOK
<1>2. CASE failure[p] = "none"
  <2>1. Untried(p)
    BY <1>2 DEF BudgetInv
  <2>2. count[p] = 0
    BY <2>1 DEF Untried, Settling
  <2> QED
    BY <1>1, <2>2
<1>3. CASE failure[p] # "none"
  <2>1. DecideRetry(attempt[p].tier, count[p], MaxAttempts, failure[p], attempt[p].progress, attempt[p].resumed).allow
    BY <1>3 DEF StartDecision
  <2>2. ~(count[p] >= MaxAttempts)
    BY <2>1 DEF DecideRetry
  <2> QED
    BY <1>1, <2>2
<1> QED
  BY <1>2, <1>3

(* No two phases write below the same root or use the same resource.       *)
Disjoint == \A p, q \in Phases : p # q => LocksOf[p] \cap LocksOf[q] = {}

\* A start is only counted when the budget allows it.
LEMMA InsertBudget ==
  ASSUME PlanInv, BudgetInv, NEW p \in Phases, InsertAttempt(p)
  PROVE  BudgetInv'
<1>1. TypeOK /\ TodoOK
  BY DEF PlanInv, LockInv
<1>2. /\ op.pc = "scan" /\ p \in op.todo /\ ~HasActiveAttempt(p) /\ StartDecision(p).allow
      /\ UNCHANGED <<count, failure, status, locks>> /\ op' = Holding("bump", op.run, p, op.todo \ {p})
  BY DEF InsertAttempt, Scanning, phaseVars
<1>3. Written(p, count[p] + 1, "starting", "none")
  BY <1>1, InsertWrites
<1>4. status[p] = "ready"
  BY <1>1, <1>2 DEF TodoOK, TickPc
<1>5. count[p] < MaxAttempts
  BY <1>1, <1>2, <1>4, StartWithin
<1>6. op'.pc = "bump" /\ op'.phase = p
  BY <1>2 DEF Holding
<1>7. \A q \in Phases : failure'[q] = "none" => Untried(q)'
  BY <1>2, <1>3, <1>6 DEF BudgetInv, Untried, Settling, HasActiveAttempt, Written
<1> QED
  BY <1>2, <1>3, <1>5, <1>6, <1>7 DEF BudgetInv, AttemptBudget, Written

\* The count becomes the number of the row.
LEMMA BumpBudget == ASSUME PlanInv, BudgetInv, BumpCount PROVE BudgetInv'
<1>1. TypeOK /\ OpOK /\ op.pc = "bump" /\ op.phase \in Phases /\ attempt[op.phase].status = "starting"
  BY DEF PlanInv, LockInv, OpOK, BumpCount
<1>2. /\ op' = [op EXCEPT !.pc = "lock"] /\ UNCHANGED <<status, failure, attempt, locks>>
      /\ count' = [count EXCEPT ![op.phase] = attempt[op.phase].n]
  BY DEF BumpCount
<1>3. op'.pc = "lock"
  BY <1>1, <1>2 DEF TypeOK
<1>4. count[op.phase] \in Nat /\ MaxAttempts \in Nat /\ attempt[op.phase].n <= MaxAttempts
  BY <1>1, ConstantsAssumption DEF TypeOK, BudgetInv
<1>5. \A p \in Phases : count'[p] = IF p = op.phase THEN attempt[op.phase].n ELSE count[p]
  BY <1>1, <1>2 DEF TypeOK
<1>6. \A p \in Phases : failure'[p] = "none" => Untried(p)'
  BY <1>1, <1>2, <1>5 DEF BudgetInv, Untried, Settling, HasActiveAttempt
<1> QED
  BY <1>2, <1>3, <1>4, <1>5, <1>6 DEF BudgetInv, AttemptBudget

\* Without shared locks, no start loses a race.
LEMMA LockBudget ==
  ASSUME Disjoint, PlanInv, BudgetInv, AcquireLocks \/ LockContended \/ MarkRunning
  PROVE  BudgetInv'
<1>1. TypeOK /\ OpOK /\ NoneLeft /\ op.phase \in Phases
  BY DEF PlanInv, LockInv, OpOK, AcquireLocks, LockContended, MarkRunning
<1>o. op \in [pc : Steps, run : Runs \cup {NoRun}, phase : Phases \cup {NoPhase}, todo : SUBSET Phases]
  BY <1>1 DEF TypeOK
<1>2. CASE AcquireLocks
  <2>1. /\ op'.pc = "mark" /\ op.pc = "lock" /\ UNCHANGED <<count, failure, status, attempt>>
        /\ \A row \in locks' : row \in locks \/ (row.lock \in LocksOf[op.phase] /\ row.phase = op.phase)
    BY <1>2, <1>o DEF AcquireLocks, phaseVars
  <2>2. \A p \in Phases : failure'[p] = "none" => Untried(p)'
    BY <2>1 DEF BudgetInv, Untried, Settling, HasActiveAttempt
  <2> QED
    BY <2>1, <2>2 DEF BudgetInv, AttemptBudget
<1>3. CASE LockContended
  <2>1. PICK row \in locks : row.lock \in LocksOf[op.phase]
    BY <1>3 DEF LockContended, LocksBusy
  <2>2. row.lock \in LocksOf[row.phase] /\ row.phase \in Phases
    BY <1>1 DEF BudgetInv, TypeOK, LockRow
  <2>3. row.phase = op.phase
    BY <1>1, <2>1, <2>2 DEF Disjoint
  <2> QED
    BY <1>1, <1>3, <2>3 DEF NoneLeft, LockContended
<1>4. CASE MarkRunning
  <2>1. op'.pc = "launch" /\ op.pc = "mark" /\ UNCHANGED <<count, failure, status, locks>>
    BY <1>4, <1>o DEF MarkRunning, phaseVars
  <2>2. Written(op.phase, attempt[op.phase].n, "running", attempt[op.phase].result)
    BY <1>1, <1>4, MarkWrites
  <2>3. \A p \in Phases : failure'[p] = "none" => Untried(p)'
    BY <1>1, <2>1, <2>2 DEF BudgetInv, Untried, Settling, HasActiveAttempt, Written
  <2> QED
    BY <2>1, <2>3 DEF BudgetInv, AttemptBudget
<1> QED
  BY <1>2, <1>3, <1>4

\* What a worker reports is a success, or a failure of some kind.
LEMMA CompleteBudget ==
  ASSUME PlanInv, BudgetInv, NEW p \in Phases, WorkerSucceeds(p) \/ WorkerFails(p)
  PROVE  BudgetInv'
<1>1. TypeOK /\ attempt[p] \in AttemptRow
  BY DEF PlanInv, LockInv, TypeOK
<1>e. \E res \in {"succeeded", "failed"}, k \in FailureKinds, g \in BOOLEAN :
        CompleteBegin(p, res, k, g) /\ (res = "failed" => k # "none")
  <2>1. CASE WorkerSucceeds(p)
    <3>1. CompleteBegin(p, "succeeded", "none", FALSE) /\ "none" \in FailureKinds /\ FALSE \in BOOLEAN
      BY <2>1 DEF WorkerSucceeds, FailureKinds
    <3> QED
      BY <3>1
  <2>2. CASE WorkerFails(p)
    <3>1. PICK k \in FailureKinds \ {"none"}, g \in BOOLEAN : CompleteBegin(p, "failed", k, g)
      BY <2>2 DEF WorkerFails
    <3> QED
      BY <3>1
  <2> QED
    BY <2>1, <2>2
<1>2. PICK res \in {"succeeded", "failed"}, k \in FailureKinds, g \in BOOLEAN :
        CompleteBegin(p, res, k, g) /\ (res = "failed" => k # "none")
  BY <1>e
<1>3. Written(p, attempt[p].n, "completed", res) /\ attempt'[p].kind = k
  <2>1. attempt'[p] = [attempt[p] EXCEPT !.status = "completed", !.result = res, !.kind = k, !.progress = g,
                                         !.resumed = attempt[p].resumed \/ attempt[p].marker]
    BY <1>1, <1>2 DEF CompleteBegin, TypeOK
  <2> QED
    BY <1>1, <1>2, <2>1, CompleteWrites DEF AttemptRow
<1>4. op = Free /\ op'.pc = "release" /\ op'.phase = p /\ UNCHANGED <<count, failure, status, locks>>
  BY <1>2 DEF CompleteBegin, Holding, phaseVars
<1>5. \A q \in Phases : failure'[q] = "none" => Untried(q)'
  BY <1>3, <1>4 DEF BudgetInv, Untried, Settling, HasActiveAttempt, Written, Free
<1> QED
  BY <1>2, <1>3, <1>4, <1>5 DEF BudgetInv, AttemptBudget, Written

\* A completion leaves the phase passed or with a failure.
LEMMA SettleBudget == ASSUME PlanInv, BudgetInv, CompleteSteps, PassedKept PROVE BudgetInv'
<1>1. TypeOK /\ OpOK /\ ResultOK /\ op.phase \in Phases
  BY DEF PlanInv, LockInv, OpOK, CompleteSteps, ReleaseLocks, SettlePhase, SettleForRetry, RequeuePhase
<1>o. op \in [pc : Steps, run : Runs \cup {NoRun}, phase : Phases \cup {NoPhase}, todo : SUBSET Phases]
  BY <1>1 DEF TypeOK
<1>2. CASE ReleaseLocks
  <2>1. /\ op.pc = "release" /\ op' = [op EXCEPT !.pc = "settle"] /\ locks' \subseteq locks
        /\ UNCHANGED <<count, failure, status, attempt>>
    BY <1>2 DEF ReleaseLocks, phaseVars
  <2>2. op'.pc = "settle" /\ op'.phase = op.phase
    BY <1>o, <2>1
  <2>3. \A p \in Phases : failure'[p] = "none" => Untried(p)'
    BY <2>1, <2>2 DEF BudgetInv, Untried, Settling, HasActiveAttempt
  <2> QED
    BY <2>1, <2>2, <2>3 DEF BudgetInv, AttemptBudget
<1>3. ASSUME attempt[op.phase].kind # "none"
      PROVE  SettledFailure(op.phase)[op.phase] # "none"
  BY <1>1, <1>3 DEF SettledFailure, TypeOK
<1>4. \A p \in Phases : SettledFailure(op.phase)[p] = "none" => failure[p] = "none"
  BY <1>1 DEF SettledFailure, TypeOK
<1>5. CASE SettlePhase
  <2>1. /\ op.pc = "settle" /\ op' = Free /\ UNCHANGED <<count, attempt, locks>>
        /\ \E st : failure' = RefreshedFailure(SettledFailure(op.phase), st, op.run)
    BY <1>5 DEF SettlePhase, RefreshFrom
  <2>2. \A p \in Phases : failure'[p] = "none" => SettledFailure(op.phase)[p] = "none"
    BY <2>1, RefreshFailure
  <2>3. FailureKept
    BY <1>4, <2>2 DEF FailureKept
  <2>4. status'[op.phase] = "passed" \/ failure'[op.phase] # "none"
    <3>1. CASE attempt[op.phase].result = "failed"
      BY <1>1, <1>3, <2>1, <2>2, <3>1 DEF BudgetInv
    <3>2. CASE attempt[op.phase].result = "succeeded"
      <4> DEFINE st == [status EXCEPT ![op.phase] = "passed"]
      <4>1. status' = RefreshedStatus(st, op.run)
        BY <1>5, <3>2 DEF SettlePhase, RefreshFrom, SettledStatus
      <4>2. st[op.phase] = "passed"
        BY <1>1 DEF TypeOK
      <4> HIDE DEF st
      <4> QED
        BY <1>1, <4>1, <4>2, RefreshKeepsPassed
    <3> QED
      BY <1>1, <2>1, <3>1, <3>2 DEF ResultOK, Unaccepted, SuccessCounts
  <2> QED
    BY <1>1, <2>1, <2>3, <2>4, BudgetKept DEF Free, Settling
<1>6. CASE SettleForRetry
  <2>1. /\ op.pc = "settle" /\ op' = [op EXCEPT !.pc = "requeue"] /\ UNCHANGED <<count, attempt, locks>>
        /\ failure' = SettledFailure(op.phase) /\ attempt[op.phase].result = "failed"
    BY <1>6 DEF SettleForRetry
  <2>2. op'.pc = "requeue" /\ FailureKept /\ failure'[op.phase] # "none"
    BY <1>o, <1>3, <1>4, <2>1 DEF FailureKept, BudgetInv
  <2> QED
    BY <1>1, <2>1, <2>2, BudgetKept DEF Settling
<1>7. CASE RequeuePhase
  <2>1. /\ op.pc = "requeue" /\ op' = Free /\ UNCHANGED <<count, attempt, locks>>
        /\ \E st : failure' = RefreshedFailure(failure, st, op.run)
    BY <1>7 DEF RequeuePhase, RefreshFrom
  <2>2. FailureKept
    BY <2>1, RefreshFailure DEF FailureKept
  <2> QED
    BY <1>1, <2>1, <2>2, BudgetKept DEF Free, Settling
<1> QED
  BY <1>2, <1>5, <1>6, <1>7 DEF CompleteSteps

\* Outside the operations no count changes and no failure is forgotten.
LEMMA OutsideFailure == ASSUME OutsideStep PROVE FailureKept /\ UNCHANGED count
<1>1. ASSUME NEW r \in Runs, LoadPlan(r) \/ TickPaused(r)
      PROVE  UNCHANGED count /\ \E s \in Runs : failure' = RefreshedFailure(failure, status, s)
  BY <1>1 DEF LoadPlan, TickPaused, Refresh, RefreshFrom
<1>2. ASSUME NEW r \in Runs, \/ FinishRun(r) \/ CancelObserved(r) \/ RequestStop(r) \/ WriteCancelling(r)
                            \/ Pause(r) \/ Resume(r) \/ AbortPress(r) \/ ForcedAbort(r)
      PROVE  UNCHANGED <<count, failure>>
  BY <1>2 DEF FinishRun, CancelObserved, RequestStop, WriteCancelling, Pause, Resume, AbortPress, ForcedAbort, phaseVars
<1>3. ASSUME LowDisk \/ UNCHANGED vars \/ \E p \in Phases : RetryPhase(p) PROVE UNCHANGED <<count, failure>>
  BY <1>3 DEF LowDisk, vars, phaseVars, RetryPhase
<1> QED
  BY <1>1, <1>2, <1>3, RefreshFailure DEF OutsideStep, FailureKept

(* The steps of a tick that write no attempt.                              *)
LEMMA TickBudget ==
  ASSUME PlanInv, BudgetInv, PassedKept,
         \/ TickEnd \/ LaunchPhase
         \/ \E r \in Runs : TickBegin(r)
         \/ \E p \in Phases : SkipPhase(p) \/ DenyStart(p) \/ RefuseRoute(p)
  PROVE  BudgetInv'
<1>1. TypeOK
  BY DEF PlanInv, LockInv
<1>2. UNCHANGED <<attempt, count, locks>> /\ op'.pc \in {"free", "scan"} /\ op.pc \in {"free", "scan", "launch"}
  <2>1. CASE TickEnd \/ LaunchPhase
    BY <2>1 DEF TickEnd, LaunchPhase, Free, Rest, Holding
  <2>2. ASSUME NEW r \in Runs, TickBegin(r)
        PROVE UNCHANGED <<attempt, count, locks>> /\ op'.pc \in {"free", "scan"} /\ op.pc \in {"free", "scan", "launch"}
    BY <2>2 DEF TickBegin, MayTick, Free, Holding
  <2>3. ASSUME NEW p \in Phases, SkipPhase(p) \/ DenyStart(p) \/ RefuseRoute(p)
        PROVE UNCHANGED <<attempt, count, locks>> /\ op'.pc \in {"free", "scan"} /\ op.pc \in {"free", "scan", "launch"}
    BY <2>3 DEF SkipPhase, DenyStart, RefuseRoute, Scanning, Free, Rest, Holding, phaseVars
  <2> QED
    BY <2>1, <2>2, <2>3
<1>3. FailureKept
  <2>1. ASSUME NEW r, Refresh(r) PROVE FailureKept
    BY <2>1, RefreshFailure DEF Refresh, RefreshFrom, FailureKept
  <2>2. ASSUME NEW p \in Phases, DenyStart(p) PROVE FailureKept
    BY <1>1, <2>2 DEF DenyStart, TypeOK, FailureKept
  <2>3. ASSUME LaunchPhase \/ \E p \in Phases : SkipPhase(p) \/ RefuseRoute(p) PROVE FailureKept
    BY <2>3 DEF LaunchPhase, SkipPhase, RefuseRoute, phaseVars, FailureKept
  <2> QED
    BY <2>1, <2>2, <2>3 DEF TickEnd, TickBegin
<1>4. \A p : ~Settling(p)
  BY <1>2 DEF Settling
<1>5. op'.pc \notin {"bump", "release", "settle"} /\ locks' \subseteq locks
  BY <1>2
<1> QED
  BY <1>1, <1>2, <1>3, <1>4, <1>5, BudgetKept

(* AttemptBudget: if no phases share a lock, no phase is counted more      *)
(* attempts than the config allows, in any order of failures, denials and  *)
(* retries by the user.                                                    *)
THEOREM BudgetHolds ==
  ASSUME "passed" \notin RetryFrom, Disjoint
  PROVE  Spec => []AttemptBudget
<1>1. Init => BudgetInv
  BY ConstantsAssumption DEF Init, Free, BudgetInv, AttemptBudget, Untried
<1>2. ASSUME PlanInv, BudgetInv, [Next]_vars PROVE BudgetInv'
  <2>1. TypeOK /\ OpOK /\ TodoOK /\ Unaccepted
    BY <1>2 DEF PlanInv, LockInv, ResultOK
  <2>2. PassedKept
    BY <1>2, <2>1, NextCases, OutsidePassed, InsidePassed DEF PassedSame, Accepting, PassedKept
  <2>3. CASE OutsideStep
    BY <1>2, <2>1, <2>2, <2>3, OutsideUnchanged, OutsideFailure, BudgetKept
  <2>4. CASE InsideStep
    BY <1>2, <2>2, <2>4, TickBudget, InsertBudget, BumpBudget, LockBudget, CompleteBudget, SettleBudget
       DEF InsideStep, TickSteps
  <2> QED
    BY <1>2, <2>3, <2>4, NextCases
<1>3. BudgetInv => AttemptBudget
  BY DEF BudgetInv
<1> QED
  BY <1>1, <1>2, <1>3, PlanInvariant, PTL DEF Spec
=============================================================================
