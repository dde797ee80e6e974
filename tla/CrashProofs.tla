---------------------------- MODULE CrashProofs ----------------------------
(***************************************************************************)
(* Proofs about the scheduler across crashes: what it promises about       *)
(* phases and agents survives a crash between any two statements, one in   *)
(* the middle of the recovery scan included, for any number of crashes.    *)
(***************************************************************************)
EXTENDS SchedulerCrash, SchedulerProofs

-----------------------------------------------------------------------------
(* Steps of the scheduler between two crashes.                             *)

WorkOutside ==
  \E r \in Runs : LoadPlan(r) \/ TickPaused(r) \/ FinishRun(r) \/ CancelObserved(r)
                  \/ RequestStop(r) \/ WriteCancelling(r)

\* A step of work is one of the scheduler's, outside its operations or inside one.
LEMMA WorkCases ==
  ASSUME Work
  PROVE  /\ up /\ UNCHANGED crashVars
         /\ (WorkOutside /\ OutsideStep) \/ InsideStep
<1>1. WorkOutside => OutsideStep
  BY DEF WorkOutside, OutsideStep
<1> QED
  BY <1>1 DEF Work, WorkOutside, StopSteps, InsideStep

(* A refresh starts no phase and takes none from its agent.                *)
LEMMA RefreshKeepsRunning ==
  ASSUME NEW st, NEW r, NEW p \in Phases
  PROVE  RefreshedStatus(st, r)[p] = "running" <=> st[p] = "running"
BY DEF RefreshedStatus, Refreshable, Readiness, TerminalPhase

RunningSame == \A p \in Phases : status'[p] = "running" <=> status[p] = "running"

\* Outside its operations the scheduler refreshes phases at most, and only when it is idle.
LEMMA WorkStatus ==
  ASSUME WorkOutside
  PROVE  PassedSame /\ RunningSame /\ (op = Free \/ UNCHANGED status)
<1>1. ASSUME NEW r \in Runs, LoadPlan(r) \/ TickPaused(r) PROVE PassedSame /\ RunningSame /\ op = Free
  <2>1. status' = RefreshedStatus(status, r) /\ op = Free
    BY <1>1 DEF LoadPlan, TickPaused, MayTick, Refresh, RefreshFrom
  <2> QED
    BY <2>1, RefreshKeepsPassed, RefreshKeepsRunning DEF PassedSame, RunningSame
<1>2. CASE UNCHANGED status
  BY <1>2 DEF PassedSame, RunningSame
<1> QED
  BY <1>1, <1>2 DEF WorkOutside, FinishRun, CancelObserved, RequestStop, WriteCancelling, phaseVars

-----------------------------------------------------------------------------
(* A success is kept.                                                      *)

\* What the completion of a step leaves of the phases it does not touch.
LEMMA SuccessStays ==
  ASSUME SuccessKept, PassedMeansSucceeded, PassedSame, RunningSame, UNCHANGED attempt, up, op.pc # "launch"
  PROVE  SuccessKept' /\ PassedMeansSucceeded'
BY DEF SuccessKept, PassedMeansSucceeded, PassedSame, RunningSame, Running

\* Inside an operation, a success is recorded on a running phase and stays there until it is accepted.
LEMMA InsideSuccess ==
  ASSUME TypeOK, OpOK, TodoOK, Unaccepted, SuccessKept, PassedMeansSucceeded, up, up', InsideStep
  PROVE  SuccessKept' /\ PassedMeansSucceeded'
<1>s. status \in [Phases -> PhaseStatuses]
  BY DEF TypeOK
<1>o. op \in [pc : Steps, run : Runs \cup {NoRun}, phase : Phases \cup {NoPhase}, todo : SUBSET Phases]
  BY DEF TypeOK
<1> USE DEF TickPc, DonePc
<1> DEFINE Goal == SuccessKept' /\ PassedMeansSucceeded'
<1>1. ASSUME status' = RefreshedStatus(status, op'.run) \/ status' = RefreshedStatus(status, op.run) \/ UNCHANGED status,
             UNCHANGED attempt, op.pc # "launch"
      PROVE  Goal
  <2>1. PassedSame /\ RunningSame
    BY <1>1, RefreshKeepsPassed, RefreshKeepsRunning DEF PassedSame, RunningSame
  <2> QED
    BY <1>1, <2>1, SuccessStays
<1>2. ASSUME NEW r \in Runs, TickBegin(r) PROVE Goal
  <2>1. op'.run = r /\ op.pc = "free" /\ UNCHANGED attempt /\ status' = RefreshedStatus(status, r)
    BY <1>2 DEF TickBegin, MayTick, Free, Holding, Refresh, RefreshFrom
  <2> QED
    BY <1>1, <2>1
<1>3. CASE TickEnd \/ BumpCount \/ AcquireLocks \/ ReleaseLocks
  <2>1. /\ op.pc # "launch" /\ UNCHANGED attempt
        /\ status' = RefreshedStatus(status, op.run) \/ UNCHANGED status
    BY <1>3 DEF TickEnd, BumpCount, AcquireLocks, ReleaseLocks, Refresh, RefreshFrom, phaseVars
  <2> QED
    BY <1>1, <2>1
<1>4. ASSUME NEW p \in Phases, SkipPhase(p) \/ RefuseRoute(p) PROVE Goal
  <2>1. op.pc # "launch" /\ UNCHANGED <<attempt, status>>
    BY <1>4 DEF SkipPhase, RefuseRoute, Scanning, phaseVars
  <2> QED
    BY <1>1, <2>1
<1>5. ASSUME NEW p \in Phases, DenyStart(p) PROVE Goal
  <2>1. /\ op.pc = "scan" /\ status[p] = "ready" /\ ~HasActiveAttempt(p)
        /\ status' = [status EXCEPT ![p] = "failed"] /\ UNCHANGED attempt
    BY <1>5 DEF DenyStart, Scanning, TodoOK
  <2> QED
    BY <1>s, <2>1 DEF SuccessKept, PassedMeansSucceeded, Running, HasActiveAttempt
<1>6. ASSUME NEW p \in Phases, InsertAttempt(p) PROVE Goal
  <2>1. op.pc = "scan" /\ status[p] = "ready" /\ UNCHANGED status
    BY <1>6 DEF InsertAttempt, Scanning, TodoOK, phaseVars
  <2>2. Written(p, count[p] + 1, "starting", "none")
    BY <1>6, InsertWrites
  <2> QED
    BY <2>1, <2>2 DEF Written, SuccessKept, PassedMeansSucceeded, Running
<1>7. ASSUME LockContended PROVE Goal
  <2>1. op.pc = "lock" /\ status[op.phase] = "ready" /\ UNCHANGED status
    BY <1>7 DEF LockContended, TodoOK, phaseVars
  <2>2. op.phase \in Phases /\ Written(op.phase, attempt[op.phase].n, "completed", "cancelled")
    BY <1>7, ContendedWrites
  <2> QED
    BY <2>1, <2>2 DEF Written, SuccessKept, PassedMeansSucceeded, Running
<1>8. ASSUME MarkRunning PROVE Goal
  <2>1. op.pc = "mark" /\ UNCHANGED status /\ op'.pc = "launch" /\ op'.phase = op.phase
    BY <1>8, <1>o DEF MarkRunning, phaseVars
  <2>2. op.phase \in Phases /\ Written(op.phase, attempt[op.phase].n, "running", attempt[op.phase].result)
    BY <1>8, MarkWrites
  <2> QED
    BY <2>1, <2>2 DEF Written, SuccessKept, PassedMeansSucceeded, Running
<1>9. ASSUME LaunchPhase PROVE Goal
  <2>1. /\ op.phase \in Phases /\ status[op.phase] = "ready" /\ UNCHANGED attempt
        /\ status' = [status EXCEPT ![op.phase] = "running"]
    BY <1>9 DEF LaunchPhase, OpOK, TodoOK
  <2> QED
    BY <1>s, <2>1 DEF SuccessKept, PassedMeansSucceeded, Running
<1>10. ASSUME NEW p \in Phases, WorkerSucceeds(p) \/ WorkerFails(p) PROVE Goal
  <2>1. PICK res \in {"succeeded", "failed"}, k \in FailureKinds, g \in BOOLEAN :
          CompleteBegin(p, res, k, g)
    BY <1>10, WorkerCases
  <2>2. op.pc = "free" /\ attempt[p].status = "running" /\ UNCHANGED status
    BY <2>1 DEF CompleteBegin, Free, phaseVars
  <2>3. Written(p, attempt[p].n, "completed", res)
    BY <2>1, CompleteWrites
  <2>4. status[p] = "running"
    BY <2>2 DEF SuccessKept, Running
  <2> QED
    BY <2>2, <2>3, <2>4 DEF Written, SuccessKept, PassedMeansSucceeded, Running
<1>11. ASSUME SettlePhase PROVE Goal
  <2> DEFINE st == [status EXCEPT ![op.phase] = SettledStatus(op.phase)]
  <2>1. /\ op.pc = "settle" /\ op.phase \in Phases /\ UNCHANGED attempt
        /\ attempt[op.phase].status = "completed" /\ attempt[op.phase].result \in {"succeeded", "failed"}
        /\ status' = RefreshedStatus(st, op.run)
    BY <1>11 DEF SettlePhase, OpOK, Unaccepted, RefreshFrom
  <2>2. \A q \in Phases : q # op.phase => st[q] = status[q]
    BY <1>s
  <2>3. st[op.phase] = IF attempt[op.phase].result = "succeeded" THEN "passed" ELSE "failed"
    BY <1>s, <2>1 DEF SettledStatus
  <2> HIDE DEF st
  <2>4. \A q \in Phases : /\ status'[q] = "passed" <=> st[q] = "passed"
                          /\ status'[q] = "running" <=> st[q] = "running"
    BY <2>1, RefreshKeepsPassed, RefreshKeepsRunning
  <2> QED
    BY <2>1, <2>2, <2>3, <2>4 DEF SuccessKept, PassedMeansSucceeded, Running
<1>12. ASSUME SettleForRetry PROVE Goal
  <2>1. /\ op.phase \in Phases /\ UNCHANGED attempt /\ op.pc = "settle"
        /\ attempt[op.phase].status = "completed" /\ attempt[op.phase].result = "failed"
        /\ status' = [status EXCEPT ![op.phase] = "failed"]
    BY <1>12 DEF SettleForRetry, OpOK
  <2> QED
    BY <1>s, <2>1 DEF SuccessKept, PassedMeansSucceeded, Running
<1>13. ASSUME RequeuePhase PROVE Goal
  <2> DEFINE st == [status EXCEPT ![op.phase] = "ready"]
  <2>1. /\ op.pc = "requeue" /\ op.phase \in Phases /\ UNCHANGED attempt
        /\ attempt[op.phase].status = "completed" /\ status[op.phase] = "failed"
        /\ status' = RefreshedStatus(st, op.run)
    BY <1>13 DEF RequeuePhase, OpOK, Unaccepted, RefreshFrom
  <2>2. /\ \A q \in Phases : q # op.phase => st[q] = status[q]
        /\ st[op.phase] = "ready"
    BY <1>s, <2>1
  <2> HIDE DEF st
  <2>3. PassedSame /\ RunningSame
    BY <2>1, <2>2, RefreshKeepsPassed, RefreshKeepsRunning DEF PassedSame, RunningSame
  <2> QED
    BY <2>1, <2>3, SuccessStays
<1> QED
  BY <1>2, <1>3, <1>4, <1>5, <1>6, <1>7, <1>8, <1>9, <1>10, <1>11, <1>12, <1>13
     DEF InsideStep, TickSteps, CompleteSteps

-----------------------------------------------------------------------------
(* The crash and the scan.                                                 *)

\* In the beginning nothing was cut short.
LEMMA InitCrash == CrashInit => CrashInv
<1> SUFFICES ASSUME CrashInit PROVE CrashInv
  OBVIOUS
<1>1. Init /\ up
  BY DEF CrashInit
<1>2. PlanInv
  BY <1>1, InitPlan
<1>3. \A p \in Phases : attempt[p].status = "none" /\ attempt[p].result = "none" /\ status[p] = "draft"
  BY <1>1 DEF Init, NoAttempt
<1> QED
  BY <1>1, <1>2, <1>3
     DEF CrashInv, PlanInv, LockInv, ResultOK, CrashOp, SuccessKept, Running, PassedMeansSucceeded

\* A crash leaves the tables as they are.
LEMMA CrashKeeps == ASSUME CrashInv, Crash PROVE CrashInv'
<1>1. /\ op' = Free /\ op'.pc = "free" /\ up' = FALSE
      /\ UNCHANGED <<runStatus, lease, status, count, failure, older, attempt, locks>>
  BY DEF Crash, Free, phaseVars
<1>2. TypeOK'
  BY <1>1 DEF CrashInv, Crash, TypeOK, Free, Steps
<1>3. CrashOp' /\ LockKey' /\ HoldsLocks' /\ TodoOK'
  BY <1>1 DEF CrashInv, CrashOp, LockKey, HoldsLocks, Running, HasRow, TodoOK, TickPc
<1>4. Unaccepted' /\ DependenciesHold' /\ SuccessKept' /\ PassedMeansSucceeded'
  BY <1>1 DEF CrashInv, Unaccepted, HasActiveAttempt, DependenciesHold, SuccessKept, PassedMeansSucceeded
<1> QED
  BY <1>2, <1>3, <1>4 DEF CrashInv

\* What the interruption of an attempt writes.
LEMMA InterruptWrites ==
  ASSUME TypeOK, NEW p \in Phases, InterruptAttempt(p)
  PROVE  Written(p, attempt[p].n, "completed", "lost") /\ attempt' \in [Phases -> AttemptRow]
<1>1. attempt[p] \in AttemptRow /\ (attempt[p].resumed \/ attempt[p].marker) \in BOOLEAN
  BY DEF TypeOK
<1>2. attempt' = [attempt EXCEPT ![p] =
        [attempt[p] EXCEPT !.status = "completed", !.result = "lost", !.kind = "transient",
            !.resumed = attempt[p].resumed \/ attempt[p].marker]]
  BY DEF InterruptAttempt, TypeOK
<1>3. [attempt[p] EXCEPT !.status = "completed", !.result = "lost", !.kind = "transient",
            !.resumed = attempt[p].resumed \/ attempt[p].marker] \in AttemptRow
  BY <1>1 DEF AttemptRow, Results, FailureKinds
<1> QED
  BY <1>1, <1>2, <1>3 DEF TypeOK, AttemptRow, Written

\* The scan closes attempts and gives their phases back; it accepts nothing.
LEMMA InterruptKeeps ==
  ASSUME CrashInv, (\E p \in Phases : InterruptAttempt(p)) \/ InterruptPhase \/ InterruptRelease
  PROVE  CrashInv'
<1>o. op \in [pc : Steps, run : Runs \cup {NoRun}, phase : Phases \cup {NoPhase}, todo : SUBSET Phases]
  BY DEF CrashInv, TypeOK
<1>d. \A p \in Phases : Deps[p] \subseteq Phases
  BY ConstantsAssumption
<1> USE DEF TickPc, DonePc, Running, HasActiveAttempt
<1>1. ASSUME NEW p \in Phases, InterruptAttempt(p) PROVE CrashInv'
  <2>1. /\ ~up /\ HasActiveAttempt(p) /\ UNCHANGED <<up, runVars, status, count, failure, older, locks>>
        /\ op' = Holding("lost_phase", RunOf[p], p, {}) /\ op'.pc = "lost_phase" /\ op'.phase = p
    BY <1>1 DEF InterruptAttempt, Holding, phaseVars
  <2>2. Written(p, attempt[p].n, "completed", "lost") /\ attempt' \in [Phases -> AttemptRow]
    BY <1>1, InterruptWrites DEF CrashInv
  <2>3. attempt[p].result = "none" /\ status[p] # "passed"
    BY <2>1 DEF CrashInv, Unaccepted
  <2>4. TypeOK'
    <3>1. RunOf[p] \in Runs
      BY ConstantsAssumption
    <3> QED
      BY <2>1, <2>2, <3>1 DEF CrashInv, TypeOK, Holding, Steps, runVars, control
  <2>5. CrashOp' /\ LockKey' /\ TodoOK'
    BY <2>1, <2>2 DEF CrashInv, CrashOp, LockKey, TodoOK, Written
  <2>6. HoldsLocks'
    BY <2>1, <2>2 DEF CrashInv, HoldsLocks, HasRow, Written
  <2>7. Unaccepted' /\ DependenciesHold'
    BY <2>1, <2>2 DEF CrashInv, Unaccepted, DependenciesHold, Written
  <2>8. SuccessKept' /\ PassedMeansSucceeded'
    BY <2>1, <2>2, <2>3 DEF CrashInv, SuccessKept, PassedMeansSucceeded, Written
  <2> QED
    BY <2>4, <2>5, <2>6, <2>7, <2>8 DEF CrashInv
<1>2. ASSUME InterruptPhase PROVE CrashInv'
  <2>1. op # Free /\ op.pc = "lost_phase" /\ op'.pc = "lost_release" /\ op'.phase = op.phase
    BY <1>2, <1>o DEF InterruptPhase, Free
  <2>2. /\ ~up /\ op.phase \in Phases
        /\ attempt[op.phase].status = "completed" /\ attempt[op.phase].result = "lost"
    BY <2>1 DEF CrashInv, CrashOp, OpOK
  <2>3. /\ UNCHANGED <<up, runVars, count, older, attempt, locks>>
        /\ \A q \in Phases : q # op.phase => status'[q] = status[q]
        /\ status' \in [Phases -> PhaseStatuses] /\ failure' \in [Phases -> FailureKinds]
        /\ status[op.phase] # "passed" /\ status'[op.phase] # "passed"
    <3>1. status[op.phase] # "passed"
      BY <2>2 DEF CrashInv, PassedMeansSucceeded
    <3> QED
      BY <1>2, <2>2, <3>1 DEF InterruptPhase, CrashInv, TypeOK, PhaseStatuses, FailureKinds, crashVars
  <2>4. TypeOK'
    BY <1>2, <1>o, <2>1, <2>3 DEF InterruptPhase, CrashInv, TypeOK, Steps, runVars, control
  <2>5. CrashOp' /\ LockKey' /\ TodoOK' /\ HoldsLocks'
    BY <2>1, <2>2, <2>3 DEF CrashInv, CrashOp, LockKey, TodoOK, HoldsLocks, HasRow, Free
  <2>6. Unaccepted' /\ DependenciesHold'
    BY <1>d, <2>1, <2>2, <2>3 DEF CrashInv, Unaccepted, DependenciesHold
  <2>7. SuccessKept' /\ PassedMeansSucceeded'
    BY <2>2, <2>3 DEF CrashInv, SuccessKept, PassedMeansSucceeded
  <2> QED
    BY <2>4, <2>5, <2>6, <2>7 DEF CrashInv
<1>3. ASSUME InterruptRelease PROVE CrashInv'
  <2>1. op # Free /\ op.pc = "lost_release" /\ op' = Free /\ op'.pc = "free"
    BY <1>3 DEF InterruptRelease, Free
  <2>2. ~up /\ op.phase \in Phases /\ attempt[op.phase].status = "completed"
    BY <2>1 DEF CrashInv, CrashOp, OpOK
  <2>3. /\ UNCHANGED <<up, runVars, status, count, failure, older, attempt>>
        /\ locks' = locks \ {row \in locks : row.phase = op.phase /\ row.n = attempt[op.phase].n}
    BY <1>3 DEF InterruptRelease, OwnLocks, phaseVars, crashVars
  <2>4. TypeOK'
    BY <2>1, <2>3 DEF CrashInv, TypeOK, Free, Steps, runVars, control
  <2>5. CrashOp' /\ LockKey' /\ TodoOK' /\ HoldsLocks'
    BY <2>1, <2>2, <2>3 DEF CrashInv, CrashOp, LockKey, TodoOK, HoldsLocks, HasRow
  <2>6. Unaccepted' /\ DependenciesHold' /\ SuccessKept' /\ PassedMeansSucceeded'
    BY <2>1, <2>2, <2>3 DEF CrashInv, Unaccepted, DependenciesHold, SuccessKept, PassedMeansSucceeded
  <2> QED
    BY <2>4, <2>5, <2>6 DEF CrashInv
<1> QED
  BY <1>1, <1>2, <1>3

\* The end of the scan, and the user's answers, write flags and statuses of runs only.
LEMMA ScanKeeps ==
  ASSUME CrashInv,
         (\E r \in Runs : ScanOffers(r) \/ ResolveResume(r) \/ ResolveCancel(r)) \/ ScanWithoutOffer
  PROVE  CrashInv'
<1> DEFINE Idle == op = Free /\ UNCHANGED <<phaseVars, attempt, locks, op>>
           Ups == up' /\ (up \/ \A p \in Phases : ~HasActiveAttempt(p))
           Types == /\ runStatus' \in [Runs -> RunStatuses] /\ lease' \in [Runs -> Lease]
                    /\ driver' \in [Runs -> BOOLEAN] /\ UNCHANGED <<slot, stopping, stopWrite>>
<1>0. Idle /\ Ups /\ Types
  <2> USE DEF CrashInv, TypeOK, RunStatuses, Lease, control, CallersDrive, Loaded
  <2>1. ASSUME NEW r \in Runs, ScanOffers(r) PROVE Idle /\ Ups /\ Types
    <3>1. Idle /\ Ups
      BY <2>1 DEF ScanOffers, phaseVars
    <3>2. lease[r] \in Lease
      OBVIOUS
    <3>3. Types
      BY <2>1, <3>2 DEF ScanOffers
    <3> QED
      BY <3>1, <3>3
  <2>2. ASSUME NEW r \in Runs, ResolveResume(r) PROVE Idle /\ Ups /\ Types
    <3>1. Idle /\ Ups
      BY <2>2 DEF ResolveResume
    <3>2. lease[r] \in Lease
      OBVIOUS
    <3>3. Types
      BY <2>2, <3>2 DEF ResolveResume
    <3> QED
      BY <3>1, <3>3
  <2>3. ASSUME NEW r \in Runs, ResolveCancel(r) PROVE Idle /\ Ups /\ Types
    <3>1. Idle /\ Ups
      BY <2>3 DEF ResolveCancel
    <3>2. lease[r] \in Lease
      OBVIOUS
    <3>3. Types
      BY <2>3, <3>2 DEF ResolveCancel
    <3> QED
      BY <3>1, <3>3
  <2>4. ASSUME ScanWithoutOffer PROVE Idle /\ Ups /\ Types
    BY <2>4 DEF ScanWithoutOffer, phaseVars
  <2> QED
    BY <2>1, <2>2, <2>3, <2>4
<1>1. op = Free /\ op.pc = "free" /\ up'
      /\ UNCHANGED <<status, count, failure, older, attempt, locks, op>>
  BY <1>0 DEF phaseVars, Free
<1>2. up \/ \A p \in Phases : ~Running(p)
  BY <1>0 DEF HasActiveAttempt, Running
<1>3. TypeOK'
  BY <1>0, <1>1 DEF CrashInv, TypeOK
<1>4. CrashOp' /\ LockKey' /\ HoldsLocks' /\ TodoOK'
  BY <1>1 DEF CrashInv, CrashOp, OpOK, LockKey, HoldsLocks, Running, HasRow, TodoOK, TickPc, DonePc
<1>5. Unaccepted' /\ DependenciesHold' /\ SuccessKept' /\ PassedMeansSucceeded'
  BY <1>1, <1>2 DEF CrashInv, Unaccepted, HasActiveAttempt, Running, DependenciesHold, SuccessKept, PassedMeansSucceeded
<1> QED
  BY <1>3, <1>4, <1>5 DEF CrashInv

\* The scheduler's own steps keep what survives a crash.
LEMMA WorkKeeps == ASSUME CrashInv, Work PROVE CrashInv'
<1>1. up /\ up' /\ OpOK /\ TypeOK
  BY WorkCases DEF CrashInv, CrashOp, crashVars
<1>2. CASE WorkOutside /\ OutsideStep
  <2>1. UNCHANGED <<attempt, locks, op>> /\ TypeOK'
    BY <1>1, <1>2, OutsideUnchanged, OutsideType
  <2>2. PassedSame /\ RunningSame /\ (op.pc = "free" \/ UNCHANGED status)
    BY <1>2, WorkStatus DEF Free
  <2>3. CrashOp' /\ LockKey' /\ HoldsLocks'
    BY <1>1, <2>1 DEF CrashInv, CrashOp, OpOK, LockKey, HoldsLocks, Running, HasRow
  <2>4. TodoOK'
    BY <2>1, <2>2 DEF CrashInv, TodoOK, TickPc, DependenciesPassed
  <2>5. Unaccepted'
    BY <2>1, <2>2 DEF CrashInv, Unaccepted, HasActiveAttempt, PassedSame
  <2>6. DependenciesHold'
    BY <2>1, <2>2, ConstantsAssumption DEF CrashInv, DependenciesHold, HasActiveAttempt, PassedSame
  <2>7. SuccessKept' /\ PassedMeansSucceeded'
    BY <1>1, <2>1, <2>2 DEF CrashInv, SuccessKept, Running, PassedMeansSucceeded, PassedSame, RunningSame
  <2> QED
    BY <2>1, <2>3, <2>4, <2>5, <2>6, <2>7 DEF CrashInv
<1>3. CASE InsideStep
  <2>1. TypeOK' /\ OpOK' /\ LockKey' /\ HoldsLocks'
    BY <1>1, <1>3, InsideLock DEF CrashInv
  <2>2. TodoOK' /\ Unaccepted' /\ DependenciesHold'
    BY <1>1, <1>3, <2>1, InsidePlan DEF CrashInv
  <2>3. SuccessKept' /\ PassedMeansSucceeded'
    BY <1>1, <1>3, InsideSuccess DEF CrashInv
  <2> QED
    BY <1>1, <2>1, <2>2, <2>3 DEF CrashInv, CrashOp
<1> QED
  BY <1>2, <1>3, WorkCases

\* Nothing happens in a stuttering step.
LEMMA StutterKeeps == ASSUME CrashInv, UNCHANGED allVars PROVE CrashInv'
<1>1. UNCHANGED <<vars, crashVars>>
  BY DEF allVars
<1> QED
  BY <1>1 DEF vars, crashVars, CrashInv, TypeOK, CrashOp, OpOK, LockKey, HoldsLocks, Running, HasRow, TodoOK,
     DependenciesPassed, Unaccepted, HasActiveAttempt, DependenciesHold, SuccessKept, PassedMeansSucceeded

(* CrashInv holds whenever and wherever the process dies.                  *)
LEMMA CrashInvariant == CrashSpec => []CrashInv
<1>1. CrashInv /\ [CrashNext]_allVars => CrashInv'
  BY CrashKeeps, InterruptKeeps, ScanKeeps, WorkKeeps, StutterKeeps DEF CrashNext, Recovery, Answer
<1> QED
  BY InitCrash, <1>1, PTL DEF CrashSpec

(* PassedMeansSucceeded: a phase counts as passed only on the success of   *)
(* its latest attempt, whatever was cut short.                             *)
THEOREM CompletionNeverGuessed == CrashSpec => []PassedMeansSucceeded
<1>1. CrashInv => PassedMeansSucceeded
  BY DEF CrashInv
<1> QED
  BY CrashInvariant, <1>1, PTL

(* WriteExclusion, across crashes: the lock rows left behind by a crash    *)
(* never let two agents at one write root.                                 *)
THEOREM WritersExcludeAcrossCrashes == CrashSpec => []WriteExclusion
<1>1. CrashInv => WriteExclusion
  BY LocksExclude DEF CrashInv
<1> QED
  BY CrashInvariant, <1>1, PTL

-----------------------------------------------------------------------------
(* The scheduler still implements the board.                               *)

\* Every step, a crash or a step of the scan included, maps to a step of the board or to a stutter.
LEMMA CrashBoardMoves ==
  ASSUME CrashInv, CrashInv', [CrashNext]_allVars
  PROVE  [Board!BoardNext]_(Board!boardVars)
<1>p. TypeOK /\ LockKey /\ TodoOK /\ Unaccepted /\ DependenciesHold /\ SuccessKept /\ PassedMeansSucceeded
  BY DEF CrashInv
<1>1. CASE Work
  <2>1. up /\ OpOK
    BY <1>1, WorkCases DEF CrashInv, CrashOp
  <2>2. CASE WorkOutside /\ OutsideStep
    BY <2>2, OutsideUnchanged, WorkStatus, BoardStays
  <2>3. CASE InsideStep
    <3>1. TodoUndone
      <4>1. op.todo \subseteq Phases
        BY <1>p DEF TypeOK
      <4> QED
        BY <1>p, <4>1 DEF TodoUndone, TodoOK, SuccessKept
    <3>2. WriteExclusion'
      <4>1. HoldsLocks' /\ LockKey'
        BY DEF CrashInv
      <4> QED
        BY <4>1, LocksExclude, PTL
    <3> QED
      BY <1>p, <2>1, <2>3, <3>1, <3>2, BoardMoves
  <2> QED
    BY <1>1, <2>2, <2>3, WorkCases
<1>2. ASSUME NEW p \in Phases, InterruptAttempt(p) PROVE Board!BoardNext \/ UNCHANGED Board!boardVars
  <2>1. HasActiveAttempt(p) /\ attempt[p].result = "none" /\ UNCHANGED status
    BY <1>p, <1>2 DEF InterruptAttempt, Unaccepted, phaseVars
  <2>2. Written(p, attempt[p].n, "completed", "lost")
    BY <1>p, <1>2, InterruptWrites
  <2>3. /\ Working' = Working \ {p} /\ Finished' = Finished /\ PassedPhases' = PassedPhases
    BY <2>1, <2>2 DEF Written, Working, Finished, PassedPhases
  <2>4. CASE p \in Working
    BY <2>3, <2>4 DEF Board!BoardNext, Board!GiveUp, Working, Finished, PassedPhases
  <2>5. CASE p \notin Working
    BY <2>3, <2>5 DEF Board!boardVars, Working, Finished, PassedPhases
  <2> QED
    BY <2>4, <2>5
<1>3. ASSUME InterruptPhase PROVE UNCHANGED attempt /\ PassedSame
  <2>1. op # Free /\ op.pc = "lost_phase"
    BY <1>3 DEF InterruptPhase, Free
  <2>2. op.phase \in Phases /\ attempt[op.phase].result = "lost"
    BY <2>1 DEF CrashInv, CrashOp, OpOK, TickPc, DonePc
  <2>3. status[op.phase] # "passed"
    BY <1>p, <2>2 DEF PassedMeansSucceeded
  <2> QED
    BY <1>p, <1>3, <2>3 DEF InterruptPhase, PassedSame, TypeOK
<1>4. ASSUME UNCHANGED <<attempt, status>> PROVE UNCHANGED attempt /\ PassedSame
  BY <1>4 DEF PassedSame
<1>5. CASE Crash \/ InterruptRelease \/ ScanWithoutOffer
           \/ (\E r \in Runs : ScanOffers(r) \/ ResolveResume(r) \/ ResolveCancel(r)) \/ UNCHANGED allVars
  BY <1>4, <1>5, BoardStays
     DEF Crash, InterruptRelease, ScanWithoutOffer, ScanOffers, ResolveResume, ResolveCancel, allVars, vars, phaseVars
<1> QED
  BY <1>1, <1>2, <1>3, <1>5, BoardStays DEF CrashNext, Recovery, Answer

(* ImplementsBoard, across crashes: an agent's success is accepted once or *)
(* never, and never redone, wherever the process dies.                     *)
THEOREM CrashImplementsBoard == CrashSpec => ImplementsBoard
<1>1. CrashInit => Board!BoardInit
  BY DEF CrashInit, Init, NoAttempt, Board!BoardInit
<1>2. CrashInv /\ CrashInv' /\ [CrashNext]_allVars => [Board!BoardNext]_(Board!boardVars)
  BY CrashBoardMoves
<1> QED
  BY CrashInvariant, <1>1, <1>2, PTL DEF CrashSpec, ImplementsBoard, Board!BoardSpec

-----------------------------------------------------------------------------
(* The user is asked first.  The scan makes an offer for one run, so this  *)
(* is about a single run.                                                  *)

\* The columns of the offers.
OfferInv ==
  /\ offer \in [Runs -> {"none", "pending", "resumed", "cancelled"}]
  /\ crashes \in Nat /\ found \subseteq Runs
  /\ AskedInv

\* In the beginning nothing crashed.
LEMMA InitOffer == CrashInit => OfferInv /\ OpRunInv
BY DEF CrashInit, Init, OfferInv, AskedInv, OpRunInv, Free, TickPc

\* After a crash work starts no supervisor, and takes no run out of its end.
LEMMA WorkRuns ==
  ASSUME TypeOK, Work, crashes > 0, crashes \in Nat, NEW r \in Runs
  PROVE  /\ driver'[r] => driver[r]
         /\ runStatus'[r] = runStatus[r] \/ runStatus'[r] \in EndedForTick
<1> DEFINE Goal == /\ driver'[r] => driver[r]
                   /\ runStatus'[r] = runStatus[r] \/ runStatus'[r] \in EndedForTick
<1> USE DEF TypeOK, EndedForTick, runVars, control
<1>1. ASSUME UNCHANGED <<runStatus, driver>> PROVE Goal
  BY <1>1
<1>2. ASSUME NEW p \in Phases, RefuseRoute(p) PROVE Goal
  BY <1>2 DEF RefuseRoute
<1>3. ASSUME NEW p \in Phases, SkipPhase(p) \/ DenyStart(p) \/ InsertAttempt(p) PROVE Goal
  BY <1>1, <1>3 DEF SkipPhase, DenyStart, InsertAttempt
<1>4. CASE TickEnd \/ BumpCount \/ AcquireLocks \/ LockContended \/ MarkRunning \/ LaunchPhase
  BY <1>1, <1>4 DEF TickEnd, BumpCount, AcquireLocks, LockContended, MarkRunning, LaunchPhase
<1>5. CASE CompleteSteps
  BY <1>1, <1>5 DEF CompleteSteps, ReleaseLocks, SettlePhase, SettleForRetry, RequeuePhase
<1>6. ASSUME NEW p \in Phases, WorkerSucceeds(p) \/ WorkerFails(p) PROVE Goal
  BY <1>1, <1>6 DEF WorkerSucceeds, WorkerFails, CompleteBegin
<1>7. ASSUME NEW s \in Runs, TickPaused(s) \/ TickBegin(s) \/ RequestStop(s) PROVE Goal
  BY <1>1, <1>7 DEF TickPaused, TickBegin, RequestStop
<1>8. ASSUME NEW s \in Runs, WriteCancelling(s) PROVE Goal
  BY <1>8 DEF WriteCancelling
<1> QED
  BY <1>2, <1>3, <1>4, <1>5, <1>6, <1>7, <1>8 DEF Work, TickSteps, StopSteps

\* Work begins a tick of a run whose execution is allowed, and of no other.
LEMMA WorkTick ==
  ASSUME TypeOK, Work, op'.pc \in TickPc, op.pc \notin TickPc
  PROVE  \E r \in Runs : ExecutionAllowed(r) /\ TickBegin(r) /\ op'.run = r
<1> USE DEF TickPc
<1>1. ASSUME NEW p \in Phases, SkipPhase(p) \/ DenyStart(p) \/ RefuseRoute(p) \/ InsertAttempt(p) PROVE FALSE
  BY <1>1 DEF SkipPhase, DenyStart, RefuseRoute, InsertAttempt, Scanning
<1>2. CASE TickEnd \/ BumpCount \/ AcquireLocks \/ LockContended \/ MarkRunning \/ LaunchPhase
  BY <1>2 DEF TickEnd, BumpCount, AcquireLocks, LockContended, MarkRunning, LaunchPhase
<1>3. CASE CompleteSteps
  <2>1. op \in [pc : Steps, run : Runs \cup {NoRun}, phase : Phases \cup {NoPhase}, todo : SUBSET Phases]
    BY DEF TypeOK
  <2> QED
    BY <1>3, <2>1 DEF CompleteSteps, ReleaseLocks, SettlePhase, SettleForRetry, RequeuePhase, Free
<1>4. ASSUME NEW p \in Phases, WorkerSucceeds(p) \/ WorkerFails(p) PROVE FALSE
  <2>1. \E res \in {"succeeded", "failed"}, k \in FailureKinds, g \in BOOLEAN : CompleteBegin(p, res, k, g)
    BY <1>4, WorkerCases
  <2> QED
    BY <2>1 DEF CompleteBegin, Holding
<1>5. ASSUME NEW r \in Runs, LoadPlan(r) \/ FinishRun(r) \/ CancelObserved(r) \/ RequestStop(r)
                             \/ WriteCancelling(r) \/ TickPaused(r)
      PROVE  FALSE
  BY <1>5 DEF LoadPlan, FinishRun, CancelObserved, RequestStop, WriteCancelling, TickPaused
<1>6. ASSUME NEW r \in Runs, TickBegin(r) PROVE op'.run = r
  BY <1>6 DEF TickBegin, Holding
<1> QED
  BY <1>1, <1>2, <1>3, <1>4, <1>5, <1>6 DEF Work, TickSteps, StopSteps

\* After a crash a run is driven only once it was offered, and ticks only once it was resumed.
LEMMA OfferStep ==
  ASSUME \A r, s \in Runs : r = s, CrashInv, OfferInv, OpRunInv, [CrashNext]_allVars
  PROVE  OfferInv' /\ OpRunInv'
<1> USE DEF OfferInv, AskedInv, EndedForTick
<1>1. CASE Crash
  BY <1>1 DEF Crash, Free, TickPc, OpRunInv
<1>2. ASSUME NEW p \in Phases, InterruptAttempt(p) PROVE OfferInv' /\ OpRunInv'
  BY <1>2, ConstantsAssumption DEF InterruptAttempt, Holding, TickPc, OpRunInv, PhasesOf, runVars, control
<1>3. CASE InterruptPhase
  <2>1. /\ op'.pc = "lost_release" /\ op'.run = op.run /\ op'.phase = op.phase /\ op'.todo = op.todo
        /\ op.pc = "lost_phase" /\ UNCHANGED <<runVars, crashVars>>
    BY <1>3 DEF InterruptPhase, CrashInv, TypeOK
  <2> QED
    BY <2>1 DEF OpRunInv, PhasesOf, TickPc, runVars, control, crashVars
<1>4. CASE InterruptRelease
  BY <1>4 DEF InterruptRelease, Free, OpRunInv, TickPc, runVars, control, crashVars
<1>5. ASSUME NEW r \in Runs, ScanOffers(r) PROVE OfferInv' /\ OpRunInv'
  BY <1>5 DEF ScanOffers, Free, OpRunInv, TickPc
<1>6. CASE ScanWithoutOffer
  <2>1. /\ UNCHANGED <<runStatus, offer, crashes, op, found>> /\ op.pc = "free"
        /\ driver' = CallersDrive /\ \A r \in Runs : ~Offered(r)
    BY <1>6 DEF ScanWithoutOffer, Free
  <2>2. \A r \in Runs : Loaded(r) => runStatus[r] \in EndedForTick
    <3> SUFFICES ASSUME NEW r \in Runs, Loaded(r), runStatus[r] \notin EndedForTick PROVE Offered(r)
      BY <2>1
    <3>1. CASE found = {}
      BY <3>1 DEF Offered, Recoverable, Loaded, EndedRun, CrashInv, TypeOK, RunStatuses
    <3>2. CASE found # {}
      BY <3>2 DEF Offered
    <3> QED
      BY <3>1, <3>2
  <2> QED
    BY <2>1, <2>2 DEF CallersDrive, OpRunInv, TickPc
<1>7. ASSUME NEW r \in Runs, ResolveResume(r) \/ ResolveCancel(r) PROVE OfferInv' /\ OpRunInv'
  BY <1>7 DEF ResolveResume, ResolveCancel, Free, OpRunInv, TickPc, control
<1>8. CASE Work
  <2>1. UNCHANGED crashVars /\ up /\ TypeOK /\ [Next]_vars
    BY <1>8 DEF Work, crashVars, CrashInv, Next, Supervisor
  <2>2. OpRunInv'
    BY <2>1, OpRunStep
  <2>3. ASSUME NEW r \in Runs, crashes > 0, driver'[r], runStatus'[r] \notin EndedForTick
        PROVE  offer[r] # "none"
    BY <1>8, <2>1, <2>3, WorkRuns
  <2>4. ASSUME crashes > 0, op'.pc \in TickPc PROVE offer[op'.run] = "resumed"
    <3>1. CASE op.pc \in TickPc
      <4>1. op \in [pc : Steps, run : Runs \cup {NoRun}, phase : Phases \cup {NoPhase}, todo : SUBSET Phases]
        BY <2>1 DEF TypeOK
      <4>2. op'.run = op.run
        BY <2>1, <2>4, <3>1, <4>1, NextOpMoves DEF OpMoves, Rest, Holding, TickBegin, MayTick, Free, TickPc, DonePc
      <4> QED
        BY <2>4, <3>1, <4>2
    <3>2. CASE op.pc \notin TickPc
      <4>1. PICK r \in Runs : ExecutionAllowed(r) /\ TickBegin(r) /\ op'.run = r
        BY <1>8, <2>1, <2>4, <3>2, WorkTick
      <4>2. offer[r] # "none"
        BY <2>1, <2>4, <4>1 DEF TickBegin, MayTick
      <4> QED
        BY <4>1, <4>2 DEF ExecutionAllowed
    <3> QED
      BY <3>1, <3>2
  <2> QED
    BY <2>1, <2>2, <2>3, <2>4 DEF crashVars
<1>9. CASE UNCHANGED allVars
  BY <1>9 DEF allVars, vars, crashVars, OpRunInv, PhasesOf
<1> QED
  BY <1>1, <1>2, <1>3, <1>4, <1>5, <1>6, <1>7, <1>8, <1>9 DEF CrashNext, Recovery, Answer

(* NoStartBeforeChoice: after a restart no attempt of the run is created   *)
(* before the user resumed it, if it is the only run.                      *)
THEOREM NothingStartsUnasked ==
  ASSUME \A r, s \in Runs : r = s
  PROVE  CrashSpec => NoStartBeforeChoice
<1>1. ASSUME CrashInv, OfferInv, OpRunInv, [CrashNext]_allVars
      PROVE  [\A p \in Phases : crashes > 0 /\ attempt'[p].n # attempt[p].n => offer[RunOf[p]] = "resumed"]_allVars
  <2> SUFFICES ASSUME NEW p \in Phases, crashes > 0, attempt'[p].n # attempt[p].n
               PROVE  offer[RunOf[p]] = "resumed"
    OBVIOUS
  <2>t. TypeOK
    BY <1>1 DEF CrashInv
  <2>1. ASSUME NEW q \in Phases, InterruptAttempt(q) PROVE FALSE
    BY <2>t, <2>1, InterruptWrites DEF Written
  <2>2. CASE UNCHANGED attempt
    BY <2>2
  <2>3. CASE Work
    <3>1. OpOK /\ [Next]_vars
      BY <1>1, <2>3 DEF Work, CrashInv, CrashOp, Next, Supervisor
    <3>2. InsertAttempt(p)
      BY <2>t, <3>1, RowMoves
    <3> QED
      BY <1>1, <3>2 DEF InsertAttempt, Scanning, OpRunInv, OfferInv, AskedInv, TickPc, PhasesOf
  <2> QED
    BY <1>1, <2>1, <2>2, <2>3
       DEF CrashNext, Recovery, Answer, Crash, InterruptPhase, InterruptRelease, ScanOffers, ScanWithoutOffer,
           ResolveResume, ResolveCancel, allVars, vars
<1>2. CrashInv /\ OfferInv /\ OpRunInv /\ [CrashNext]_allVars => OfferInv' /\ OpRunInv'
  BY OfferStep
<1> QED
  BY CrashInvariant, InitOffer, <1>1, <1>2, PTL DEF CrashSpec, NoStartBeforeChoice
=============================================================================
