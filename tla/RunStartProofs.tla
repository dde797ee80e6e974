--------------------------- MODULE RunStartProofs ---------------------------
(***************************************************************************)
(* Theorems about RunStart, for any number of sources, runs, edits and     *)
(* presses of Stop, and for any faults.                                    *)
(***************************************************************************)
EXTENDS RunStart, TLAPS

(***************************************************************************)
(* Types                                                                   *)
(***************************************************************************)
\* The places of a supervisor: before it looks at a source, until it has compared one, until it
\* asks the architect, and while it has an answer to wait for or to keep.
Early == {"none", "preflight", "check_preflight", "announce", "check_started", "preflighting"}
Copying == Early \cup Reading \cup {"fingerprint"}
Materialized == {"manifest", "materialized", "check_materialized", "planning", "probe"}
Asked == {"asking", "bootstrap", "artifacts", "checkpoint", "rewrite"}

\* The source a supervisor is at and the attempts it has made, by its place.
Counts(r) ==
  /\ sup[r].at \in Early => sup[r].source = 1
  /\ sup[r].at \in Reading \cup {"fingerprint"} => sup[r].source <= Sources
  /\ sup[r].at \in Copying \cup Materialized => sup[r].attempt = 0
  /\ sup[r].at = "ask" => sup[r].attempt <= 1
  /\ sup[r].at \in Asked => sup[r].attempt \in 1..2

TypeInv == RunStartTypeOK /\ \A r \in Runs : Counts(r)

\* The supervisor of a run is one, and its source and the run's root are what they should be.
LEMMA SupervisorType ==
  ASSUME TypeInv, NEW r \in Runs
  PROVE  /\ sup \in [Runs -> Supervisors] /\ sup[r] \in Supervisors
         /\ sup[r].at \in Steps /\ sup[r].source \in 1..Sources + 1 /\ sup[r].before \in Fingerprints
         /\ sup[r].attempt \in 0..2 /\ sup[r].plan \in Plans
         /\ Root(r) \in Roots /\ r \in Int
BY RunStartAssumption DEF TypeInv, RunStartTypeOK, Supervisors, Root, Roots, Runs

\* A step that replaces the thread of one run.
LEMMA ThreadReplaced ==
  ASSUME NEW r \in Runs, NEW t \in Supervisors, sup \in [Runs -> Supervisors],
         sup' = [sup EXCEPT ![r] = t]
  PROVE  /\ sup' \in [Runs -> Supervisors] /\ sup'[r] = t
         /\ \A q \in Runs : q # r => sup'[q] = sup[q]
OBVIOUS

\* A thread that has not begun has the type of a thread.
LEMMA NoThreadType ==
  NoThread \in Supervisors /\ NoThread.at = "none" /\ NoThread.source = 1 /\ NoThread.attempt = 0
<1>1. "none" \in Steps /\ 0 \in Plans /\ 1 \in 1..Sources + 1 /\ NoFingerprints \in Fingerprints
  BY RunStartAssumption DEF Steps, Plans, NoFingerprints, Fingerprints
<1> QED
  BY <1>1 DEF NoThread, Supervisors

\* A supervisor goes to its next place, and the others stay where they are.
LEMMA GoesAt ==
  ASSUME TypeInv, NEW r \in Runs, NEW step \in Steps, sup' = Goes(r, step)
  PROVE  /\ sup' \in [Runs -> Supervisors] /\ \A q \in Runs : q # r => sup'[q] = sup[q]
         /\ sup'[r].at = step
         /\ step # "done" => /\ sup'[r].source = sup[r].source /\ sup'[r].before = sup[r].before
                            /\ sup'[r].attempt = sup[r].attempt /\ sup'[r].plan = sup[r].plan
<1> DEFINE ended == [NoThread EXCEPT !.at = "done"]
           moved == [sup[r] EXCEPT !.at = step]
<1>1. sup[r] \in Supervisors /\ sup \in [Runs -> Supervisors] /\ NoThread \in Supervisors
  BY SupervisorType, NoThreadType
<1>2. CASE step = "done"
  <2>1. ended \in Supervisors /\ ended.at = "done"
    BY <1>1, <1>2 DEF Supervisors
  <2>2. sup' = [sup EXCEPT ![r] = ended]
    BY <1>2 DEF Goes
  <2> QED
    BY <1>1, <1>2, <2>1, <2>2, ThreadReplaced
<1>3. CASE step # "done"
  <2>1. moved \in Supervisors
    BY <1>1 DEF Supervisors
  <2>2. sup' = [sup EXCEPT ![r] = moved]
    BY <1>1, <1>3 DEF Goes
  <2>3. sup'[r] = moved /\ sup' \in [Runs -> Supervisors] /\ \A q \in Runs : q # r => sup'[q] = sup[q]
    BY <1>1, <2>1, <2>2, ThreadReplaced
  <2> QED
    BY <1>1, <2>3 DEF Supervisors
<1> QED
  BY <1>2, <1>3

\* What a supervisor whose place alone changes looks like.
LEMMA GoesType ==
  ASSUME TypeInv, NEW r \in Runs, NEW step \in Steps \ {"done"}, sup' = Goes(r, step)
  PROVE  /\ sup' \in [Runs -> Supervisors] /\ \A q \in Runs : q # r => sup'[q] = sup[q]
         /\ sup'[r].at = step
         /\ sup'[r].source = sup[r].source /\ sup'[r].before = sup[r].before
         /\ sup'[r].attempt = sup[r].attempt /\ sup'[r].plan = sup[r].plan
BY GoesAt

\* The pipeline returned without a plan.
LEMMA NoPlanType ==
  ASSUME TypeInv, NEW r \in Runs, sup' = NoPlan(r)
  PROVE  /\ sup' \in [Runs -> Supervisors] /\ \A q \in Runs : q # r => sup'[q] = sup[q]
         /\ sup'[r].at = "publish" /\ sup'[r].plan = 0 /\ sup'[r].source = sup[r].source
         /\ sup'[r].before = sup[r].before /\ sup'[r].attempt = sup[r].attempt
<1> DEFINE t == [sup[r] EXCEPT !.at = "publish", !.plan = 0, !.agent = "none"]
<1>1. sup[r] \in Supervisors /\ sup \in [Runs -> Supervisors]
  BY SupervisorType
<1>2. sup' = [sup EXCEPT ![r] = t]
  BY <1>1 DEF NoPlan
<1>3. t \in Supervisors
  <2>1. "publish" \in Steps /\ 0 \in Plans
    BY DEF Steps, Plans
  <2> QED
    BY <1>1, <2>1 DEF Supervisors
<1>4. sup'[r] = t /\ sup' \in [Runs -> Supervisors] /\ \A q \in Runs : q # r => sup'[q] = sup[q]
  BY <1>1, <1>2, <1>3, ThreadReplaced
<1> QED
  BY <1>1, <1>4 DEF Supervisors

\* A step of one supervisor that leaves the thread of every other keeps what the others count.
LEMMA OthersCount ==
  ASSUME TypeInv, NEW r \in Runs, \A q \in Runs : q # r => sup'[q] = sup[q],
         RunStartTypeOK', Counts(r)'
  PROVE  TypeInv'
BY DEF TypeInv, Counts

\* The same when only its place changes, and what is not of the supervisor keeps its type.
LEMMA GoesKeepsType ==
  ASSUME TypeInv, NEW r \in Runs, NEW step \in Steps, sup' = Goes(r, step),
         UNCHANGED <<commandVars, userVars, version>>,
         status' \in [Runs -> RunStatuses], copied' \in [Roots -> [Sequence -> SUBSET Versions]],
         manifestFile' \in [Roots -> SUBSET Manifests],
         planFile' \in [Roots -> PlanCopies], planCommit' \in [Roots -> PlanCopies],
         lastPlan' \in PlanCopies, workers' \in [Runs -> SUBSET PlanCopies], abandoned' \subseteq Runs,
         scheduled' \in [Runs -> Plans],
         step \in Early => sup[r].source = 1,
         step \in Reading \cup {"fingerprint"} => sup[r].source <= Sources,
         step \in Copying \cup Materialized => sup[r].attempt = 0,
         step = "ask" => sup[r].attempt <= 1,
         step \in Asked => sup[r].attempt \in 1..2
  PROVE  TypeInv'
<1>1. /\ sup' \in [Runs -> Supervisors] /\ \A q \in Runs : q # r => sup'[q] = sup[q]
      /\ sup'[r].at = step
      /\ step # "done" => sup'[r].source = sup[r].source /\ sup'[r].attempt = sup[r].attempt
  BY GoesAt
<1>2. Counts(r)'
  <2>1. CASE step = "done"
    BY <1>1, <2>1 DEF Counts, Early, Reading, Copying, Materialized, Asked
  <2>2. CASE step # "done"
    BY <1>1, <2>2 DEF Counts
  <2> QED
    BY <2>1, <2>2
<1>3. RunStartTypeOK'
  BY <1>1 DEF TypeInv, RunStartTypeOK, commandVars, userVars
<1> QED
  BY <1>1, <1>2, <1>3, OthersCount

\* The same when nothing but the supervisor's place and perhaps a status changes.
LEMMA MoveKeepsType ==
  ASSUME TypeInv, NEW r \in Runs, NEW step \in Steps, sup' = Goes(r, step),
         UNCHANGED <<commandVars, userVars, version, rootVars, memory, scheduled>>,
         status' = status \/ \E s \in RunStatuses : status' = [status EXCEPT ![r] = s],
         step \in Early => sup[r].source = 1,
         step \in Reading \cup {"fingerprint"} => sup[r].source <= Sources,
         step \in Copying \cup Materialized => sup[r].attempt = 0,
         step = "ask" => sup[r].attempt <= 1,
         step \in Asked => sup[r].attempt \in 1..2
  PROVE  TypeInv'
<1>1. /\ status' \in [Runs -> RunStatuses] /\ copied' \in [Roots -> [Sequence -> SUBSET Versions]]
      /\ manifestFile' \in [Roots -> SUBSET Manifests]
      /\ planFile' \in [Roots -> PlanCopies] /\ planCommit' \in [Roots -> PlanCopies]
      /\ lastPlan' \in PlanCopies /\ workers' \in [Runs -> SUBSET PlanCopies] /\ abandoned' \subseteq Runs
      /\ scheduled' \in [Runs -> Plans]
  BY DEF TypeInv, RunStartTypeOK, rootVars, memory
<1> QED
  BY <1>1, GoesKeepsType

\* Places a supervisor may go to whatever it holds.
Free == {"refused", "failed", "cancelled", "cancelled_early", "done", "executing", "publish",
         "compiled", "check_compiled", "execute", "load"}

\* Such a move keeps the types.
LEMMA FreeMoveKeepsType ==
  ASSUME TypeInv, NEW r \in Runs, NEW step \in Free, sup' = Goes(r, step),
         UNCHANGED <<commandVars, userVars, version, rootVars, memory, scheduled>>,
         status' = status \/ \E s \in RunStatuses : status' = [status EXCEPT ![r] = s]
  PROVE  TypeInv'
<1>1. /\ step \in Steps
      /\ step \notin Early \cup Reading \cup {"fingerprint"} \cup Copying \cup Materialized \cup {"ask"} \cup Asked
  BY DEF Free, Steps, Early, Reading, Copying, Materialized, Asked
<1> QED
  BY <1>1, MoveKeepsType

\* Where a supervisor goes after a status or an event.
LEMMA AfterStep ==
  /\ DOMAIN StatusAt = {"preflighting", "planning", "execute", "refused", "failed", "cancelled", "cancelled_early"}
  /\ \A step \in DOMAIN StatusAt : StatusAt[step] \in RunStatuses
  /\ After("announce") = "check_started" /\ After("preflighting") = "fingerprint"
  /\ After("materialized") = "check_materialized" /\ After("planning") = "probe" /\ After("compiled") = "check_compiled" /\ After("execute") = "load"
  /\ After("refused") = "failed" /\ After("failed") = "done" /\ After("cancelled") = "done"
  /\ After("cancelled_early") = "done"
<1>1. DOMAIN StatusAt = {"preflighting", "planning", "execute", "refused", "failed", "cancelled", "cancelled_early"}
  BY DEF StatusAt
<1>2. \A step \in DOMAIN StatusAt : StatusAt[step] \in RunStatuses
  BY <1>1 DEF StatusAt, RunStatuses
<1>3. /\ After("announce") = "check_started" /\ After("preflighting") = "fingerprint"
      /\ After("materialized") = "check_materialized" /\ After("planning") = "probe" /\ After("compiled") = "check_compiled" /\ After("execute") = "load"
      /\ After("refused") = "failed"
  BY DEF After
<1>4. After("failed") = "done" /\ After("cancelled") = "done" /\ After("cancelled_early") = "done"
  BY DEF After
<1> QED
  BY <1>1, <1>2, <1>3, <1>4

\* A status written on the way keeps the types.
LEMMA WriteStatusType == ASSUME TypeInv, NEW r \in Runs, WriteStatus(r) PROVE TypeInv'
<1>1. PICK step \in DOMAIN StatusAt : WriteStatus(r)!(step)
  BY DEF WriteStatus
<1>2. Counts(r) /\ sup[r].at = step /\ StatusAt[step] \in RunStatuses
  BY <1>1, AfterStep DEF TypeInv, Due
<1>3. CASE step = "preflighting"
  <2>1. sup' = Goes(r, "fingerprint") /\ sup[r].source = 1 /\ sup[r].attempt = 0 /\ 1 <= Sources
    BY <1>1, <1>2, <1>3, AfterStep, RunStartAssumption DEF Counts, Early, Copying
  <2>2. "fingerprint" \in Steps \ ({"ask"} \cup Early \cup Asked)
    BY DEF Steps, Early, Asked
  <2> QED
    BY <1>1, <1>2, <2>1, <2>2, MoveKeepsType
<1>4. CASE step = "planning"
  <2>1. sup' = Goes(r, "probe") /\ sup[r].attempt = 0
    BY <1>1, <1>2, <1>4, AfterStep DEF Counts, Materialized
  <2>2. "probe" \in Steps \ ({"ask", "fingerprint"} \cup Early \cup Asked \cup Reading)
    BY DEF Steps, Early, Asked, Reading
  <2> QED
    BY <1>1, <1>2, <2>1, <2>2, MoveKeepsType
<1>5. CASE step \in {"execute", "refused", "failed", "cancelled", "cancelled_early"}
  <2>1. After(step) \in Free
    BY <1>5, AfterStep DEF Free
  <2> QED
    BY <1>1, <1>2, <2>1, FreeMoveKeepsType
<1> QED
  BY <1>3, <1>4, <1>5, AfterStep

\* An event emitted on the way keeps them.
LEMMA EmitEventType == ASSUME TypeInv, NEW r \in Runs, EmitEvent(r) PROVE TypeInv'
<1>1. PICK step \in EventSteps : EmitEvent(r)!(step)
  BY DEF EmitEvent
<1>2. Counts(r) /\ sup[r].at = step
  BY <1>1 DEF TypeInv, Due
<1>3. CASE step = "announce"
  <2>1. sup' = Goes(r, "check_started") /\ sup[r].source = 1 /\ sup[r].attempt = 0
    BY <1>1, <1>2, <1>3, AfterStep DEF Counts, Early, Copying
  <2>2. "check_started" \in Steps \ ({"ask", "fingerprint"} \cup Reading \cup Asked)
    BY DEF Steps, Reading, Asked
  <2> QED
    BY <1>1, <1>2, <2>1, <2>2, MoveKeepsType
<1>4. CASE step = "materialized"
  <2>1. sup' = Goes(r, "check_materialized") /\ sup[r].attempt = 0
    BY <1>1, <1>2, <1>4, AfterStep DEF Counts, Materialized
  <2>2. "check_materialized" \in Steps \ ({"ask", "fingerprint"} \cup Early \cup Reading \cup Asked)
    BY DEF Steps, Early, Reading, Asked
  <2> QED
    BY <1>1, <2>1, <2>2, MoveKeepsType
<1>5. CASE step = "compiled"
  <2>1. sup' = Goes(r, "check_compiled") /\ "check_compiled" \in Free
    BY <1>1, <1>5, AfterStep DEF Free
  <2> QED
    BY <1>1, <2>1, FreeMoveKeepsType
<1> QED
  BY <1>3, <1>4, <1>5 DEF EventSteps

\* So does a write that fails,
LEMMA StoreFailsType == ASSUME TypeInv, NEW r \in Runs, StoreFails(r) PROVE TypeInv'
<1>1. PICK step \in Free : sup' = Goes(r, step)
  BY DEF StoreFails, Free
<1> QED
  BY <1>1, FreeMoveKeepsType DEF StoreFails

\* an event that fails after its status,
LEMMA EventFailsType == ASSUME TypeInv, NEW r \in Runs, EventFails(r) PROVE TypeInv'
<1>1. PICK step \in {"refused", "cancelled"} : EventFails(r)!(step)
  BY DEF EventFails
<1>2. StatusAt[step] \in RunStatuses /\ "failed" \in Free
  BY AfterStep DEF Free
<1> QED
  BY <1>1, <1>2, FreeMoveKeepsType

\* a look at the cancel flag,
LEMMA CheckCancelType == ASSUME TypeInv, NEW r \in Runs, CheckCancel(r) PROVE TypeInv'
<1>1. PICK step \in DOMAIN AfterCheck : CheckCancel(r)!(step)
  BY DEF CheckCancel
<1>2. Counts(r) /\ sup[r].at = step
  BY <1>1 DEF TypeInv, Due
<1>3. step \in {"check_preflight", "check_started", "check_materialized", "check_compiled"}
  BY DEF AfterCheck
<1>4. CASE r \in cancel
  <2>1. PICK to \in Free : sup' = Goes(r, to)
    BY <1>1, <1>4 DEF Free
  <2> QED
    BY <1>1, <2>1, FreeMoveKeepsType
<1>5. CASE r \notin cancel /\ step \in {"check_preflight", "check_started"}
  <2>1. AfterCheck[step] \in {"announce", "preflighting"}
    BY <1>5 DEF AfterCheck
  <2>2. sup' = Goes(r, AfterCheck[step]) /\ sup[r].source = 1 /\ sup[r].attempt = 0
    BY <1>1, <1>2, <1>5 DEF Counts, Early, Copying
  <2>3. AfterCheck[step] \in Steps \ ({"ask", "fingerprint"} \cup Reading \cup Asked)
    BY <2>1 DEF Steps, Reading, Asked
  <2> QED
    BY <1>1, <2>2, <2>3, MoveKeepsType
<1>6. CASE r \notin cancel /\ step = "check_materialized"
  <2>1. sup' = Goes(r, "planning") /\ sup[r].attempt = 0
    BY <1>1, <1>2, <1>6 DEF Counts, Materialized, AfterCheck
  <2>2. "planning" \in Steps \ ({"ask", "fingerprint"} \cup Early \cup Reading \cup Asked)
    BY DEF Steps, Early, Reading, Asked
  <2> QED
    BY <1>1, <2>1, <2>2, MoveKeepsType
<1>7. CASE r \notin cancel /\ step = "check_compiled"
  <2>1. sup' = Goes(r, "execute") /\ "execute" \in Free
    BY <1>1, <1>7 DEF AfterCheck, Free
  <2> QED
    BY <1>1, <2>1, FreeMoveKeepsType
<1> QED
  BY <1>3, <1>4, <1>5, <1>6, <1>7

\* a preflight in the thread,
LEMMA PreflightInThreadType == ASSUME TypeInv, NEW r \in Runs, PreflightInThread(r) PROVE TypeInv'
<1>1. "failed" \in Free
  BY DEF Free
<1> QED
  BY <1>1, FreeMoveKeepsType DEF PreflightInThread

\* a workspace that cannot be made,
LEMMA MaterializeFailsType == ASSUME TypeInv, NEW r \in Runs, MaterializeFails(r) PROVE TypeInv'
<1>1. "failed" \in Free
  BY DEF Free
<1> QED
  BY <1>1, FreeMoveKeepsType DEF MaterializeFails

\* and the end of the execution.
LEMMA EndExecutionType == ASSUME TypeInv, NEW r \in Runs, EndExecution(r) PROVE TypeInv'
<1>1. PICK step \in Free : sup' = Goes(r, step)
  BY DEF EndExecution, SettleExecution, AbandonExecution, CancelExecution, Free
<1>2. step \in Steps /\ step \notin Early \cup Reading \cup {"fingerprint"} \cup Copying \cup Materialized
                                 \cup {"ask"} \cup Asked
  BY DEF Free, Steps, Early, Reading, Copying, Materialized, Asked
<1>3. status' \in [Runs -> RunStatuses]
  <2>1. {"completed", "failed"} \subseteq RunStatuses
    BY DEF RunStatuses
  <2> QED
    BY <2>1 DEF EndExecution, SettleExecution, AbandonExecution, CancelExecution, TypeInv, RunStartTypeOK
<1>4. lastPlan' \in PlanCopies /\ workers' \in [Runs -> SUBSET PlanCopies] /\ abandoned' \subseteq Runs
  BY DEF EndExecution, SettleExecution, AbandonExecution, CancelExecution, TypeInv, RunStartTypeOK, memory
<1>5. UNCHANGED <<commandVars, userVars, version, rootVars, scheduled>>
  BY DEF EndExecution, SettleExecution, AbandonExecution, CancelExecution
<1>6. /\ copied' \in [Roots -> [Sequence -> SUBSET Versions]] /\ manifestFile' \in [Roots -> SUBSET Manifests]
      /\ planFile' \in [Roots -> PlanCopies] /\ planCommit' \in [Roots -> PlanCopies] /\ scheduled' \in [Runs -> Plans]
  BY <1>5 DEF TypeInv, RunStartTypeOK, rootVars
<1> QED
  BY <1>1, <1>2, <1>3, <1>4, <1>5, <1>6, GoesKeepsType

\* The workers leave the supervisors alone.
LEMMA WorkType ==
  ASSUME TypeInv, NEW r \in Runs, Work(r)
  PROVE  /\ TypeInv'
         /\ UNCHANGED <<commandVars, userVars, status, sup, version, copied, manifestFile, abandoned, scheduled>>
<1>1. UNCHANGED <<commandVars, userVars, status, sup, version, copied, manifestFile, abandoned, scheduled>>
  BY DEF Work, SpawnWorker, WorkerProjects, WorkerCommits, WorkerPublishes, WorkerEnds, memory, rootVars
<1>2. lastPlan' \in PlanCopies /\ workers' \in [Runs -> SUBSET PlanCopies]
  BY DEF Work, SpawnWorker, WorkerProjects, WorkerCommits, WorkerPublishes, WorkerEnds, memory, TypeInv, RunStartTypeOK
<1>3. planFile' \in [Roots -> PlanCopies] /\ planCommit' \in [Roots -> PlanCopies]
  BY SupervisorType DEF Work, SpawnWorker, WorkerProjects, WorkerCommits, WorkerPublishes, WorkerEnds, rootVars, TypeInv, RunStartTypeOK
<1> QED
  BY <1>1, <1>2, <1>3 DEF TypeInv, RunStartTypeOK, Counts, commandVars, userVars

(***************************************************************************)
(* Types: the copy of the sources                                          *)
(***************************************************************************)
\* The first look at a source leaves a supervisor that holds its fingerprint.
LEMMA FingerprintTaken ==
  ASSUME TypeInv, NEW r \in Runs, Due(r, "fingerprint"), NEW step \in Reading,
         sup' = [sup EXCEPT ![r].before[sup[r].source] = version[sup[r].source], ![r].at = step]
  PROVE  /\ sup' \in [Runs -> Supervisors] /\ \A q \in Runs : q # r => sup'[q] = sup[q]
         /\ sup[r].source \in Sequence /\ version[sup[r].source] \in Versions
         /\ sup'[r].at = step /\ sup'[r].source = sup[r].source /\ sup'[r].attempt = sup[r].attempt
         /\ sup'[r].before = [sup[r].before EXCEPT ![sup[r].source] = version[sup[r].source]]
<1> DEFINE k == sup[r].source
           b == [sup[r].before EXCEPT ![k] = version[k]]
           t == [sup[r] EXCEPT !.before = b, !.at = step]
<1>1. sup[r] \in Supervisors /\ sup \in [Runs -> Supervisors] /\ sup[r].before \in Fingerprints
  BY SupervisorType
<1>2. k \in Sequence
  <2>1. Counts(r) /\ sup[r].at = "fingerprint"
    BY DEF TypeInv, Due
  <2> QED
    BY <2>1, SupervisorType, RunStartAssumption DEF Counts, Sequence
<1>3. version[k] \in Versions
  BY <1>2 DEF TypeInv, RunStartTypeOK
<1>4. b \in Fingerprints
  BY <1>1, <1>2, <1>3 DEF Fingerprints
<1>5. step \in Steps
  BY DEF Reading, Steps
<1>6. t \in Supervisors
  BY <1>1, <1>4, <1>5 DEF Supervisors
<1>7. sup' = [sup EXCEPT ![r] = t]
  BY <1>1 DEF Supervisors, Fingerprints
<1>8. sup' \in [Runs -> Supervisors] /\ sup'[r] = t /\ \A q \in Runs : q # r => sup'[q] = sup[q]
  BY <1>1, <1>6, <1>7, ThreadReplaced
<1> QED
  BY <1>1, <1>2, <1>3, <1>8 DEF Supervisors

\* The step after it keeps the types.
LEMMA FingerprintTakenType ==
  ASSUME TypeInv, NEW r \in Runs, Due(r, "fingerprint"), NEW step \in Reading,
         sup' = [sup EXCEPT ![r].before[sup[r].source] = version[sup[r].source], ![r].at = step],
         UNCHANGED <<commandVars, userVars, status, version, rootVars, memory, scheduled>>
  PROVE  TypeInv'
<1>1. /\ sup' \in [Runs -> Supervisors] /\ \A q \in Runs : q # r => sup'[q] = sup[q]
      /\ sup[r].source \in Sequence
      /\ sup'[r].at = step /\ sup'[r].source = sup[r].source /\ sup'[r].attempt = sup[r].attempt
  BY FingerprintTaken
<1>2. sup[r].attempt = 0
  BY DEF TypeInv, Counts, Due, Copying
<1>3. step \notin {"ask"} \cup Early \cup Asked
  BY DEF Reading, Early, Asked
<1>4. Counts(r)'
  BY <1>1, <1>2, <1>3, RunStartAssumption DEF Counts, Sequence
<1>5. RunStartTypeOK'
  BY <1>1 DEF TypeInv, RunStartTypeOK, commandVars, userVars, rootVars, memory
<1> QED
  BY <1>1, <1>4, <1>5, OthersCount

\* The first look at notes keeps the types.
LEMMA FingerprintNotesType == ASSUME TypeInv, NEW r \in Runs, FingerprintNotes(r) PROVE TypeInv'
<1>1. CASE RootTaken(r) /\ sup' = Goes(r, "failed")
  <2>1. "failed" \in Free
    BY DEF Free
  <2> QED
    BY <1>1, <2>1, FreeMoveKeepsType DEF FingerprintNotes
<1>2. CASE sup' = [sup EXCEPT ![r].before[sup[r].source] = version[sup[r].source], ![r].at = "compare"]
  <2>1. "compare" \in Reading
    BY DEF Reading
  <2> QED
    BY <1>2, <2>1, FingerprintTakenType DEF FingerprintNotes
<1> QED
  BY <1>1, <1>2 DEF FingerprintNotes

\* The first look at a folder or a repository keeps them.
LEMMA FingerprintType == ASSUME TypeInv, NEW r \in Runs, Fingerprint(r) PROVE TypeInv'
<1>1. FirstRead[kind] \in Reading
  BY DEF Fingerprint, TypeInv, RunStartTypeOK, FirstRead, Reading
<1> QED
  BY <1>1, FingerprintTakenType DEF Fingerprint

\* A supervisor that reads is at one of the sources, and the read has its version.
LEMMA ReadsType ==
  ASSUME TypeInv, NEW r \in Runs, sup[r].at \in Reading, Copies(r)
  PROVE  /\ sup[r].source \in Sequence /\ version[sup[r].source] \in Versions
         /\ copied' \in [Roots -> [Sequence -> SUBSET Versions]]
         /\ copied'[Root(r)] = [copied[Root(r)] EXCEPT ![sup[r].source] = @ \cup {version[sup[r].source]}]
         /\ \A o \in Roots : o # Root(r) => copied'[o] = copied[o]
<1> DEFINE k == sup[r].source
           c == [copied[Root(r)] EXCEPT ![k] = @ \cup {version[k]}]
<1>1. k \in Sequence
  BY SupervisorType, RunStartAssumption DEF TypeInv, Counts, Sequence
<1>2. version[k] \in Versions /\ copied \in [Roots -> [Sequence -> SUBSET Versions]] /\ Root(r) \in Roots
  BY <1>1, SupervisorType DEF TypeInv, RunStartTypeOK
<1>3. c \in [Sequence -> SUBSET Versions]
  BY <1>1, <1>2
<1>4. copied' = [copied EXCEPT ![Root(r)] = c]
  BY <1>2 DEF Copies
<1> QED
  BY <1>1, <1>2, <1>3, <1>4

\* A step that reads and goes on reading, or looks again.
LEMMA ReadingType ==
  ASSUME TypeInv, NEW r \in Runs, sup[r].at \in Reading, Copies(r) \/ copied' = copied,
         sup' = sup \/ \E step \in Reading : sup' = Goes(r, step),
         UNCHANGED <<commandVars, userVars, status, version, manifestFile, planFile, planCommit, memory, scheduled>>
  PROVE  TypeInv'
<1>1. copied' \in [Roots -> [Sequence -> SUBSET Versions]]
  BY ReadsType DEF TypeInv, RunStartTypeOK
<1>2. CASE sup' = sup
  BY <1>1, <1>2 DEF TypeInv, RunStartTypeOK, Counts, commandVars, userVars, memory
<1>3. ASSUME NEW step \in Reading, sup' = Goes(r, step) PROVE TypeInv'
  <2>1. step \in Steps \ ({"ask", "fingerprint"} \cup Early \cup Asked)
    BY DEF Steps, Early, Asked, Reading
  <2>2. sup[r].source <= Sources /\ sup[r].attempt = 0
    BY DEF TypeInv, Counts, Copying
  <2>3. /\ status' \in [Runs -> RunStatuses] /\ manifestFile' \in [Roots -> SUBSET Manifests]
        /\ planFile' \in [Roots -> PlanCopies] /\ planCommit' \in [Roots -> PlanCopies]
        /\ lastPlan' \in PlanCopies /\ workers' \in [Runs -> SUBSET PlanCopies] /\ abandoned' \subseteq Runs
        /\ scheduled' \in [Runs -> Plans]
    BY DEF TypeInv, RunStartTypeOK, memory
  <2> QED
    BY <1>1, <1>3, <2>1, <2>2, <2>3, GoesKeepsType
<1> QED
  BY <1>2, <1>3

\* So does a part of the copy of a folder,
LEMMA CopyFolderType == ASSUME TypeInv, NEW r \in Runs, CopyFolder(r) PROVE TypeInv'
<1>1. sup[r].at \in Reading /\ "compare" \in Reading
  BY DEF CopyFolder, Due, Reading
<1> QED
  BY <1>1, ReadingType DEF CopyFolder

\* the snapshot of a working tree,
LEMMA CaptureDirtyType == ASSUME TypeInv, NEW r \in Runs, CaptureDirty(r) PROVE TypeInv'
<1>1. sup[r].at \in Reading /\ "clone" \in Reading
  BY DEF CaptureDirty, Due, Reading
<1> QED
  BY <1>1, ReadingType DEF CaptureDirty

\* the clone of its commits,
LEMMA CloneSourceType == ASSUME TypeInv, NEW r \in Runs, CloneSource(r) PROVE TypeInv'
<1>1. sup[r].at \in Reading /\ "compare" \in Reading /\ "overlay" \in Reading
  BY DEF CloneSource, Due, Reading
<1> QED
  BY <1>1, ReadingType DEF CloneSource

\* and the overlay of its changes.
LEMMA ApplyOverlayType == ASSUME TypeInv, NEW r \in Runs, ApplyOverlay(r) PROVE TypeInv'
<1>1. sup[r].at \in Reading /\ "compare" \in Reading
  BY DEF ApplyOverlay, Due, Reading
<1> QED
  BY <1>1, ReadingType DEF ApplyOverlay

\* A source is done with: the supervisor is at the next one, or at the manifest.
LEMMA NextSourceType ==
  ASSUME TypeInv, NEW r \in Runs, Due(r, "compare"), sup' = NextSource(r)
  PROVE  /\ sup' \in [Runs -> Supervisors] /\ \A q \in Runs : q # r => sup'[q] = sup[q]
         /\ sup[r].source \in Sequence
         /\ sup'[r].at = (IF sup[r].source = Sources THEN "manifest" ELSE "fingerprint")
         /\ sup'[r].source = sup[r].source + 1 /\ sup'[r].attempt = sup[r].attempt
         /\ sup'[r].before = sup[r].before
<1> DEFINE k == sup[r].source
           to == IF k = Sources THEN "manifest" ELSE "fingerprint"
           t == [sup[r] EXCEPT !.source = k + 1, !.at = to]
<1>1. sup[r] \in Supervisors /\ sup \in [Runs -> Supervisors]
  BY SupervisorType
<1>2. k \in Sequence /\ k + 1 \in 1..Sources + 1
  BY SupervisorType, RunStartAssumption DEF TypeInv, Counts, Due, Reading, Sequence
<1>3. to \in Steps
  BY DEF Steps
<1>4. t \in Supervisors
  BY <1>1, <1>2, <1>3 DEF Supervisors
<1>5. sup' = [sup EXCEPT ![r] = t]
  BY <1>1 DEF NextSource, Supervisors
<1>6. sup' \in [Runs -> Supervisors] /\ sup'[r] = t /\ \A q \in Runs : q # r => sup'[q] = sup[q]
  BY <1>1, <1>4, <1>5, ThreadReplaced
<1> QED
  BY <1>1, <1>2, <1>6 DEF Supervisors

\* The second look keeps the types.
LEMMA CompareSourceType == ASSUME TypeInv, NEW r \in Runs, CompareSource(r) PROVE TypeInv'
<1>1. CASE sup' = Goes(r, "failed")
  <2>1. "failed" \in Free
    BY DEF Free
  <2> QED
    BY <1>1, <2>1, FreeMoveKeepsType DEF CompareSource
<1>2. CASE sup' = NextSource(r)
  <2>1. /\ sup' \in [Runs -> Supervisors] /\ \A q \in Runs : q # r => sup'[q] = sup[q]
        /\ sup[r].source \in Sequence
        /\ sup'[r].at = (IF sup[r].source = Sources THEN "manifest" ELSE "fingerprint")
        /\ sup'[r].source = sup[r].source + 1 /\ sup'[r].attempt = sup[r].attempt
    BY <1>2, NextSourceType DEF CompareSource
  <2>2. sup[r].attempt = 0
    BY DEF CompareSource, Due, TypeInv, Counts, Copying, Reading
  <2>3. sup'[r].at \notin {"ask"} \cup Early \cup Asked \cup Reading
    BY <2>1 DEF Early, Asked, Reading
  <2>4. sup'[r].at = "fingerprint" => sup'[r].source <= Sources
    BY <2>1, RunStartAssumption DEF Sequence
  <2>5. Counts(r)'
    BY <2>1, <2>2, <2>3, <2>4 DEF Counts
  <2>6. RunStartTypeOK'
    BY <2>1 DEF CompareSource, TypeInv, RunStartTypeOK, commandVars, userVars, rootVars, memory
  <2> QED
    BY <2>1, <2>5, <2>6, OthersCount
<1> QED
  BY <1>1, <1>2 DEF CompareSource

\* The manifest a supervisor writes has its type, and it is the only one at the root.
LEMMA ManifestWritten ==
  ASSUME TypeInv, NEW r \in Runs,
         manifestFile' = [manifestFile EXCEPT ![Root(r)] = {Manifest(r)}]
  PROVE  /\ Manifest(r) \in Manifests /\ manifestFile' \in [Roots -> SUBSET Manifests]
         /\ manifestFile'[Root(r)] = {Manifest(r)}
         /\ \A o \in Roots : o # Root(r) => manifestFile'[o] = manifestFile[o]
<1>1. Manifest(r) \in Manifests
  BY SupervisorType DEF Manifest, Manifests
<1> QED
  BY <1>1, SupervisorType DEF TypeInv, RunStartTypeOK

\* The step that writes it keeps the types.
LEMMA PutManifestType ==
  ASSUME TypeInv, NEW r \in Runs, Due(r, "manifest"), PutManifest(r) PROVE TypeInv'
<1>1. "materialized" \in Steps \ ({"ask", "fingerprint"} \cup Early \cup Reading \cup Asked)
  BY DEF Steps, Early, Reading, Asked
<1>2. sup[r].attempt = 0
  BY DEF Due, TypeInv, Counts, Materialized
<1>3. manifestFile' \in [Roots -> SUBSET Manifests]
  BY ManifestWritten DEF PutManifest
<1>4. /\ status' \in [Runs -> RunStatuses] /\ copied' \in [Roots -> [Sequence -> SUBSET Versions]]
      /\ planFile' \in [Roots -> PlanCopies] /\ planCommit' \in [Roots -> PlanCopies]
      /\ lastPlan' \in PlanCopies /\ workers' \in [Runs -> SUBSET PlanCopies] /\ abandoned' \subseteq Runs
      /\ scheduled' \in [Runs -> Plans]
  BY DEF PutManifest, TypeInv, RunStartTypeOK, memory
<1>5. sup' = Goes(r, "materialized") /\ UNCHANGED <<commandVars, userVars, version>>
  BY DEF PutManifest
<1> QED
  BY <1>1, <1>2, <1>3, <1>4, <1>5, GoesKeepsType

(***************************************************************************)
(* Types: the architect                                                    *)
(***************************************************************************)
\* A step that changes nothing but the supervisor, in a way that keeps its type and its counts.
LEMMA ThreadKeepsType ==
  ASSUME TypeInv, NEW r \in Runs,
         sup' \in [Runs -> Supervisors], \A q \in Runs : q # r => sup'[q] = sup[q], Counts(r)',
         UNCHANGED <<commandVars, userVars, status, version, rootVars, memory, scheduled>>
  PROVE  TypeInv'
<1>1. RunStartTypeOK'
  BY DEF TypeInv, RunStartTypeOK, commandVars, userVars, rootVars, memory
<1> QED
  BY <1>1, OthersCount

\* It claims nothing any more.
LEMMA NoPlanCounts == ASSUME TypeInv, NEW r \in Runs, sup' = NoPlan(r) PROVE Counts(r)'
<1>1. sup'[r].at = "publish"
  BY NoPlanType
<1> QED
  BY <1>1 DEF Counts, Early, Reading, Copying, Materialized, Asked

\* A probe that passes keeps the types.
LEMMA ProbeType == ASSUME TypeInv, NEW r \in Runs, Probe(r) PROVE TypeInv'
<1>1. "ask" \in Steps \ ({"fingerprint"} \cup Early \cup Reading \cup Copying \cup Materialized \cup Asked)
  BY DEF Steps, Early, Reading, Copying, Materialized, Asked
<1>2. sup[r].attempt <= 1
  BY DEF Probe, Due, TypeInv, Counts, Materialized
<1> QED
  BY <1>1, <1>2, MoveKeepsType DEF Probe

\* One that does not keeps them.
LEMMA CapabilityRefusedType == ASSUME TypeInv, NEW r \in Runs, CapabilityRefused(r) PROVE TypeInv'
BY NoPlanCounts, NoPlanType, ThreadKeepsType DEF CapabilityRefused

\* The supervisor that asks.
LEMMA Asks ==
  ASSUME TypeInv, NEW r \in Runs, AskArchitect(r)
  PROVE  /\ sup' \in [Runs -> Supervisors] /\ \A q \in Runs : q # r => sup'[q] = sup[q]
         /\ sup'[r].at = "asking" /\ sup'[r].attempt = sup[r].attempt + 1 /\ sup'[r].attempt \in 1..2
         /\ sup'[r].before = sup[r].before /\ sup'[r].source = sup[r].source
<1> DEFINE t == [sup[r] EXCEPT !.at = "asking", !.attempt = @ + 1, !.agent = "running"]
<1>1. sup[r] \in Supervisors /\ sup \in [Runs -> Supervisors]
  BY SupervisorType
<1>2. sup[r].attempt + 1 \in 1..2 /\ sup[r].attempt + 1 \in 0..2
  BY SupervisorType DEF AskArchitect, Due, TypeInv, Counts
<1>3. "asking" \in Steps
  BY DEF Steps
<1>4. t \in Supervisors
  BY <1>1, <1>2, <1>3 DEF Supervisors
<1>5. sup' = [sup EXCEPT ![r] = t]
  BY <1>1 DEF AskArchitect, Supervisors
<1>6. sup' \in [Runs -> Supervisors] /\ sup'[r] = t /\ \A q \in Runs : q # r => sup'[q] = sup[q]
  BY <1>1, <1>4, <1>5, ThreadReplaced
<1> QED
  BY <1>1, <1>2, <1>6 DEF Supervisors

\* To ask keeps the types.
LEMMA AskArchitectType == ASSUME TypeInv, NEW r \in Runs, AskArchitect(r) PROVE TypeInv'
<1>1. Counts(r)'
  BY Asks DEF Counts, Early, Reading, Copying, Materialized, Asked
<1> QED
  BY <1>1, Asks, ThreadKeepsType DEF AskArchitect

\* An answer that is no plan: asked again, or no plan.
LEMMA AsksAgain ==
  ASSUME TypeInv, NEW r \in Runs, Due(r, "asking"), sup' = AfterInvalid(r)
  PROVE  /\ sup' \in [Runs -> Supervisors] /\ \A q \in Runs : q # r => sup'[q] = sup[q]
         /\ sup'[r].before = sup[r].before /\ sup'[r].source = sup[r].source
         /\ \/ sup'[r].at = "ask" /\ sup'[r].attempt <= 1
            \/ sup'[r].at = "publish" /\ sup'[r].plan = 0
<1> DEFINE t == [sup[r] EXCEPT !.at = "ask", !.agent = "none"]
<1>1. sup[r] \in Supervisors /\ sup \in [Runs -> Supervisors]
  BY SupervisorType
<1>2. CASE sup[r].attempt = 1
  <2>1. "ask" \in Steps
    BY DEF Steps
  <2>2. t \in Supervisors
    BY <1>1, <2>1 DEF Supervisors
  <2>3. sup' = [sup EXCEPT ![r] = t]
    BY <1>1, <1>2 DEF AfterInvalid, Supervisors
  <2>4. sup' \in [Runs -> Supervisors] /\ sup'[r] = t /\ \A q \in Runs : q # r => sup'[q] = sup[q]
    BY <1>1, <2>2, <2>3, ThreadReplaced
  <2> QED
    BY <1>1, <1>2, <2>4 DEF Supervisors
<1>3. CASE sup[r].attempt # 1
  BY <1>3, NoPlanType DEF AfterInvalid
<1> QED
  BY <1>2, <1>3

\* To ask again, or to give up, keeps the types.
LEMMA AfterInvalidType ==
  ASSUME TypeInv, NEW r \in Runs, Due(r, "asking"), sup' = AfterInvalid(r),
         UNCHANGED <<commandVars, userVars, status, version, rootVars, memory, scheduled>>
  PROVE  TypeInv'
<1>1. Counts(r)'
  BY AsksAgain DEF Counts, Early, Reading, Copying, Materialized, Asked
<1> QED
  BY <1>1, AsksAgain, ThreadKeepsType

\* That is what a call that errs does,
LEMMA AskFailsType == ASSUME TypeInv, NEW r \in Runs, AskFails(r) PROVE TypeInv'
BY AfterInvalidType DEF AskFails

\* and an answer that is no plan.
LEMMA PlanInvalidType == ASSUME TypeInv, NEW r \in Runs, PlanInvalid(r) PROVE TypeInv'
BY AfterInvalidType DEF PlanInvalid

\* A plan that is valid ends the asking.
LEMMA Accepts ==
  ASSUME TypeInv, NEW r \in Runs, PlanValid(r)
  PROVE  /\ sup' \in [Runs -> Supervisors] /\ \A q \in Runs : q # r => sup'[q] = sup[q]
         /\ sup'[r].at = "bootstrap" /\ sup'[r].attempt = sup[r].attempt
         /\ sup'[r].before = sup[r].before /\ sup'[r].source = sup[r].source
<1> DEFINE t == [sup[r] EXCEPT !.at = "bootstrap", !.agent = "none"]
<1>1. sup[r] \in Supervisors /\ sup \in [Runs -> Supervisors]
  BY SupervisorType
<1>2. "bootstrap" \in Steps
  BY DEF Steps
<1>3. t \in Supervisors
  BY <1>1, <1>2 DEF Supervisors
<1>4. sup' = [sup EXCEPT ![r] = t]
  BY <1>1 DEF PlanValid, Supervisors
<1>5. sup' \in [Runs -> Supervisors] /\ sup'[r] = t /\ \A q \in Runs : q # r => sup'[q] = sup[q]
  BY <1>1, <1>3, <1>4, ThreadReplaced
<1> QED
  BY <1>1, <1>5 DEF Supervisors

\* To accept keeps the types.
LEMMA PlanValidType == ASSUME TypeInv, NEW r \in Runs, PlanValid(r) PROVE TypeInv'
<1>1. sup[r].attempt \in 1..2
  BY DEF PlanValid, Due, TypeInv, Counts, Asked
<1>2. Counts(r)'
  BY <1>1, Accepts DEF Counts, Early, Reading, Copying, Materialized
<1> QED
  BY <1>2, Accepts, ThreadKeepsType DEF PlanValid

\* The projects the plan creates keep the types, and so does a failure to create them.
LEMMA BootstrapType == ASSUME TypeInv, NEW r \in Runs, Bootstrap(r) PROVE TypeInv'
<1>1. CASE sup' = Goes(r, "artifacts")
  <2>1. "artifacts" \in Steps \ ({"ask", "fingerprint"} \cup Early \cup Reading \cup Copying \cup Materialized)
    BY DEF Steps, Early, Reading, Copying, Materialized
  <2>2. sup[r].attempt \in 1..2
    BY DEF Bootstrap, Due, TypeInv, Counts, Asked
  <2> QED
    BY <1>1, <2>1, <2>2, MoveKeepsType DEF Bootstrap
<1>2. CASE sup' = NoPlan(r)
  BY <1>2, NoPlanCounts, NoPlanType, ThreadKeepsType DEF Bootstrap
<1> QED
  BY <1>1, <1>2 DEF Bootstrap

\* A step of the supervisor that changes its thread, the files and what AppState remembers, with
\* their types.
LEMMA OwnKeepsType ==
  ASSUME TypeInv, NEW r \in Runs,
         sup' \in [Runs -> Supervisors], \A q \in Runs : q # r => sup'[q] = sup[q], Counts(r)',
         UNCHANGED <<commandVars, userVars, status, version, copied>>,
         manifestFile' \in [Roots -> SUBSET Manifests],
         planFile' \in [Roots -> PlanCopies], planCommit' \in [Roots -> PlanCopies],
         lastPlan' \in PlanCopies, workers' \in [Runs -> SUBSET PlanCopies], abandoned' \subseteq Runs,
         scheduled' \in [Runs -> Plans]
  PROVE  TypeInv'
<1>1. RunStartTypeOK'
  BY DEF TypeInv, RunStartTypeOK, commandVars, userVars
<1> QED
  BY <1>1, OthersCount

\* The files of the plan keep the types.
LEMMA WriteArtifactsType == ASSUME TypeInv, NEW r \in Runs, WriteArtifacts(r) PROVE TypeInv'
<1>1. sup[r].attempt \in 1..2 /\ <<r, sup[r].attempt>> \in PlanCopies
  BY SupervisorType, RunStartAssumption DEF WriteArtifacts, Due, TypeInv, Counts, Asked, Plans, PlanCopies, Runs
<1>2. /\ sup' \in [Runs -> Supervisors] /\ \A q \in Runs : q # r => sup'[q] = sup[q]
      /\ Counts(r)'
  <2>1. CASE sup' = Goes(r, "checkpoint")
    <3>1. "checkpoint" \in Steps \ ({"ask", "fingerprint"} \cup Early \cup Reading \cup Copying \cup Materialized)
      BY DEF Steps, Early, Reading, Copying, Materialized
    <3> QED
      BY <1>1, <2>1, <3>1, GoesType DEF Counts
  <2>2. CASE sup' = NoPlan(r)
    BY <2>2, NoPlanCounts, NoPlanType
  <2> QED
    BY <2>1, <2>2 DEF WriteArtifacts
<1>3. planFile' \in [Roots -> PlanCopies]
  BY <1>1, SupervisorType DEF WriteArtifacts, TypeInv, RunStartTypeOK
<1>4. /\ manifestFile' \in [Roots -> SUBSET Manifests] /\ planCommit' \in [Roots -> PlanCopies]
      /\ lastPlan' \in PlanCopies /\ workers' \in [Runs -> SUBSET PlanCopies] /\ abandoned' \subseteq Runs
      /\ scheduled' \in [Runs -> Plans] /\ UNCHANGED <<commandVars, userVars, status, version, copied>>
  BY DEF WriteArtifacts, TypeInv, RunStartTypeOK, memory
<1> QED
  BY <1>2, <1>3, <1>4, OwnKeepsType

\* The plan is in a commit, and the supervisor knows which; or there is no plan.
LEMMA Commits ==
  ASSUME TypeInv, NEW r \in Runs, CheckpointPlan(r)
  PROVE  /\ sup' \in [Runs -> Supervisors] /\ \A q \in Runs : q # r => sup'[q] = sup[q]
         /\ sup'[r].before = sup[r].before /\ sup'[r].attempt = sup[r].attempt
         /\ \/ sup'[r].at = "rewrite" /\ planCommit' = [planCommit EXCEPT ![Root(r)] = planFile[Root(r)]]
            \/ sup'[r].at = "publish" /\ sup'[r].plan = 0
<1>1. CASE sup' = NoPlan(r)
  BY <1>1, NoPlanType
<1>2. CASE planCommit' = [planCommit EXCEPT ![Root(r)] = planFile[Root(r)]] /\ sup' = Goes(r, "rewrite")
  <2>1. "rewrite" \in Steps \ {"done"}
    BY DEF Steps
  <2> QED
    BY <1>2, <2>1, GoesType
<1> QED
  BY <1>1, <1>2 DEF CheckpointPlan

\* The commit keeps the types.
LEMMA CheckpointPlanType == ASSUME TypeInv, NEW r \in Runs, CheckpointPlan(r) PROVE TypeInv'
<1>1. sup[r].attempt \in 1..2
  BY DEF CheckpointPlan, Due, TypeInv, Counts, Asked
<1>2. Counts(r)'
  BY <1>1, Commits DEF Counts, Early, Reading, Copying, Materialized, Asked
<1>3. planCommit' \in [Roots -> PlanCopies]
  BY SupervisorType DEF CheckpointPlan, TypeInv, RunStartTypeOK
<1>4. /\ manifestFile' \in [Roots -> SUBSET Manifests] /\ planFile' \in [Roots -> PlanCopies]
      /\ lastPlan' \in PlanCopies /\ workers' \in [Runs -> SUBSET PlanCopies] /\ abandoned' \subseteq Runs
      /\ scheduled' \in [Runs -> Plans] /\ UNCHANGED <<commandVars, userVars, status, version, copied>>
  BY DEF CheckpointPlan, TypeInv, RunStartTypeOK, memory
<1> QED
  BY <1>2, <1>3, <1>4, Commits, OwnKeepsType

\* The supervisor holds the plan it is about to publish.
LEMMA Rewrites ==
  ASSUME TypeInv, NEW r \in Runs, RewriteManifest(r)
  PROVE  /\ sup' \in [Runs -> Supervisors] /\ \A q \in Runs : q # r => sup'[q] = sup[q]
         /\ sup'[r].at = "publish" /\ sup'[r].plan = sup[r].attempt
<1> DEFINE t == [sup[r] EXCEPT !.at = "publish", !.plan = sup[r].attempt]
<1>1. sup[r] \in Supervisors /\ sup \in [Runs -> Supervisors]
  BY SupervisorType
<1>2. "publish" \in Steps /\ sup[r].attempt \in Plans
  BY SupervisorType DEF Steps, Plans
<1>3. t \in Supervisors
  BY <1>1, <1>2 DEF Supervisors
<1>4. sup' = [sup EXCEPT ![r] = t]
  BY <1>1 DEF RewriteManifest, Supervisors
<1>5. sup' \in [Runs -> Supervisors] /\ sup'[r] = t /\ \A q \in Runs : q # r => sup'[q] = sup[q]
  BY <1>1, <1>3, <1>4, ThreadReplaced
<1> QED
  BY <1>1, <1>5 DEF Supervisors

\* The manifest of the commit keeps the types.
LEMMA RewriteManifestType == ASSUME TypeInv, NEW r \in Runs, RewriteManifest(r) PROVE TypeInv'
<1>1. Counts(r)'
  BY Rewrites DEF Counts, Early, Reading, Copying, Materialized, Asked
<1>2. manifestFile' \in [Roots -> SUBSET Manifests]
  BY ManifestWritten DEF RewriteManifest, TypeInv, RunStartTypeOK
<1>3. /\ planFile' \in [Roots -> PlanCopies] /\ planCommit' \in [Roots -> PlanCopies]
      /\ lastPlan' \in PlanCopies /\ workers' \in [Runs -> SUBSET PlanCopies] /\ abandoned' \subseteq Runs
      /\ scheduled' \in [Runs -> Plans] /\ UNCHANGED <<commandVars, userVars, status, version, copied>>
  BY DEF RewriteManifest, TypeInv, RunStartTypeOK, memory
<1> QED
  BY <1>1, <1>2, <1>3, Rewrites, OwnKeepsType

\* What AppState remembers of the plan keeps the types.
LEMMA PublishType == ASSUME TypeInv, NEW r \in Runs, Publish(r) PROVE TypeInv'
<1>1. PICK step \in {"refused", "compiled"} : sup' = Goes(r, step)
  BY DEF Publish
<1>2. step \in Steps \ ({"ask", "fingerprint"} \cup Early \cup Reading \cup Copying \cup Materialized \cup Asked)
  BY DEF Steps, Early, Reading, Copying, Materialized, Asked
<1>3. r \in 0..MaxRuns /\ sup[r].plan \in Plans
  BY RunStartAssumption, SupervisorType DEF Runs
<1>4. lastPlan' \in PlanCopies /\ workers' \in [Runs -> SUBSET PlanCopies] /\ abandoned' \subseteq Runs
  BY <1>3 DEF Publish, TypeInv, RunStartTypeOK, PlanCopies
<1>5. /\ status' \in [Runs -> RunStatuses] /\ copied' \in [Roots -> [Sequence -> SUBSET Versions]]
      /\ manifestFile' \in [Roots -> SUBSET Manifests]
      /\ planFile' \in [Roots -> PlanCopies] /\ planCommit' \in [Roots -> PlanCopies]
      /\ scheduled' \in [Runs -> Plans] /\ UNCHANGED <<commandVars, userVars, version>>
  BY DEF Publish, TypeInv, RunStartTypeOK, rootVars
<1> QED
  BY <1>1, <1>2, <1>4, <1>5, GoesKeepsType

\* The plan in the scheduler keeps the types.
LEMMA LoadPlanType == ASSUME TypeInv, NEW r \in Runs, LoadPlan(r) PROVE TypeInv'
<1>1. PICK step \in {"executing", "failed"} : sup' = Goes(r, step)
  BY DEF LoadPlan
<1>2. step \in Steps \ ({"ask", "fingerprint"} \cup Early \cup Reading \cup Copying \cup Materialized \cup Asked)
  BY DEF Steps, Early, Reading, Copying, Materialized, Asked
<1>3. scheduled' \in [Runs -> Plans]
  BY SupervisorType DEF LoadPlan, TypeInv, RunStartTypeOK
<1>4. /\ status' \in [Runs -> RunStatuses] /\ copied' \in [Roots -> [Sequence -> SUBSET Versions]]
      /\ manifestFile' \in [Roots -> SUBSET Manifests]
      /\ planFile' \in [Roots -> PlanCopies] /\ planCommit' \in [Roots -> PlanCopies]
      /\ lastPlan' \in PlanCopies /\ workers' \in [Runs -> SUBSET PlanCopies] /\ abandoned' \subseteq Runs
      /\ UNCHANGED <<commandVars, userVars, version>>
  BY DEF LoadPlan, TypeInv, RunStartTypeOK, rootVars, memory
<1> QED
  BY <1>1, <1>2, <1>3, <1>4, GoesKeepsType

\* Every step of a supervisor keeps the types.
LEMMA SuperviseType ==
  ASSUME TypeInv, NEW r \in Runs, Supervise(r) \/ EndExecution(r)
  PROVE  TypeInv'
<1>1. CASE WriteStatus(r) \/ EmitEvent(r) \/ StoreFails(r) \/ EventFails(r) \/ CheckCancel(r)
           \/ PreflightInThread(r) \/ EndExecution(r)
  BY <1>1, WriteStatusType, EmitEventType, StoreFailsType, EventFailsType, CheckCancelType,
     PreflightInThreadType, EndExecutionType
<1>2. CASE FingerprintNotes(r) \/ Fingerprint(r) \/ CopyFolder(r) \/ CaptureDirty(r) \/ CloneSource(r)
           \/ ApplyOverlay(r) \/ CompareSource(r)
  BY <1>2, FingerprintNotesType, FingerprintType, CopyFolderType, CaptureDirtyType, CloneSourceType,
     ApplyOverlayType, CompareSourceType
<1>3. CASE WriteFlatManifest(r) \/ WriteManifest(r) \/ MaterializeFails(r)
  BY <1>3, PutManifestType, MaterializeFailsType DEF WriteFlatManifest, WriteManifest
<1>4. CASE Probe(r) \/ CapabilityRefused(r) \/ AskArchitect(r) \/ AskFails(r) \/ PlanInvalid(r) \/ PlanValid(r)
  BY <1>4, ProbeType, CapabilityRefusedType, AskArchitectType, AskFailsType, PlanInvalidType, PlanValidType
<1>5. CASE Bootstrap(r) \/ WriteArtifacts(r) \/ CheckpointPlan(r) \/ RewriteManifest(r) \/ Publish(r) \/ LoadPlan(r)
  BY <1>5, BootstrapType, WriteArtifactsType, CheckpointPlanType, RewriteManifestType, PublishType, LoadPlanType
<1> QED
  BY <1>1, <1>2, <1>3, <1>4, <1>5 DEF Supervise

(***************************************************************************)
(* The slot                                                                *)
(***************************************************************************)
\* The supervisor that is alive is the one of the slot, and its handle is in the slot or about to
\* be; the thread the slot waits for has not begun, nor has one of a run to come.
SlotInv ==
  /\ main # "idle" => slot # 0
  /\ main = "spawn" => sup[slot].at = "none" /\ ~joined
  /\ slot <= lastRun
  /\ \A r \in Runs : Live(r) => slot = r /\ (joined \/ main = "join")
  /\ \A r \in Runs : r > lastRun => sup[r].at = "none"

\* A step of a supervisor is of a thread that is alive; it leaves the slot, the sources and the
\* other threads alone, and the roots of the other runs where each has its own.
LEMMA OwnStep ==
  ASSUME TypeInv, NEW r \in Runs, Supervise(r) \/ EndExecution(r)
  PROVE  /\ Live(r) /\ UNCHANGED <<commandVars, userVars, version>>
         /\ \A q \in Runs : q # r => sup'[q] = sup[q]
         /\ \A o \in Roots : o # Root(r) => /\ copied'[o] = copied[o] /\ manifestFile'[o] = manifestFile[o]
                                            /\ planFile'[o] = planFile[o] /\ planCommit'[o] = planCommit[o]
<1>0. /\ sup \in [Runs -> Supervisors] /\ copied \in [Roots -> [Sequence -> SUBSET Versions]]
      /\ manifestFile \in [Roots -> SUBSET Manifests]
      /\ planFile \in [Roots -> PlanCopies] /\ planCommit \in [Roots -> PlanCopies] /\ Root(r) \in Roots
  BY SupervisorType DEF TypeInv, RunStartTypeOK
<1>1. CASE WriteStatus(r) \/ EmitEvent(r) \/ StoreFails(r) \/ EventFails(r) \/ CheckCancel(r)
           \/ PreflightInThread(r) \/ EndExecution(r)
  <2>1. UNCHANGED <<commandVars, userVars, version, rootVars>>
    BY <1>1 DEF WriteStatus, EmitEvent, StoreFails, EventFails, CheckCancel, PreflightInThread, EndExecution, SettleExecution, AbandonExecution, CancelExecution
  <2>2. Live(r)
    BY <1>1, AfterStep DEF WriteStatus, EmitEvent, StoreFails, EventFails, CheckCancel, PreflightInThread,
                EndExecution, SettleExecution, AbandonExecution, CancelExecution, Due, Live, StatusAt, EventSteps, AfterCheck
  <2>3. \A q \in Runs : q # r => sup'[q] = sup[q]
    BY <1>0, <1>1 DEF WriteStatus, EmitEvent, StoreFails, EventFails, CheckCancel, PreflightInThread,
                      EndExecution, SettleExecution, AbandonExecution, CancelExecution, Goes
  <2> QED
    BY <2>1, <2>2, <2>3 DEF rootVars
<1>2. CASE FingerprintNotes(r) \/ Fingerprint(r) \/ CompareSource(r) \/ MaterializeFails(r)
  <2>1. UNCHANGED <<commandVars, userVars, version, rootVars>> /\ Live(r)
    BY <1>2 DEF FingerprintNotes, Fingerprint, CompareSource, MaterializeFails, Due, Live
  <2>2. \A q \in Runs : q # r => sup'[q] = sup[q]
    BY <1>0, <1>2 DEF FingerprintNotes, Fingerprint, CompareSource, MaterializeFails, Goes, NextSource
  <2> QED
    BY <2>1, <2>2 DEF rootVars
<1>3. CASE CopyFolder(r) \/ CaptureDirty(r) \/ CloneSource(r) \/ ApplyOverlay(r)
  <2>1. /\ UNCHANGED <<commandVars, userVars, version, manifestFile, planFile, planCommit>> /\ Live(r)
        /\ Copies(r) \/ copied' = copied
    BY <1>3 DEF CopyFolder, CaptureDirty, CloneSource, ApplyOverlay, Due, Live
  <2>2. \A q \in Runs : q # r => sup'[q] = sup[q]
    BY <1>0, <1>3 DEF CopyFolder, CaptureDirty, CloneSource, ApplyOverlay, Goes
  <2>3. \A o \in Roots : o # Root(r) => copied'[o] = copied[o]
    BY <1>0, <2>1 DEF Copies
  <2> QED
    BY <2>1, <2>2, <2>3
<1>4. CASE WriteFlatManifest(r) \/ WriteManifest(r)
  <2>1. /\ UNCHANGED <<commandVars, userVars, version, copied, planFile, planCommit>> /\ Live(r)
        /\ manifestFile' = [manifestFile EXCEPT ![Root(r)] = {Manifest(r)}] \/ manifestFile' = manifestFile
    BY <1>4 DEF WriteFlatManifest, WriteManifest, PutManifest, Due, Live, rootVars
  <2>2. \A q \in Runs : q # r => sup'[q] = sup[q]
    BY <1>0, <1>4 DEF WriteFlatManifest, WriteManifest, PutManifest, Goes
  <2> QED
    BY <1>0, <2>1, <2>2
<1>5. CASE Probe(r) \/ CapabilityRefused(r) \/ AskArchitect(r) \/ AskFails(r) \/ PlanInvalid(r) \/ PlanValid(r)
           \/ Bootstrap(r)
  <2>1. UNCHANGED <<commandVars, userVars, version, rootVars>> /\ Live(r)
    BY <1>5 DEF Probe, CapabilityRefused, AskArchitect, AskFails, PlanInvalid, PlanValid, Bootstrap, Due, Live
  <2>2. \A q \in Runs : q # r => sup'[q] = sup[q]
    BY <1>0, <1>5 DEF Probe, CapabilityRefused, AskArchitect, AskFails, PlanInvalid, PlanValid, Bootstrap,
                      Goes, NoPlan, AfterInvalid
  <2> QED
    BY <2>1, <2>2 DEF rootVars
<1>6. CASE WriteArtifacts(r) \/ CheckpointPlan(r) \/ RewriteManifest(r) \/ Publish(r) \/ LoadPlan(r)
  <2>1. UNCHANGED <<commandVars, userVars, version, copied>> /\ Live(r)
    BY <1>6 DEF WriteArtifacts, CheckpointPlan, RewriteManifest, Publish, LoadPlan, Due, Live, rootVars
  <2>2. \A q \in Runs : q # r => sup'[q] = sup[q]
    BY <1>0, <1>6 DEF WriteArtifacts, CheckpointPlan, RewriteManifest, Publish, LoadPlan, Goes, NoPlan
  <2>3. \A o \in Roots : o # Root(r) => /\ manifestFile'[o] = manifestFile[o]
                                        /\ planFile'[o] = planFile[o] /\ planCommit'[o] = planCommit[o]
    BY <1>0, <1>6 DEF WriteArtifacts, CheckpointPlan, RewriteManifest, Publish, LoadPlan, rootVars
  <2> QED
    BY <2>1, <2>2, <2>3
<1> QED
  BY <1>1, <1>2, <1>3, <1>4, <1>5, <1>6 DEF Supervise

\* A step of a supervisor keeps the slot.
LEMMA SuperviseSlot ==
  ASSUME TypeInv, SlotInv, NEW r \in Runs, Supervise(r) \/ EndExecution(r)
  PROVE  SlotInv'
<1>1. /\ Live(r) /\ UNCHANGED commandVars /\ \A q \in Runs : q # r => sup'[q] = sup[q]
  BY OwnStep
<1>2. slot = r /\ r <= lastRun /\ main # "spawn"
  BY <1>1 DEF SlotInv, Live
<1> QED
  BY <1>1, <1>2 DEF SlotInv, Live, commandVars

\* While a start may be taken, a slot that is not busy means that no supervisor is alive.
LEMMA FreeSlot ==
  ASSUME TypeInv, SlotInv, MayStart, ~SlotBusy
  PROVE  \A r \in Runs : ~Live(r)
BY RunStartAssumption DEF SlotInv, MayStart, SlotBusy, Runs

\* A step of the main thread or of the user keeps types and slot.
LEMMA StartRunType ==
  ASSUME TypeInv, SlotInv, StartRun
  PROVE  TypeInv' /\ SlotInv'
<1>1. PICK n \in Runs : n = lastRun + 1 /\ n \in 0..MaxRuns /\ lastRun' = n /\ n > lastRun /\ lastRun \in Int
  BY RunStartAssumption DEF StartRun, MayStart, TypeInv, RunStartTypeOK, Runs
<1> DEFINE t == [sup[n] EXCEPT !.cached = (preflight = "trusted")]
<1>2. sup[n] \in Supervisors /\ sup \in [Runs -> Supervisors]
  BY <1>1, SupervisorType
<1>3. t \in Supervisors /\ t.at = sup[n].at /\ t.source = sup[n].source /\ t.attempt = sup[n].attempt
  BY <1>2 DEF Supervisors
<1>4. sup' = [sup EXCEPT ![n] = t]
  BY <1>1, <1>2 DEF StartRun, Supervisors
<1>5. sup' \in [Runs -> Supervisors] /\ sup'[n] = t /\ \A q \in Runs : q # n => sup'[q] = sup[q]
  BY <1>1, <1>2, <1>3, <1>4, ThreadReplaced
<1>6. Counts(n)'
  BY <1>1, <1>3, <1>5 DEF Counts, TypeInv
<1>7. status' \in [Runs -> RunStatuses]
  <2>1. "started" \in RunStatuses
    BY DEF RunStatuses
  <2> QED
    BY <1>1, <2>1 DEF StartRun, TypeInv, RunStartTypeOK
<1>8. RunStartTypeOK'
  BY <1>1, <1>5, <1>7 DEF StartRun, TypeInv, RunStartTypeOK, userVars, rootVars, memory
<1>9. SlotInv'
  <2>1. \A r \in Runs : ~Live(r)
    BY FreeSlot DEF StartRun
  <2>2. sup[n].at = "none"
    BY <1>1 DEF SlotInv
  <2>3. \A r \in Runs : sup'[r].at = sup[r].at
    BY <1>3, <1>5
  <2>4. slot' = n /\ main' = "spawn" /\ joined' = FALSE
    BY <1>1 DEF StartRun
  <2>5. n # 0 /\ n <= n /\ \A r \in Runs : r > n => r > lastRun
    BY <1>1 DEF Runs
  <2> QED
    BY <1>1, <2>1, <2>2, <2>3, <2>4, <2>5 DEF SlotInv, Live
<1> QED
  BY <1>1, <1>5, <1>6, <1>8, <1>9, OthersCount

\* The thread that starts is new.
LEMMA SpawnType ==
  ASSUME TypeInv, SlotInv, Spawn
  PROVE  TypeInv' /\ SlotInv'
<1> DEFINE step == IF sup[slot].cached THEN "check_preflight" ELSE "preflight"
<1>1. slot \in Runs
  BY RunStartAssumption DEF Spawn, SlotInv, TypeInv, RunStartTypeOK, Runs
<1>2. step \in Steps \ ({"ask", "fingerprint"} \cup Reading \cup Asked) /\ step \in {"check_preflight", "preflight"}
  BY DEF Steps, Reading, Asked
<1>3. sup[slot].at = "none" /\ ~joined /\ sup[slot].source = 1 /\ sup[slot].attempt = 0
  BY <1>1 DEF Spawn, SlotInv, TypeInv, Counts, Early, Copying
<1>4. /\ sup' \in [Runs -> Supervisors] /\ \A q \in Runs : q # slot => sup'[q] = sup[q]
      /\ sup'[slot].at = step /\ sup'[slot].source = 1 /\ sup'[slot].attempt = 0
  BY <1>1, <1>2, <1>3, GoesType DEF Spawn
<1>5. \A r \in Runs : Counts(r)'
  BY <1>2, <1>4 DEF Counts, TypeInv
<1>6. RunStartTypeOK'
  BY <1>4 DEF Spawn, TypeInv, RunStartTypeOK, userVars, rootVars, memory
<1>7. SlotInv'
  BY <1>1, <1>3, <1>4 DEF Spawn, SlotInv, Live, TypeInv, RunStartTypeOK
<1> QED
  BY <1>5, <1>6, <1>7 DEF TypeInv

\* A killed agent leaves its supervisor where it was.
LEMMA KillAgentsType ==
  ASSUME TypeInv, SlotInv, KillAgents
  PROVE  /\ TypeInv' /\ SlotInv'
         /\ \A r \in Runs : /\ sup'[r].at = sup[r].at /\ sup'[r].source = sup[r].source
                            /\ sup'[r].before = sup[r].before /\ sup'[r].attempt = sup[r].attempt
                            /\ sup'[r].plan = sup[r].plan
<1>1. sup \in [Runs -> Supervisors]
  BY DEF TypeInv, RunStartTypeOK
<1>2. ASSUME NEW t \in Supervisors
      PROVE  /\ [t EXCEPT !.agent = "killed"] \in Supervisors
             /\ LET k == [t EXCEPT !.agent = "killed"]
                IN  /\ k.at = t.at /\ k.source = t.source /\ k.before = t.before
                    /\ k.attempt = t.attempt /\ k.plan = t.plan
  BY <1>2 DEF Supervisors
<1>3. /\ sup' \in [Runs -> Supervisors]
      /\ \A r \in Runs : sup'[r] = sup[r] \/ sup'[r] = [sup[r] EXCEPT !.agent = "killed"]
  BY <1>1, <1>2 DEF KillAgents
<1>4. \A r \in Runs : /\ sup'[r].at = sup[r].at /\ sup'[r].source = sup[r].source
                      /\ sup'[r].before = sup[r].before /\ sup'[r].attempt = sup[r].attempt
                      /\ sup'[r].plan = sup[r].plan
  BY <1>1, <1>2, <1>3
<1>5. \A r \in Runs : Counts(r)'
  BY <1>4 DEF Counts, TypeInv
<1>6. RunStartTypeOK'
  BY <1>3 DEF KillAgents, TypeInv, RunStartTypeOK, userVars, rootVars, memory
<1>7. SlotInv'
  BY <1>4 DEF KillAgents, SlotInv, Live
<1> QED
  BY <1>4, <1>5, <1>6, <1>7 DEF TypeInv

\* The other steps of the main thread leave the supervisors alone.
LEMMA MainStep ==
  ASSUME TypeInv, SlotInv,
         RunIntakePreflight \/ ConfirmIntakeTrust \/ ClearIntakePreflight \/ StartRefused \/ RequestCancel
           \/ SpawnFails \/ StoreJoin \/ MarkCancelling
  PROVE  TypeInv' /\ SlotInv' /\ UNCHANGED <<kind, sup, version, undone, rootVars, memory, scheduled>>
<1>1. CASE RunIntakePreflight \/ ConfirmIntakeTrust \/ ClearIntakePreflight
  <2>1. /\ UNCHANGED <<kind, main, slot, joined, lastRun, userVars, status, sup, version, rootVars, memory, scheduled>>
        /\ preflight' \in {"none", "untrusted", "trusted"}
    BY <1>1 DEF RunIntakePreflight, ConfirmIntakeTrust, ClearIntakePreflight
  <2> QED
    BY <2>1 DEF TypeInv, RunStartTypeOK, Counts, SlotInv, Live, userVars, rootVars, memory
<1>2. CASE StartRefused
  <2>1. \A r \in Runs : ~Live(r)
    BY <1>2, FreeSlot DEF StartRefused
  <2>2. 0 \in 0..MaxRuns /\ lastRun >= 0 /\ main = "idle"
    BY <1>2, RunStartAssumption DEF StartRefused, MayStart, TypeInv, RunStartTypeOK
  <2> QED
    BY <1>2, <2>1, <2>2 DEF StartRefused, TypeInv, RunStartTypeOK, Counts, SlotInv, Live, userVars, rootVars, memory
<1>3. CASE RequestCancel
  <2>1. slot \in Runs /\ stops + 1 \in 0..MaxStops
    BY <1>3, RunStartAssumption DEF RequestCancel, TypeInv, RunStartTypeOK, Runs
  <2> QED
    BY <1>3, <2>1 DEF RequestCancel, TypeInv, RunStartTypeOK, Counts, SlotInv, Live, rootVars, memory
<1>4. CASE SpawnFails
  <2>1. \A r \in Runs : ~Live(r)
    BY <1>4 DEF SpawnFails, SlotInv, Live
  <2> QED
    BY <1>4, <2>1 DEF SpawnFails, TypeInv, RunStartTypeOK, Counts, SlotInv, Live, userVars, rootVars, memory
<1>5. CASE StoreJoin
  BY <1>5 DEF StoreJoin, TypeInv, RunStartTypeOK, Counts, SlotInv, Live, userVars, rootVars, memory
<1>6. CASE MarkCancelling
  <2>1. "cancelling" \in RunStatuses
    BY DEF RunStatuses
  <2>2. status' \in [Runs -> RunStatuses]
    BY <1>6, <2>1 DEF MarkCancelling, TypeInv, RunStartTypeOK
  <2> QED
    BY <1>6, <2>2 DEF MarkCancelling, TypeInv, RunStartTypeOK, Counts, SlotInv, Live, userVars, rootVars, memory
<1> QED
  BY <1>1, <1>2, <1>3, <1>4, <1>5, <1>6

\* An edit of the user keeps types and slot.
LEMMA EditSourceType ==
  ASSUME TypeInv, SlotInv, NEW s \in Sequence, EditSource(s)
  PROVE  TypeInv' /\ SlotInv'
<1>1. edits' \in 0..MaxEdits
  BY RunStartAssumption DEF EditSource, TypeInv, RunStartTypeOK
<1>2. version' \in [Sequence -> Versions]
  BY <1>1, RunStartAssumption DEF EditSource, TypeInv, RunStartTypeOK, Versions
<1>3. undone' \subseteq Roots \X Sequence
  BY SupervisorType DEF EditSource, TypeInv, RunStartTypeOK
<1> QED
  BY <1>1, <1>2, <1>3 DEF EditSource, TypeInv, RunStartTypeOK, Counts, SlotInv, Live, commandVars, rootVars, memory

\* Types and the slot hold in the beginning.
LEMMA InitSlot == Init => TypeInv /\ SlotInv
<1> SUFFICES ASSUME Init PROVE TypeInv /\ SlotInv
  OBVIOUS
<1>1. NoThread \in Supervisors /\ NoThread.at = "none" /\ NoThread.source = 1 /\ NoThread.attempt = 0
  BY NoThreadType
<1>2. "none" \in RunStatuses /\ 0 \in Plans /\ 0 \in Versions /\ 0 \in 0..MaxRuns /\ 0 \in 0..MaxStops
      /\ 0 \in 0..MaxEdits /\ <<0, 0>> \in PlanCopies
  BY RunStartAssumption DEF RunStatuses, Plans, Versions, PlanCopies
<1>3. RunStartTypeOK
  BY <1>1, <1>2 DEF Init, RunStartTypeOK
<1>4. \A r \in Runs : Counts(r)
  BY <1>1 DEF Init, Counts, Reading, Asked
<1>5. SlotInv
  BY <1>1, <1>2 DEF Init, SlotInv, Live
<1> QED
  BY <1>3, <1>4, <1>5 DEF TypeInv

\* Every step keeps types and slot.
LEMMA SlotStep ==
  ASSUME TypeInv, SlotInv, [Next]_vars
  PROVE  TypeInv' /\ SlotInv'
<1>1. CASE Commands \/ MainGoesOn
  BY <1>1, MainStep, StartRunType, SpawnType, KillAgentsType DEF Commands, MainGoesOn
<1>2. CASE \E s \in Sequence : EditSource(s)
  BY <1>2, EditSourceType
<1>3. CASE \E r \in Runs : Supervise(r) \/ EndExecution(r)
  BY <1>3, SuperviseType, SuperviseSlot
<1>4. CASE \E r \in Runs : Work(r)
  BY <1>4, WorkType DEF SlotInv, Live, commandVars
<1>5. CASE UNCHANGED vars
  BY <1>5 DEF TypeInv, RunStartTypeOK, Counts, SlotInv, Live, vars, commandVars, userVars, rootVars, memory
<1> QED
  BY <1>1, <1>2, <1>3, <1>4, <1>5 DEF Next

\* Every variable keeps its type, whatever faults occur and however often Stop is pressed.
THEOREM RunStartTypeCorrect == Spec => []RunStartTypeOK
<1>1. TypeInv /\ SlotInv => RunStartTypeOK
  BY DEF TypeInv
<1> QED
  BY <1>1, InitSlot, SlotStep, PTL DEF Spec

\* One supervisor at most is alive (start_run, which stores the handle after it has started the
\* thread).
THEOREM OneSupervisorAlive == Spec => []OneSupervisor
<1>1. TypeInv /\ SlotInv => OneSupervisor
  BY DEF SlotInv, OneSupervisor
<1> QED
  BY <1>1, InitSlot, SlotStep, PTL DEF Spec

(***************************************************************************)
(* The plan a run executes                                                 *)
(***************************************************************************)
Committed == {"compiled", "check_compiled", "execute", "load", "executing"}

\* A run that left workers at work is over but for its status.
AbandonedEnded == \A q \in abandoned : sup[q].at \in {"failed", "done"}

\* What may be found where plan n of run r was put: this, or what an abandoned run executed.
Ours(r, n) == {<<r, n>>} \cup {<<q, scheduled[q]>> : q \in abandoned}

\* Where the plan of a run has been kept, by the place of its supervisor.
Durable(r) ==
  /\ sup[r].at = "checkpoint" => planFile[Root(r)] \in Ours(r, sup[r].attempt)
  /\ sup[r].at = "rewrite" => {planFile[Root(r)], planCommit[Root(r)]} \subseteq Ours(r, sup[r].attempt)
  /\ sup[r].at = "publish" /\ sup[r].plan # 0 =>
       {planFile[Root(r)], planCommit[Root(r)]} \subseteq Ours(r, sup[r].plan)
  /\ sup[r].at \in Committed =>
       sup[r].plan # 0 /\ {lastPlan, planFile[Root(r)], planCommit[Root(r)]} \subseteq Ours(r, sup[r].plan)
  /\ sup[r].at = "executing" => scheduled[r] = sup[r].plan

\* A thread that is not alive has kept nothing yet or ended.
LEMMA DeadDurable == ASSUME NEW r \in Runs, ~Live(r) PROVE Durable(r)
BY DEF Live, Durable, Committed

\* A supervisor elsewhere has nothing to show.
LEMMA ElsewhereDurable ==
  ASSUME NEW r \in Runs, sup[r].at \notin Committed \cup {"checkpoint", "rewrite", "publish"}
  PROVE  Durable(r)
BY DEF Durable, Committed

\* A supervisor before or in the execution is not of an abandoned run, a failed one goes to its
\* end, and one plan at most is loaded, its own.
LEMMA SuperviseMoves ==
  ASSUME TypeInv, NEW r \in Runs, Supervise(r)
  PROVE  /\ sup[r].at # "executing" /\ (sup[r].at = "failed" => sup'[r].at = "done")
         /\ workers' = workers /\ abandoned' = abandoned
         /\ \A q \in Runs : q # r \/ sup[r].at # "load" => scheduled'[q] = scheduled[q]
<1>1. sup[r].at # "executing" /\ workers' = workers /\ abandoned' = abandoned
  BY DEF Supervise, WriteStatus, EmitEvent, StoreFails, EventFails, CheckCancel, PreflightInThread, FingerprintNotes,
         Fingerprint, CopyFolder, CaptureDirty, CloneSource, ApplyOverlay, CompareSource, WriteFlatManifest,
         WriteManifest, PutManifest, MaterializeFails, Probe, CapabilityRefused, AskArchitect, AskFails, PlanInvalid,
         PlanValid, Bootstrap, WriteArtifacts, CheckpointPlan, RewriteManifest, Publish, LoadPlan, Due, memory,
         StatusAt, EventSteps, AfterCheck
<1>2. ASSUME sup[r].at = "failed" PROVE sup'[r].at = "done"
  <2>1. WriteStatus(r) \/ StoreFails(r)
    BY <1>2 DEF Supervise, EmitEvent, EventFails, CheckCancel, PreflightInThread, FingerprintNotes,
         Fingerprint, CopyFolder, CaptureDirty, CloneSource, ApplyOverlay, CompareSource, WriteFlatManifest,
         WriteManifest, MaterializeFails, Probe, CapabilityRefused, AskArchitect, AskFails, PlanInvalid,
         PlanValid, Bootstrap, WriteArtifacts, CheckpointPlan, RewriteManifest, Publish, LoadPlan, Due,
         EventSteps, AfterCheck
  <2>2. sup' = Goes(r, "done") /\ "done" \in Steps
    BY <1>2, <2>1, AfterStep DEF WriteStatus, StoreFails, Due, Steps
  <2> QED
    BY <2>2, GoesAt
<1>3. ASSUME NEW q \in Runs, q # r \/ sup[r].at # "load" PROVE scheduled'[q] = scheduled[q]
  <2>1. CASE LoadPlan(r)
    BY <1>3, <2>1 DEF LoadPlan, Due, TypeInv, RunStartTypeOK
  <2>2. CASE ~LoadPlan(r)
    BY <2>2 DEF Supervise, WriteStatus, EmitEvent, StoreFails, EventFails, CheckCancel, PreflightInThread,
         FingerprintNotes, Fingerprint, CopyFolder, CaptureDirty, CloneSource, ApplyOverlay, CompareSource,
         WriteFlatManifest, WriteManifest, PutManifest, MaterializeFails, Probe, CapabilityRefused, AskArchitect,
         AskFails, PlanInvalid, PlanValid, Bootstrap, WriteArtifacts, CheckpointPlan, RewriteManifest, Publish
  <2> QED
    BY <2>1, <2>2
<1> QED
  BY <1>1, <1>2, <1>3

\* What may stand for its plan stays the same, as an abandoned run loads none.
LEMMA OursStays ==
  ASSUME TypeInv, AbandonedEnded, NEW r \in Runs, Supervise(r)
  PROVE  \A n : Ours(r, n)' = Ours(r, n)
<1>1. \A q \in abandoned : q \in Runs /\ (q # r \/ sup[r].at # "load")
  BY DEF AbandonedEnded, TypeInv, RunStartTypeOK
<1> QED
  BY <1>1, SuperviseMoves DEF Ours

\* A step of a supervisor keeps what is kept of its plan.
LEMMA DurableOwn ==
  ASSUME TypeInv, SlotInv, AbandonedEnded, NEW r \in Runs, Durable(r), Supervise(r) \/ EndExecution(r)
  PROVE  Durable(r)'
<1> DEFINE Showing == Committed \cup {"checkpoint", "rewrite", "publish"}
<1>0. /\ sup \in [Runs -> Supervisors] /\ Root(r) \in Roots /\ planFile \in [Roots -> PlanCopies]
      /\ planCommit \in [Roots -> PlanCopies] /\ scheduled \in [Runs -> Plans]
      /\ Root(r)' = Root(r)
  BY SupervisorType, OwnStep DEF TypeInv, RunStartTypeOK, commandVars, Root
<1>a. Supervise(r) => \A n : Ours(r, n)' = Ours(r, n)
  BY OursStays
<1>1. CASE \E step \in Steps \ Showing : sup' = Goes(r, step)
  BY <1>1, GoesAt DEF Durable, Committed
<1>2. CASE sup' = NoPlan(r)
  BY <1>2, NoPlanType DEF Durable, Committed
<1>3. CASE WriteStatus(r) \/ EmitEvent(r)
  <2>1. PICK step \in DOMAIN StatusAt \cup EventSteps :
          Due(r, step) /\ sup' = Goes(r, After(step)) /\ UNCHANGED <<planFile, planCommit, lastPlan, scheduled>>
    BY <1>3 DEF WriteStatus, EmitEvent, rootVars, memory
  <2>2. CASE step \in {"compiled", "execute"}
    <3>1. After(step) \in {"check_compiled", "load"} /\ After(step) \in Steps
      BY <2>2, AfterStep DEF Steps
    <3>2. sup'[r].at \in {"check_compiled", "load"} /\ sup'[r].plan = sup[r].plan
      BY <2>1, <3>1, GoesType
    <3>3. Supervise(r) /\ sup[r].at \in Committed
      BY <1>3, <2>1, <2>2 DEF Supervise, Due, Committed
    <3> QED
      BY <1>0, <1>a, <2>1, <3>2, <3>3 DEF Durable, Committed
  <2>3. CASE step \notin {"compiled", "execute"}
    <3>1. After(step) \in Steps \ Showing
      BY <2>3, AfterStep DEF Steps, Committed, EventSteps
    <3> QED
      BY <1>1, <2>1, <3>1
  <2> QED
    BY <2>2, <2>3
<1>4. CASE CheckCancel(r)
  <2>1. PICK step \in DOMAIN AfterCheck : CheckCancel(r)!(step)
    BY <1>4 DEF CheckCancel
  <2>2. CASE step = "check_compiled" /\ r \notin cancel
    <3>1. sup' = Goes(r, "execute") /\ "execute" \in Steps
      BY <2>1, <2>2 DEF AfterCheck, Steps
    <3>2. sup'[r].at = "execute" /\ sup'[r].plan = sup[r].plan
      BY <3>1, GoesType
    <3>3. Supervise(r) /\ sup[r].at \in Committed /\ UNCHANGED <<planFile, planCommit, lastPlan, scheduled>>
      BY <1>4, <2>1, <2>2 DEF Supervise, Due, Committed, rootVars, memory
    <3> QED
      BY <1>0, <1>a, <3>2, <3>3 DEF Durable, Committed
  <2>3. CASE step # "check_compiled" \/ r \in cancel
    <3>1. \E to \in Steps \ Showing : sup' = Goes(r, to)
      BY <2>1, <2>3 DEF AfterCheck, Steps, Committed
    <3> QED
      BY <1>1, <3>1
  <2> QED
    BY <2>2, <2>3
<1>5. CASE StoreFails(r) \/ EventFails(r) \/ PreflightInThread(r) \/ MaterializeFails(r) \/ EndExecution(r)
  <2>1. "failed" \in Steps \ Showing /\ "done" \in Steps \ Showing /\ "cancelled" \in Steps \ Showing
    BY DEF Steps, Committed
  <2> QED
    BY <1>1, <1>5, <2>1 DEF StoreFails, EventFails, PreflightInThread, MaterializeFails, EndExecution, SettleExecution, AbandonExecution, CancelExecution
<1>6. CASE FingerprintNotes(r)
  <2>1. "failed" \in Steps \ Showing /\ "compare" \in Reading \ Showing
    BY DEF Steps, Committed, Reading
  <2>2. CASE sup' = Goes(r, "failed")
    BY <1>1, <2>1, <2>2
  <2>3. CASE sup' = [sup EXCEPT ![r].before[sup[r].source] = version[sup[r].source], ![r].at = "compare"]
    BY <1>6, <2>1, <2>3, FingerprintTaken DEF FingerprintNotes, Durable, Committed
  <2> QED
    BY <1>6, <2>2, <2>3 DEF FingerprintNotes
<1>7. CASE Fingerprint(r)
  <2>1. FirstRead[kind] \in Reading \ Showing
    BY <1>7 DEF Fingerprint, TypeInv, RunStartTypeOK, FirstRead, Reading, Committed
  <2> QED
    BY <1>7, <2>1, FingerprintTaken DEF Fingerprint, Durable, Committed
<1>8. CASE CopyFolder(r) \/ CaptureDirty(r) \/ CloneSource(r) \/ ApplyOverlay(r)
  <2>1. sup' = sup \/ \E step \in {"compare", "clone", "overlay"} : sup' = Goes(r, step)
    BY <1>8 DEF CopyFolder, CaptureDirty, CloneSource, ApplyOverlay
  <2>2. sup[r].at \notin Showing
    BY <1>8 DEF CopyFolder, CaptureDirty, CloneSource, ApplyOverlay, Due, Committed
  <2>3. {"compare", "clone", "overlay"} \subseteq Steps \ Showing
    BY DEF Steps, Committed
  <2> QED
    BY <1>1, <2>1, <2>2, <2>3 DEF Durable, Committed
<1>9. CASE CompareSource(r)
  <2>1. "failed" \in Steps \ Showing /\ "manifest" \notin Showing /\ "fingerprint" \notin Showing
    BY DEF Steps, Committed
  <2> QED
    BY <1>1, <1>9, <2>1, NextSourceType DEF CompareSource, Durable
<1>10. CASE WriteFlatManifest(r) \/ WriteManifest(r) \/ Probe(r)
  <2>1. {"materialized", "ask"} \subseteq Steps \ Showing
    BY DEF Steps, Committed
  <2> QED
    BY <1>1, <1>10, <2>1 DEF WriteFlatManifest, WriteManifest, PutManifest, Probe
<1>11. CASE AskArchitect(r)
  BY <1>11, Asks DEF Durable, Committed
<1>12. CASE AskFails(r) \/ PlanInvalid(r)
  BY <1>12, AsksAgain DEF AskFails, PlanInvalid, Durable, Committed
<1>13. CASE PlanValid(r)
  BY <1>13, Accepts DEF Durable, Committed
<1>14. CASE Bootstrap(r) \/ CapabilityRefused(r)
  <2>1. "artifacts" \in Steps \ Showing
    BY DEF Steps, Committed
  <2> QED
    BY <1>1, <1>2, <1>14, <2>1 DEF Bootstrap, CapabilityRefused
<1>15. CASE WriteArtifacts(r) /\ sup' = Goes(r, "checkpoint")
  <2>1. "checkpoint" \in Steps
    BY DEF Steps
  <2>2. sup'[r].at = "checkpoint" /\ sup'[r].attempt = sup[r].attempt
    BY <1>15, <2>1, GoesType
  <2>3. planFile'[Root(r)] = <<r, sup[r].attempt>>
    BY <1>0, <1>15 DEF WriteArtifacts
  <2>4. Supervise(r) /\ planFile'[Root(r)] \in Ours(r, sup[r].attempt)
    BY <1>15, <2>3 DEF Supervise, Ours
  <2> QED
    BY <1>0, <1>a, <2>2, <2>4 DEF Durable, Committed
<1>16. CASE CheckpointPlan(r) /\ sup'[r].at = "rewrite"
                /\ planCommit' = [planCommit EXCEPT ![Root(r)] = planFile[Root(r)]]
  <2>1. sup[r].at = "checkpoint" /\ planFile' = planFile /\ Supervise(r)
    BY <1>16 DEF CheckpointPlan, Due, Supervise
  <2>2. sup'[r].attempt = sup[r].attempt /\ planCommit'[Root(r)] = planFile[Root(r)]
    BY <1>0, <1>16, Commits
  <2> QED
    BY <1>0, <1>a, <1>16, <2>1, <2>2 DEF Durable, Committed
<1>17. CASE CheckpointPlan(r) /\ sup'[r].at = "publish" /\ sup'[r].plan = 0
  BY <1>17 DEF Durable, Committed
<1>18. CASE RewriteManifest(r)
  <2>1. sup[r].at = "rewrite" /\ planFile' = planFile /\ planCommit' = planCommit /\ Supervise(r)
    BY <1>18 DEF RewriteManifest, Due, Supervise
  <2>2. sup'[r].at = "publish" /\ sup'[r].plan = sup[r].attempt
    BY <1>18, Rewrites
  <2> QED
    BY <1>0, <1>a, <2>1, <2>2 DEF Durable, Committed
<1>19. CASE Publish(r)
  <2>1. "compiled" \in Steps /\ "refused" \in Steps \ Showing
    BY DEF Steps, Committed
  <2>2. CASE sup[r].plan = 0
    BY <1>1, <1>19, <2>1, <2>2 DEF Publish
  <2>3. CASE sup[r].plan # 0
    <3>1. sup'[r].at = "compiled" /\ sup'[r].plan = sup[r].plan
      BY <1>19, <2>1, <2>3, GoesType DEF Publish
    <3>2. /\ sup[r].at = "publish" /\ planFile' = planFile /\ planCommit' = planCommit /\ Supervise(r)
          /\ lastPlan' = <<r, sup[r].plan>>
      BY <1>19, <2>3 DEF Publish, Due, Supervise, rootVars
    <3>3. lastPlan' \in Ours(r, sup[r].plan)
      BY <3>2 DEF Ours
    <3> QED
      BY <1>0, <1>a, <2>3, <3>1, <3>2, <3>3 DEF Durable, Committed
  <2> QED
    BY <2>2, <2>3
<1>20. CASE LoadPlan(r)
  <2>1. "executing" \in Steps /\ "failed" \in Steps \ Showing
    BY DEF Steps, Committed
  <2>2. CASE sup' = Goes(r, "failed")
    BY <1>1, <2>1, <2>2
  <2>3. CASE scheduled' = [scheduled EXCEPT ![r] = sup[r].plan] /\ sup' = Goes(r, "executing")
    <3>1. sup'[r].at = "executing" /\ sup'[r].plan = sup[r].plan
      BY <2>1, <2>3, GoesAt
    <3>2. sup[r].at = "load" /\ UNCHANGED <<planFile, planCommit, lastPlan>> /\ Supervise(r)
      BY <1>20 DEF LoadPlan, Due, rootVars, memory, Supervise
    <3>3. scheduled'[r] = sup[r].plan
      BY <1>0, <2>3
    <3> QED
      BY <1>0, <1>a, <3>1, <3>2, <3>3 DEF Durable, Committed
  <2> QED
    BY <1>20, <2>2, <2>3 DEF LoadPlan
<1> QED
  BY <1>2, <1>3, <1>4, <1>5, <1>6, <1>7, <1>8, <1>9, <1>10, <1>11, <1>12, <1>13, <1>14, <1>15, <1>16, <1>17,
     <1>18, <1>19, <1>20, Commits DEF Supervise, WriteArtifacts

\* The plans a worker of run r may hold.
OfRun(r) == {<<q, scheduled[q]>> : q \in {r} \cup abandoned}

\* A worker is of a run that is executed, or that left it; it holds the plan of one of these.
Holding(r) ==
  /\ workers[r] # {} => r \in abandoned \/ sup[r].at = "executing"
  /\ workers[r] \subseteq OfRun(r)

DurableInv == AbandonedEnded /\ \A r \in Runs : Durable(r) /\ Holding(r)

\* Before its end a supervisor leaves the workers of every run what they hold.
LEMMA SuperviseHolding ==
  ASSUME TypeInv, SlotInv, DurableInv, NEW r \in Runs, Supervise(r)
  PROVE  AbandonedEnded' /\ \A q \in Runs : Holding(q)'
<1>1. Live(r) /\ \A q \in Runs : q # r => sup'[q] = sup[q]
  BY OwnStep
<1>2. r \in abandoned => sup[r].at = "failed"
  BY <1>1 DEF DurableInv, AbandonedEnded, Live
<1>3. abandoned \subseteq Runs
  BY DEF TypeInv, RunStartTypeOK
<1>4. AbandonedEnded'
  BY <1>1, <1>2, <1>3, SuperviseMoves DEF DurableInv, AbandonedEnded
<1>5. ASSUME NEW q \in Runs PROVE Holding(q)'
  <2>1. CASE workers[q] = {}
    BY <2>1, SuperviseMoves DEF Holding
  <2>2. CASE workers[q] # {}
    <3>1. q = r => r \in abandoned
      BY <2>2, SuperviseMoves DEF DurableInv, Holding
    <3>2. \A p \in {q} \cup abandoned : scheduled'[p] = scheduled[p]
      BY <1>2, <1>3, <3>1, SuperviseMoves
    <3>3. OfRun(q)' = OfRun(q)
      BY <3>2, SuperviseMoves DEF OfRun
    <3> QED
      BY <1>1, <2>2, <3>1, <3>3, SuperviseMoves DEF DurableInv, Holding
  <2> QED
    BY <2>1, <2>2
<1> QED
  BY <1>4, <1>5

\* At its end it joins its workers, has none, or abandons them.
LEMMA EndHolding ==
  ASSUME TypeInv, SlotInv, DurableInv, NEW r \in Runs, EndExecution(r)
  PROVE  AbandonedEnded' /\ \A q \in Runs : Holding(q)'
<1>1. /\ sup[r].at = "executing" /\ (\A q \in Runs : q # r => sup'[q] = sup[q])
      /\ scheduled' = scheduled /\ lastPlan' = lastPlan
  BY OwnStep DEF EndExecution, SettleExecution, AbandonExecution, CancelExecution, Due, memory
<1>2. r \notin abandoned /\ abandoned \subseteq Runs /\ workers \in [Runs -> SUBSET PlanCopies]
  BY <1>1 DEF DurableInv, AbandonedEnded, TypeInv, RunStartTypeOK
<1>3. CASE workers'[r] = {} /\ abandoned' = abandoned /\ \A q \in Runs : q # r => workers'[q] = workers[q]
  BY <1>1, <1>2, <1>3 DEF DurableInv, AbandonedEnded, Holding, OfRun
<1>4. CASE AbandonExecution(r) /\ workers[r] # {}
  <2>1. sup'[r].at = "failed"
    <3>1. "failed" \in Steps
      BY DEF Steps
    <3> QED
      BY <1>4, <3>1, GoesAt DEF AbandonExecution
  <2>2. workers' = workers /\ abandoned' = abandoned \cup {r}
    BY <1>4 DEF AbandonExecution
  <2>3. ASSUME NEW q \in Runs PROVE OfRun(q) \subseteq OfRun(q)'
    BY <1>1, <2>2 DEF OfRun
  <2> QED
    BY <1>1, <1>2, <2>1, <2>2, <2>3 DEF DurableInv, AbandonedEnded, Holding
<1> QED
  BY <1>2, <1>3, <1>4 DEF EndExecution, SettleExecution, AbandonExecution, CancelExecution, memory

\* A step of one supervisor finds no other alive, whose plan it could replace.
LEMMA SuperviseDurable ==
  ASSUME TypeInv, SlotInv, DurableInv, NEW r \in Runs, Supervise(r) \/ EndExecution(r)
  PROVE  DurableInv'
<1>1. ASSUME NEW q \in Runs, q # r PROVE Durable(q)'
  <2>1. ~Live(q) /\ sup'[q] = sup[q]
    BY <1>1, OwnStep DEF SlotInv
  <2>2. sup'[q].at \notin Committed \cup {"checkpoint", "rewrite", "publish"}
    BY <2>1 DEF Live, Committed
  <2> QED
    BY <2>2 DEF Durable, Committed
<1>2. Durable(r)'
  BY DurableOwn DEF DurableInv
<1> QED
  BY <1>1, <1>2, SuperviseHolding, EndHolding DEF DurableInv

\* A worker takes its copy of what AppState has, and puts it in files and back.
LEMMA WorkDurable ==
  ASSUME TypeInv, SlotInv, DurableInv, NEW r \in Runs, Work(r)
  PROVE  DurableInv'
<1>1. /\ UNCHANGED <<kind, sup, abandoned, scheduled>> /\ \A q \in Runs : Root(q)' = Root(q) /\ Root(q) \in Roots
      /\ planFile \in [Roots -> PlanCopies] /\ planCommit \in [Roots -> PlanCopies]
      /\ workers \in [Runs -> SUBSET PlanCopies]
  BY WorkType, SupervisorType DEF commandVars, Root, TypeInv, RunStartTypeOK
<1>2. AbandonedEnded' /\ \A q \in Runs : OfRun(q)' = OfRun(q) /\ \A n : Ours(q, n)' = Ours(q, n)
  BY <1>1 DEF DurableInv, AbandonedEnded, OfRun, Ours
<1>3. /\ \A q \in Runs : planFile'[Root(q)] \in {planFile[Root(q)]} \cup workers[r]
      /\ \A q \in Runs : planCommit'[Root(q)] \in {planCommit[Root(q)], planFile[Root(q)]}
      /\ lastPlan' \in {lastPlan} \cup workers[r]
  BY <1>1 DEF Work, SpawnWorker, WorkerProjects, WorkerCommits, WorkerPublishes, WorkerEnds, rootVars, memory
<1>4. ASSUME NEW q \in Runs, sup[q].at \in Committed \cup {"checkpoint", "rewrite", "publish"}
      PROVE  /\ sup[q].at \in Committed => workers[r] \subseteq Ours(q, sup[q].plan)
             /\ sup[q].at \notin Committed => \A n : workers[r] \subseteq Ours(q, n)
  <2>1. CASE r \in abandoned \/ workers[r] = {}
    BY <2>1 DEF DurableInv, Holding, OfRun, Ours
  <2>2. CASE sup[r].at = "executing"
    <3>1. q = r /\ sup[r].at \in Committed
      BY <1>4, <2>2 DEF SlotInv, Live, Committed
    <3>2. scheduled[r] = sup[r].plan /\ workers[r] \subseteq OfRun(r)
      BY <2>2 DEF DurableInv, Durable, Holding
    <3> QED
      BY <3>1, <3>2 DEF OfRun, Ours
  <2> QED
    BY <2>1, <2>2 DEF DurableInv, Holding
<1>5. ASSUME NEW q \in Runs PROVE Durable(q)'
  <2>1. CASE sup[q].at \in Committed
    <3>1. {lastPlan', planFile'[Root(q)], planCommit'[Root(q)]} \subseteq Ours(q, sup[q].plan)
      BY <1>3, <1>4, <2>1 DEF DurableInv, Durable
    <3> QED
      BY <1>1, <1>2, <2>1, <3>1 DEF DurableInv, Durable, Committed
  <2>2. CASE sup[q].at = "checkpoint"
    BY <1>1, <1>2, <1>3, <1>4, <2>2 DEF DurableInv, Durable, Committed
  <2>3. CASE sup[q].at = "rewrite"
    BY <1>1, <1>2, <1>3, <1>4, <2>3 DEF DurableInv, Durable, Committed
  <2>4. CASE sup[q].at = "publish"
    BY <1>1, <1>2, <1>3, <1>4, <2>4 DEF DurableInv, Durable, Committed
  <2> QED
    BY <1>1, <2>1, <2>2, <2>3, <2>4 DEF Durable, Committed
<1>6. ASSUME NEW q \in Runs PROVE Holding(q)'
  <2>1. CASE workers'[q] \subseteq workers[q]
    BY <1>1, <1>2, <2>1 DEF DurableInv, Holding
  <2>2. CASE SpawnWorker(r) /\ q = r
    <3>1. sup[r].at = "executing" /\ workers'[r] = workers[r] \cup {lastPlan}
      BY <1>1, <2>2 DEF SpawnWorker, Due
    <3>2. lastPlan \in OfRun(r)
      BY <3>1 DEF DurableInv, Durable, Committed, OfRun, Ours
    <3> QED
      BY <1>1, <1>2, <2>2, <3>1, <3>2 DEF DurableInv, Holding
  <2> QED
    BY <1>1, <2>1, <2>2 DEF Work, SpawnWorker, WorkerProjects, WorkerCommits, WorkerPublishes, WorkerEnds, memory
<1> QED
  BY <1>2, <1>5, <1>6 DEF DurableInv

\* The main thread and the user leave the supervisors where they are, but for the start of one.
LEMMA MainKeeps ==
  ASSUME TypeInv, SlotInv, Commands \/ MainGoesOn \/ \E s \in Sequence : EditSource(s)
  PROVE  /\ UNCHANGED <<kind, rootVars, memory, scheduled>>
         /\ \A r \in Runs : /\ sup'[r].source = sup[r].source /\ sup'[r].before = sup[r].before
                            /\ sup'[r].attempt = sup[r].attempt /\ sup'[r].plan = sup[r].plan
                            /\ \/ sup'[r].at = sup[r].at
                               \/ sup[r].at = "none" /\ sup'[r].at \in {"check_preflight", "preflight"}
<1>0. sup \in [Runs -> Supervisors]
  BY DEF TypeInv, RunStartTypeOK
<1>1. CASE StartRun
  <2>1. lastRun + 1 \in Runs
    BY <1>1, RunStartAssumption DEF StartRun, MayStart, TypeInv, RunStartTypeOK, Runs
  <2>2. \A r \in Runs : sup'[r] = sup[r] \/ sup'[r] = [sup[r] EXCEPT !.cached = (preflight = "trusted")]
    BY <1>0, <1>1, <2>1 DEF StartRun
  <2> QED
    BY <1>0, <1>1, <2>2 DEF StartRun, Supervisors
<1>2. CASE Spawn
  <2>1. slot \in Runs /\ sup[slot].at = "none"
    BY <1>2, RunStartAssumption DEF Spawn, SlotInv, TypeInv, RunStartTypeOK, Runs
  <2>2. {"check_preflight", "preflight"} \subseteq Steps
    BY DEF Steps
  <2>3. /\ \A q \in Runs : q # slot => sup'[q] = sup[q]
        /\ sup'[slot].at \in {"check_preflight", "preflight"}
        /\ sup'[slot].source = sup[slot].source /\ sup'[slot].before = sup[slot].before
        /\ sup'[slot].attempt = sup[slot].attempt /\ sup'[slot].plan = sup[slot].plan
    BY <1>2, <2>1, <2>2, GoesType DEF Spawn
  <2> QED
    BY <1>2, <2>1, <2>3 DEF Spawn
<1>3. CASE KillAgents
  BY <1>3, KillAgentsType DEF KillAgents
<1>4. CASE \E s \in Sequence : EditSource(s)
  BY <1>4 DEF EditSource, commandVars
<1> QED
  BY <1>1, <1>2, <1>3, <1>4, MainStep DEF Commands, MainGoesOn

\* In the beginning no plan is kept.
LEMMA InitDurable == Init => DurableInv
<1> SUFFICES ASSUME Init, NEW r \in Runs PROVE AbandonedEnded /\ Durable(r) /\ Holding(r)
  BY DEF DurableInv, Init, AbandonedEnded
<1>1. ~Live(r) /\ workers[r] = {} /\ AbandonedEnded
  BY DEF Init, NoThread, Live, AbandonedEnded
<1> QED
  BY <1>1, DeadDurable DEF Holding

\* Every step keeps what is kept of a plan.
LEMMA DurableStep ==
  ASSUME TypeInv, SlotInv, DurableInv, [Next]_vars
  PROVE  DurableInv'
<1>1. CASE Commands \/ MainGoesOn \/ \E s \in Sequence : EditSource(s)
  <2>1. \A r \in Runs : Durable(r)'
    BY <1>1, MainKeeps DEF DurableInv, Durable, Ours, Committed, Root, rootVars, memory
  <2>2. AbandonedEnded'
    BY <1>1, MainKeeps DEF DurableInv, AbandonedEnded, memory, TypeInv, RunStartTypeOK
  <2>3. \A r \in Runs : Holding(r)'
    BY <1>1, MainKeeps DEF DurableInv, Holding, OfRun, memory
  <2> QED
    BY <2>1, <2>2, <2>3 DEF DurableInv
<1>2. CASE \E r \in Runs : Supervise(r) \/ EndExecution(r)
  BY <1>2, SuperviseDurable
<1>3. CASE \E r \in Runs : Work(r)
  BY <1>3, WorkDurable
<1>4. CASE UNCHANGED vars
  BY <1>4 DEF DurableInv, AbandonedEnded, Durable, Ours, Holding, OfRun, Root, vars, commandVars, rootVars, memory
<1> QED
  BY <1>1, <1>2, <1>3, <1>4 DEF Next

\* The plan a run executes is the one in plan.json, committed, in AppState and with its workers,
\* whatever failed on the way, but for those of runs that ended in an error and left workers at
\* work (run_architect_pipeline, run_supervisor, run_phase_worker).
THEOREM ScheduledPlanDurable == Spec => []ScheduledPlanIsDurable
<1>1. ASSUME DurableInv, NEW r \in Runs, sup[r].at = "executing"
      PROVE  /\ scheduled[r] # 0
             /\ workers[r] \cup {lastPlan, planFile[Root(r)], planCommit[Root(r)]} \subseteq OfRun(r)
  <2>1. Durable(r) /\ Holding(r) /\ sup[r].at \in Committed
    BY <1>1 DEF DurableInv, Committed
  <2>2. scheduled[r] = sup[r].plan /\ Ours(r, sup[r].plan) = OfRun(r)
    BY <1>1, <2>1 DEF Durable, OfRun, Ours
  <2> QED
    BY <2>1, <2>2 DEF Durable, Holding
<1>2. DurableInv => ScheduledPlanIsDurable
  BY <1>1 DEF ScheduledPlanIsDurable, Due, OfRun
<1> QED
  BY <1>2, InitSlot, InitDurable, SlotStep, DurableStep, PTL DEF Spec

(***************************************************************************)
(* The copy of the sources                                                 *)
(***************************************************************************)
Whole == Materialized \cup {"ask"} \cup Asked

\* Source s is at the root of run r as it was fingerprinted, unless an edit was taken back.
AsSeen(r, s) == <<r, s>> \notin undone => copied[r][s] = {sup[r].before[s]}

\* What the root of a run, which is its own, has of the sources: those before the one the
\* supervisor is at as they were fingerprinted, nothing of those after it, and nothing but the
\* fingerprinted content of this one while it has this content, unless an edit was taken back.
CopiedSoFar(r) ==
  /\ sup[r].at \in Copying =>
       /\ manifestFile[r] = {}
       /\ \A s \in Sequence : /\ s < sup[r].source => AsSeen(r, s)
                              /\ s > sup[r].source => copied[r][s] = {}
  /\ sup[r].at \in Early \cup {"fingerprint"} => copied[r][sup[r].source] = {}
  /\ sup[r].at \in Reading =>
       \/ <<r, sup[r].source>> \in undone
       \/ version[sup[r].source] # sup[r].before[sup[r].source]
       \/ copied[r][sup[r].source] \subseteq {sup[r].before[sup[r].source]}
  /\ sup[r].at = "compare" => copied[r][sup[r].source] # {}
  /\ sup[r].at \in Whole => \A s \in Sequence : AsSeen(r, s)

CopiedInv == kind # "notes" => ManifestMeansCopied /\ \A r \in Runs : CopiedSoFar(r)

\* A supervisor that reads nothing and goes on to a place that claims no more.
LEMMA QuietCopied ==
  ASSUME NEW r \in Runs, CopiedSoFar(r), version' = version, undone' = undone,
         copied'[r] = copied[r], sup'[r].before = sup[r].before, sup'[r].source = sup[r].source,
         sup'[r].at \in Copying => sup[r].at \in Copying /\ manifestFile'[r] = manifestFile[r],
         sup'[r].at \in Early \cup {"fingerprint"} => sup[r].at \in Early \cup {"fingerprint"},
         sup'[r].at \in Reading => sup[r].at \in Reading,
         sup'[r].at = "compare" => sup[r].at = "compare" \/ copied[r][sup[r].source] # {},
         sup'[r].at \in Whole => sup[r].at \in Whole
  PROVE  CopiedSoFar(r)'
BY DEF CopiedSoFar, AsSeen

\* A supervisor elsewhere has nothing to show.
LEMMA ElsewhereCopied ==
  ASSUME NEW r \in Runs, sup'[r].at \notin Copying \cup Whole
  PROVE  CopiedSoFar(r)'
BY DEF CopiedSoFar, Copying, Reading

\* A read adds the version of the moment to what has been read of the source.
LEMMA ReadsCopied ==
  ASSUME TypeInv, kind # "notes", NEW r \in Runs, CopiedSoFar(r), sup[r].at \in Reading \ {"compare"}, Copies(r),
         version' = version, undone' = undone, manifestFile' = manifestFile,
         sup' = sup \/ \E step \in Reading : sup' = Goes(r, step)
  PROVE  CopiedSoFar(r)'
<1> DEFINE k == sup[r].source
<1>1. /\ k \in Sequence /\ version[k] \in Versions
      /\ copied'[r] = [copied[r] EXCEPT ![k] = @ \cup {version[k]}]
      /\ copied[r] \in [Sequence -> SUBSET Versions]
  BY ReadsType, SupervisorType DEF Root, TypeInv, RunStartTypeOK
<1>2. sup'[r].before = sup[r].before /\ sup'[r].source = k /\ sup'[r].at \in Reading
  <2>1. Reading \subseteq Steps \ {"done"}
    BY DEF Reading, Steps
  <2> QED
    BY <2>1, GoesType
<1>3. sup'[r].at \notin Early \cup {"fingerprint"} \cup Whole /\ sup[r].at \in Copying
  BY <1>2 DEF Reading, Early, Whole, Materialized, Asked, Copying
<1>4. \A s \in Sequence : s # k => copied'[r][s] = copied[r][s]
  BY <1>1
<1>5. copied'[r][k] = copied[r][k] \cup {version[k]}
  BY <1>1
<1>6. <<r, k>> \in undone \/ version[k] # sup[r].before[k] \/ copied'[r][k] \subseteq {sup[r].before[k]}
  BY <1>5 DEF CopiedSoFar
<1>7. k \in Int /\ \A s \in Sequence : s \in Int
  BY <1>1 DEF Sequence
<1>8. /\ manifestFile[r] = {}
      /\ \A s \in Sequence : /\ s < k => AsSeen(r, s)
                             /\ s > k => copied[r][s] = {}
  BY <1>3 DEF CopiedSoFar
<1>9. /\ manifestFile'[r] = {}
      /\ \A s \in Sequence : /\ s < k => AsSeen(r, s)'
                             /\ s > k => copied'[r][s] = {}
  BY <1>2, <1>4, <1>7, <1>8 DEF AsSeen
<1> QED
  BY <1>2, <1>3, <1>5, <1>6, <1>9 DEF CopiedSoFar

\* The first look at a source: nothing of it has been read.
LEMMA FingerprintCopied ==
  ASSUME TypeInv, NEW r \in Runs, CopiedSoFar(r), Fingerprint(r)
  PROVE  CopiedSoFar(r)'
<1> DEFINE k == sup[r].source
<1>1. FirstRead[kind] \in Reading \ {"compare"}
  BY DEF Fingerprint, TypeInv, RunStartTypeOK, FirstRead, Reading
<1>2. /\ k \in Sequence /\ version[k] \in Versions
      /\ sup'[r].at \in Reading \ {"compare"} /\ sup'[r].source = k
      /\ sup'[r].before = [sup[r].before EXCEPT ![k] = version[k]]
  BY <1>1, FingerprintTaken DEF Fingerprint
<1>3. sup[r].before \in [Sequence -> Versions \cup {None}]
  BY SupervisorType DEF Fingerprints
<1>4. sup'[r].before[k] = version[k] /\ \A s \in Sequence : s # k => sup'[r].before[s] = sup[r].before[s]
  BY <1>2, <1>3
<1>5. /\ sup[r].at = "fingerprint" /\ copied' = copied /\ manifestFile' = manifestFile
      /\ version' = version /\ undone' = undone
  BY DEF Fingerprint, Due, rootVars, userVars
<1>6. sup'[r].at \notin Early \cup {"fingerprint"} \cup Whole /\ sup[r].at \in Copying
  BY <1>2, <1>5 DEF Reading, Early, Whole, Materialized, Asked, Copying
<1>7. /\ copied[r][k] = {} /\ manifestFile[r] = {}
      /\ \A s \in Sequence : /\ s < k => AsSeen(r, s)
                             /\ s > k => copied[r][s] = {}
  BY <1>5, <1>6 DEF CopiedSoFar
<1>8. k \in Int /\ (\A s \in Sequence : s \in Int)
  BY <1>2 DEF Sequence
<1>9. \A s \in Sequence : /\ s < k => AsSeen(r, s)'
                          /\ s > k => copied'[r][s] = {}
  BY <1>4, <1>5, <1>7, <1>8 DEF AsSeen
<1> QED
  BY <1>2, <1>4, <1>5, <1>6, <1>7, <1>9 DEF CopiedSoFar

\* A source that is as it was has been read as it was, unless an edit was taken back.
LEMMA CompareSourceCopied ==
  ASSUME TypeInv, NEW r \in Runs, CopiedSoFar(r), CompareSource(r)
  PROVE  CopiedSoFar(r)'
<1> DEFINE k == sup[r].source
<1>1. CASE sup' = Goes(r, "failed")
  <2>1. "failed" \in Steps \ (Copying \cup Whole)
    BY DEF Steps, Copying, Early, Reading, Whole, Materialized, Asked
  <2> QED
    BY <1>1, <2>1, GoesAt, ElsewhereCopied
<1>2. CASE version[k] = sup[r].before[k] /\ sup' = NextSource(r)
  <2>1. /\ k \in Sequence /\ sup'[r].source = k + 1 /\ sup'[r].before = sup[r].before
        /\ sup'[r].at = (IF k = Sources THEN "manifest" ELSE "fingerprint")
    BY <1>2, NextSourceType DEF CompareSource
  <2>2. /\ sup[r].at = "compare" /\ copied' = copied /\ manifestFile' = manifestFile
        /\ version' = version /\ undone' = undone
    BY DEF CompareSource, Due, rootVars, userVars
  <2>3. /\ copied[r][k] # {} /\ manifestFile[r] = {}
        /\ <<r, k>> \in undone \/ copied[r][k] \subseteq {sup[r].before[k]}
        /\ \A s \in Sequence : /\ s < k => AsSeen(r, s)
                               /\ s > k => copied[r][s] = {}
    BY <1>2, <2>2 DEF CopiedSoFar, Copying, Reading
  <2>4. AsSeen(r, k)
    BY <2>3 DEF AsSeen
  <2>5. \A s \in Sequence : AsSeen(r, s)' <=> AsSeen(r, s)
    BY <2>1, <2>2 DEF AsSeen
  <2>6. \A s \in Sequence : /\ s < k + 1 => AsSeen(r, s)'
                            /\ s > k + 1 => copied[r][s] = {}
    BY <2>1, <2>3, <2>4, <2>5 DEF Sequence
  <2>7. CASE k = Sources
    <3>1. \A s \in Sequence : s < k + 1
      BY <2>7, RunStartAssumption DEF Sequence
    <3>2. sup'[r].at = "manifest" /\ "manifest" \notin Copying
      BY <2>1, <2>7 DEF Copying, Early, Reading
    <3> QED
      BY <2>1, <2>2, <2>6, <3>1, <3>2 DEF CopiedSoFar, Copying
  <2>8. CASE k # Sources
    <3>1. k + 1 \in Sequence /\ copied[r][k + 1] = {}
      BY <2>1, <2>3, <2>8, RunStartAssumption DEF Sequence
    <3>2. sup'[r].at = "fingerprint" /\ "fingerprint" \notin Reading \cup Whole
      BY <2>1, <2>8 DEF Reading, Whole, Materialized, Asked
    <3> QED
      BY <2>1, <2>2, <2>3, <2>6, <3>1, <3>2 DEF CopiedSoFar
  <2> QED
    BY <2>7, <2>8
<1> QED
  BY <1>1, <1>2 DEF CompareSource

\* A step of a supervisor keeps what its root has of the sources.
LEMMA CopiedOwn ==
  ASSUME TypeInv, kind # "notes", NEW r \in Runs, CopiedSoFar(r), Supervise(r) \/ EndExecution(r)
  PROVE  CopiedSoFar(r)'
<1> DEFINE Elsewhere == Steps \ (Copying \cup Whole)
<1>0. sup \in [Runs -> Supervisors] /\ version' = version /\ undone' = undone /\ Root(r) = r
  BY SupervisorType, OwnStep DEF Root, userVars
<1>1. CASE \E step \in Elsewhere : sup' = Goes(r, step)
  BY <1>1, GoesAt, ElsewhereCopied
<1>2. CASE sup' = NoPlan(r)
  <2>1. "publish" \notin Copying \cup Whole
    BY DEF Copying, Early, Reading, Whole, Materialized, Asked
  <2> QED
    BY <1>2, <2>1, NoPlanType, ElsewhereCopied
<1>3. {"failed", "cancelled", "cancelled_early", "done", "refused", "compiled", "executing", "check_compiled",
       "execute", "load", "publish"} \subseteq Elsewhere
  BY DEF Steps, Copying, Early, Reading, Whole, Materialized, Asked
<1>4. ASSUME NEW step \in Steps \ {"done"}, sup' = Goes(r, step), UNCHANGED rootVars,
             \/ step \in Early /\ sup[r].at \in Early
             \/ step = "fingerprint" /\ sup[r].at \in Early
             \/ step \in Whole /\ sup[r].at \in Whole
      PROVE  CopiedSoFar(r)'
  <2>1. /\ sup'[r].at = step /\ sup'[r].before = sup[r].before /\ sup'[r].source = sup[r].source
        /\ copied'[r] = copied[r] /\ manifestFile'[r] = manifestFile[r]
    BY <1>4, GoesType DEF rootVars
  <2>2. CASE step \in Whole /\ sup[r].at \in Whole
    <3>1. step \notin Copying /\ step # "compare"
      BY <2>2 DEF Copying, Early, Reading, Whole, Materialized, Asked
    <3> QED
      BY <1>0, <2>1, <2>2, <3>1, QuietCopied DEF Copying
  <2>3. CASE step \in Early \cup {"fingerprint"} /\ sup[r].at \in Early
    <3>1. step \notin Reading \cup Whole /\ sup[r].at \in Copying /\ step # "compare"
      BY <2>3 DEF Copying, Early, Reading, Whole, Materialized, Asked
    <3> QED
      BY <1>0, <2>1, <2>3, <3>1, QuietCopied
  <2> QED
    BY <1>4, <2>2, <2>3
<1>5. CASE WriteStatus(r) \/ EmitEvent(r)
  <2>1. PICK step \in DOMAIN StatusAt \cup EventSteps :
          Due(r, step) /\ sup' = Goes(r, After(step)) /\ UNCHANGED rootVars
    BY <1>5 DEF WriteStatus, EmitEvent
  <2>2. \/ step \in {"announce", "preflighting", "planning", "materialized"}
        \/ After(step) \in {"failed", "done", "check_compiled", "load"}
    BY AfterStep DEF EventSteps
  <2>3. CASE step \in {"announce", "preflighting", "planning", "materialized"}
    <3>1. /\ step = "announce" => After(step) \in Early
          /\ step = "preflighting" => After(step) = "fingerprint"
          /\ step \in {"planning", "materialized"} => After(step) \in Whole
          /\ After(step) \in Steps \ {"done"}
          /\ {"announce", "preflighting"} \subseteq Early /\ {"planning", "materialized"} \subseteq Whole
      BY <2>3, AfterStep DEF Early, Whole, Materialized, Steps
    <3> QED
      BY <1>4, <2>1, <2>3, <3>1 DEF Due
  <2> QED
    BY <1>1, <1>3, <2>1, <2>2, <2>3
<1>6. CASE CheckCancel(r)
  <2>1. PICK step \in DOMAIN AfterCheck : CheckCancel(r)!(step)
    BY <1>6 DEF CheckCancel
  <2>2. CASE r \in cancel \/ step = "check_compiled"
    <3>1. \E to \in Elsewhere : sup' = Goes(r, to)
      BY <1>3, <2>1, <2>2 DEF AfterCheck
    <3> QED
      BY <1>1, <3>1
  <2>3. CASE r \notin cancel /\ step \in {"check_preflight", "check_started"}
    <3>1. AfterCheck[step] \in Early /\ step \in Early /\ AfterCheck[step] \in Steps \ {"done"}
      BY <2>3 DEF AfterCheck, Early, Steps
    <3> QED
      BY <1>4, <2>1, <2>3, <3>1 DEF Due
  <2>4. CASE r \notin cancel /\ step = "check_materialized"
    <3>1. sup' = Goes(r, "planning") /\ {"planning", "check_materialized"} \subseteq Whole /\ "planning" \in Steps \ {"done"}
      BY <2>1, <2>4 DEF AfterCheck, Whole, Materialized, Steps
    <3> QED
      BY <1>4, <2>1, <2>4, <3>1 DEF Due
  <2> QED
    BY <2>2, <2>3, <2>4 DEF AfterCheck
<1>7. CASE StoreFails(r) \/ EventFails(r) \/ PreflightInThread(r) \/ MaterializeFails(r) \/ EndExecution(r)
           \/ Publish(r) \/ LoadPlan(r)
  <2>1. \E step \in {"failed", "done", "cancelled", "refused", "compiled", "executing"} : sup' = Goes(r, step)
    BY <1>7 DEF StoreFails, EventFails, PreflightInThread, MaterializeFails, EndExecution, SettleExecution, AbandonExecution, CancelExecution, Publish, LoadPlan
  <2> QED
    BY <1>1, <1>3, <2>1
<1>8. CASE CopyFolder(r) \/ ApplyOverlay(r) \/ CloneSource(r) \/ (CaptureDirty(r) /\ Copies(r))
  <2>1. /\ sup[r].at \in Reading \ {"compare"} /\ Copies(r) /\ version' = version /\ manifestFile' = manifestFile
        /\ sup' = sup \/ \E step \in Reading : sup' = Goes(r, step)
    BY <1>8 DEF CopyFolder, CaptureDirty, CloneSource, ApplyOverlay, Due, Reading
  <2> QED
    BY <1>0, <2>1, ReadsCopied
<1>9. CASE CaptureDirty(r) /\ copied' = copied
  <2>1. sup' = Goes(r, "clone") /\ "clone" \in Steps \ {"done"} /\ manifestFile' = manifestFile
    BY <1>9 DEF CaptureDirty, Steps
  <2>2. sup'[r].at = "clone" /\ sup'[r].before = sup[r].before /\ sup'[r].source = sup[r].source
    BY <2>1, GoesType
  <2>3. sup[r].at \in Reading /\ "clone" \in Reading /\ sup[r].at \in Copying
        /\ "clone" \notin Early \cup {"fingerprint"} \cup Whole
    BY <1>9 DEF CaptureDirty, Due, Copying, Early, Reading, Whole, Materialized, Asked
  <2> QED
    BY <1>0, <1>9, <2>1, <2>2, <2>3, QuietCopied
<1>10. CASE WriteFlatManifest(r) \/ WriteManifest(r)
  <2>1. sup[r].at = "manifest" /\ sup' = Goes(r, "materialized") /\ "materialized" \in Steps \ {"done"} /\ copied' = copied
    BY <1>10 DEF WriteFlatManifest, WriteManifest, PutManifest, Due, Steps
  <2>2. sup'[r].at = "materialized" /\ sup'[r].before = sup[r].before /\ sup'[r].source = sup[r].source
    BY <2>1, GoesType
  <2>3. {"manifest", "materialized"} \subseteq Whole /\ "materialized" \notin Copying /\ "fingerprint" \in Copying
    BY DEF Copying, Early, Reading, Whole, Materialized
  <2> QED
    BY <1>0, <2>1, <2>2, <2>3, QuietCopied DEF Copying
<1>11. CASE Probe(r)
  <2>1. sup[r].at \in Whole /\ "ask" \in Whole /\ "ask" \in Steps \ {"done"}
    BY <1>11 DEF Probe, Due, Whole, Materialized, Steps
  <2> QED
    BY <1>4, <1>11, <2>1 DEF Probe
<1>12. CASE AskArchitect(r) \/ AskFails(r) \/ PlanInvalid(r) \/ PlanValid(r)
  <2>1. /\ sup'[r].before = sup[r].before /\ sup'[r].source = sup[r].source
        /\ sup'[r].at \in {"ask", "asking", "bootstrap", "publish"}
    BY <1>12, Asks, AsksAgain, Accepts DEF AskFails, PlanInvalid
  <2>2. copied' = copied /\ sup[r].at \in Whole
    BY <1>12 DEF AskArchitect, AskFails, PlanInvalid, PlanValid, Due, Whole, Asked, rootVars
  <2>3. {"ask", "asking", "bootstrap", "publish"} \cap Copying = {}
    BY DEF Copying, Early, Reading
  <2> QED
    BY <1>0, <2>1, <2>2, <2>3, QuietCopied DEF Copying
<1>13. CASE Bootstrap(r) \/ CapabilityRefused(r)
  <2>1. CASE sup' = Goes(r, "artifacts")
    <3>1. UNCHANGED rootVars /\ sup[r].at \in Whole /\ "artifacts" \in Whole /\ "artifacts" \in Steps \ {"done"}
      BY <1>13 DEF Bootstrap, CapabilityRefused, Due, Whole, Asked, Materialized, Steps
    <3> QED
      BY <1>4, <2>1, <3>1
  <2> QED
    BY <1>2, <1>13, <2>1 DEF Bootstrap, CapabilityRefused
<1>14. CASE WriteArtifacts(r) /\ sup' = Goes(r, "checkpoint")
  <2>1. sup[r].at \in Whole /\ "checkpoint" \in Whole /\ "checkpoint" \in Steps \ {"done"} /\ copied' = copied
        /\ manifestFile' = manifestFile
    BY <1>14 DEF WriteArtifacts, Due, Whole, Asked, Steps
  <2>2. sup'[r].at = "checkpoint" /\ sup'[r].before = sup[r].before /\ sup'[r].source = sup[r].source
    BY <1>14, <2>1, GoesType
  <2>3. "checkpoint" \notin Copying
    BY DEF Copying, Early, Reading
  <2> QED
    BY <1>0, <2>1, <2>2, <2>3, QuietCopied DEF Copying
<1>15. CASE CheckpointPlan(r) /\ sup'[r].at = "rewrite"
  <2>1. sup[r].at \in Whole /\ "rewrite" \in Whole /\ copied' = copied /\ sup'[r].before = sup[r].before
    BY <1>15, Commits DEF CheckpointPlan, Due, Whole, Asked
  <2>2. "rewrite" \notin Copying
    BY DEF Copying, Early, Reading
  <2> QED
    BY <1>0, <1>15, <2>1, <2>2 DEF CopiedSoFar, Copying, Early, Reading, AsSeen
<1>16. CASE (CheckpointPlan(r) \/ RewriteManifest(r)) /\ sup'[r].at = "publish"
  BY <1>3, <1>16, ElsewhereCopied
<1> QED
  BY <1>0, <1>2, <1>5, <1>6, <1>7, <1>8, <1>9, <1>10, <1>11, <1>12, <1>13, <1>14, <1>15, <1>16,
     Commits, Rewrites, FingerprintCopied, CompareSourceCopied
     DEF Supervise, FingerprintNotes, WriteArtifacts, CaptureDirty

\* A manifest is written when everything has been copied, and nothing is read after it.
LEMMA ManifestOwn ==
  ASSUME TypeInv, kind # "notes", NEW r \in Runs, CopiedSoFar(r), ManifestMeansCopied,
         Supervise(r) \/ EndExecution(r)
  PROVE  ManifestMeansCopied'
<1>0. Root(r) = r /\ Root(r) \in Roots /\ kind' = kind /\ undone' = undone
  BY SupervisorType, OwnStep DEF Root, commandVars, userVars
<1>1. \A o \in Roots : o # r => copied'[o] = copied[o] /\ manifestFile'[o] = manifestFile[o]
  BY <1>0, OwnStep
<1>2. \A m \in manifestFile'[r] : \A s \in Sequence : <<r, s>> \notin undone => copied'[r][s] = {m.before[s]}
  <2>1. CASE CopyFolder(r) \/ CaptureDirty(r) \/ CloneSource(r) \/ ApplyOverlay(r)
    <3>1. manifestFile' = manifestFile /\ sup[r].at \in Copying
      BY <2>1 DEF CopyFolder, CaptureDirty, CloneSource, ApplyOverlay, Due, Copying, Reading
    <3> QED
      BY <3>1 DEF CopiedSoFar
  <2>2. CASE WriteFlatManifest(r) \/ WriteManifest(r) \/ RewriteManifest(r)
    <3>1. sup[r].at \in Whole /\ copied' = copied
      BY <2>2 DEF WriteFlatManifest, WriteManifest, PutManifest, RewriteManifest, Due, Whole, Materialized, Asked
    <3>2. manifestFile' = [manifestFile EXCEPT ![Root(r)] = {Manifest(r)}] \/ manifestFile' = manifestFile
      BY <2>2 DEF WriteFlatManifest, WriteManifest, PutManifest, RewriteManifest
    <3>3. \A s \in Sequence : <<r, s>> \notin undone => copied[r][s] = {sup[r].before[s]}
      BY <3>1 DEF CopiedSoFar, AsSeen
    <3>4. Manifest(r).before = sup[r].before
      BY DEF Manifest
    <3>5. CASE manifestFile' = [manifestFile EXCEPT ![Root(r)] = {Manifest(r)}]
      BY <1>0, <3>1, <3>3, <3>4, <3>5, ManifestWritten
    <3>6. CASE manifestFile' = manifestFile
      BY <1>0, <3>1, <3>6 DEF ManifestMeansCopied
    <3> QED
      BY <3>2, <3>5, <3>6
  <2>3. CASE UNCHANGED <<copied, manifestFile>>
    BY <1>0, <2>3 DEF ManifestMeansCopied
  <2>4. \/ CopyFolder(r) \/ CaptureDirty(r) \/ CloneSource(r) \/ ApplyOverlay(r)
        \/ WriteFlatManifest(r) \/ WriteManifest(r) \/ RewriteManifest(r) \/ UNCHANGED <<copied, manifestFile>>
    BY DEF Supervise, WriteStatus, EmitEvent, StoreFails, EventFails, CheckCancel, PreflightInThread, FingerprintNotes,
           Fingerprint, CompareSource, MaterializeFails, Probe, CapabilityRefused, AskArchitect,
           AskFails, PlanInvalid, PlanValid, Bootstrap, WriteArtifacts, CheckpointPlan, Publish, LoadPlan,
           EndExecution, SettleExecution, AbandonExecution, CancelExecution, rootVars
  <2> QED
    BY <2>1, <2>2, <2>3, <2>4
<1> QED
  BY <1>0, <1>1, <1>2 DEF ManifestMeansCopied

\* A step of one supervisor keeps what every root has of the sources.
LEMMA SuperviseCopied ==
  ASSUME TypeInv, CopiedInv, NEW r \in Runs, Supervise(r) \/ EndExecution(r)
  PROVE  CopiedInv'
<1>0. kind' = kind /\ version' = version /\ undone' = undone
  BY OwnStep DEF commandVars, userVars
<1> SUFFICES ASSUME kind # "notes" PROVE ManifestMeansCopied' /\ \A q \in Runs : CopiedSoFar(q)'
  BY <1>0 DEF CopiedInv
<1>1. ASSUME NEW q \in Runs, q # r PROVE CopiedSoFar(q)'
  <2>1. q \in Roots /\ q # Root(r)
    BY <1>1, RunStartAssumption DEF Root, Roots, Runs
  <2>2. sup'[q] = sup[q] /\ copied'[q] = copied[q] /\ manifestFile'[q] = manifestFile[q]
    BY <1>1, <2>1, OwnStep
  <2> QED
    BY <1>0, <2>2 DEF CopiedInv, CopiedSoFar, AsSeen
<1> QED
  BY <1>1, CopiedOwn, ManifestOwn DEF CopiedInv

\* An edit that brings back what was fingerprinted is taken note of, and any other leaves the
\* source different from it.
LEMMA EditSourceCopied ==
  ASSUME TypeInv, CopiedInv, NEW s \in Sequence, EditSource(s)
  PROVE  CopiedInv'
<1>1. UNCHANGED <<kind, sup, copied, manifestFile>> /\ undone \subseteq undone'
  BY DEF EditSource, commandVars, rootVars
<1> SUFFICES ASSUME kind # "notes" PROVE ManifestMeansCopied' /\ \A r \in Runs : CopiedSoFar(r)'
  BY <1>1 DEF CopiedInv
<1>2. ManifestMeansCopied'
  BY <1>1 DEF CopiedInv, ManifestMeansCopied
<1>3. ASSUME NEW r \in Runs PROVE CopiedSoFar(r)'
  <2>1. \A t \in Sequence : AsSeen(r, t) => AsSeen(r, t)'
    BY <1>1 DEF AsSeen
  <2>2. ASSUME sup[r].at \in Reading
        PROVE  \/ <<r, sup[r].source>> \in undone'
               \/ version'[sup[r].source] # sup[r].before[sup[r].source]
               \/ copied[r][sup[r].source] \subseteq {sup[r].before[sup[r].source]}
    <3>1. PICK v \in 0..edits' :
            /\ version' = [version EXCEPT ![s] = v]
            /\ undone' = undone \cup {<<Root(q), s>> : q \in {p \in Runs : Reads(p, s) /\ sup[p].before[s] = v}}
      BY DEF EditSource
    <3>2. sup[r].source \in Sequence /\ version \in [Sequence -> Versions]
      BY <2>2, SupervisorType, RunStartAssumption DEF TypeInv, RunStartTypeOK, Counts, Sequence
    <3>3. CASE sup[r].source # s
      BY <1>1, <2>2, <3>1, <3>2, <3>3 DEF CopiedInv, CopiedSoFar
    <3>4. CASE sup[r].source = s /\ sup[r].before[s] # v
      BY <3>1, <3>2, <3>4
    <3>5. CASE sup[r].source = s /\ sup[r].before[s] = v
      <4>1. Reads(r, s) /\ Root(r) = r
        BY <2>2, <3>5 DEF Reads, Root
      <4> QED
        BY <3>1, <3>5, <4>1
    <3> QED
      BY <3>3, <3>4, <3>5
  <2> QED
    BY <1>1, <2>1, <2>2 DEF CopiedInv, CopiedSoFar
<1> QED
  BY <1>2, <1>3

\* In the beginning nothing has been copied.
LEMMA InitCopied == Init => CopiedInv
<1> SUFFICES ASSUME Init PROVE CopiedInv
  OBVIOUS
<1>1. ManifestMeansCopied
  BY DEF Init, ManifestMeansCopied
<1>2. ASSUME NEW r \in Runs PROVE CopiedSoFar(r)
  <2>1. sup[r].at = "none" /\ sup[r].source = 1
    BY DEF Init, NoThread
  <2>2. r \in Roots /\ 1 \in Sequence /\ \A s \in Sequence : ~(s < 1)
    BY RunStartAssumption DEF Roots, Runs, Sequence
  <2>3. manifestFile[r] = {} /\ \A s \in Sequence : copied[r][s] = {}
    BY <2>2 DEF Init
  <2>4. "none" \notin Reading \cup Whole
    BY DEF Reading, Whole, Materialized, Asked
  <2> QED
    BY <2>1, <2>2, <2>3, <2>4 DEF CopiedSoFar
<1> QED
  BY <1>1, <1>2 DEF CopiedInv

\* Every step keeps what has been copied.
LEMMA CopiedStep ==
  ASSUME TypeInv, SlotInv, CopiedInv, [Next]_vars
  PROVE  CopiedInv'
<1>1. CASE Commands \/ MainGoesOn
  <2>1. UNCHANGED <<kind, copied, manifestFile, version, undone>>
    BY <1>1, MainKeeps, MainStep DEF Commands, MainGoesOn, StartRun, Spawn, KillAgents, rootVars, userVars
  <2>2. ManifestMeansCopied' <=> ManifestMeansCopied
    BY <2>1 DEF ManifestMeansCopied
  <2>3. ASSUME NEW r \in Runs, CopiedSoFar(r) PROVE CopiedSoFar(r)'
    <3>1. /\ sup'[r].source = sup[r].source /\ sup'[r].before = sup[r].before
          /\ \/ sup'[r].at = sup[r].at
             \/ sup[r].at \in Early /\ sup'[r].at \in Early
      BY <1>1, MainKeeps DEF Early
    <3>2. Early \cap (Reading \cup Whole) = {} /\ Early \subseteq Copying /\ "compare" \notin Early
      BY DEF Early, Copying, Reading, Whole, Materialized, Asked
    <3> QED
      BY <2>1, <2>3, <3>1, <3>2 DEF CopiedSoFar, AsSeen
  <2> QED
    BY <2>1, <2>2, <2>3 DEF CopiedInv
<1>2. CASE \E s \in Sequence : EditSource(s)
  BY <1>2, EditSourceCopied
<1>3. CASE \E r \in Runs : Supervise(r) \/ EndExecution(r)
  BY <1>3, SuperviseCopied
<1>4. CASE \E r \in Runs : Work(r)
  BY <1>4, WorkType DEF CopiedInv, ManifestMeansCopied, CopiedSoFar, AsSeen, commandVars, userVars
<1>5. CASE UNCHANGED vars
  BY <1>5 DEF CopiedInv, ManifestMeansCopied, CopiedSoFar, AsSeen, vars, commandVars, userVars, rootVars
<1> QED
  BY <1>1, <1>2, <1>3, <1>4, <1>5 DEF Next

\* A manifest.json stands for a whole copy of what its fingerprints are of, however the user edits
\* the sources meanwhile, but for edits that are taken back before the second look
\* (materialize_isolated_workspace).
THEOREM ManifestIsTrue == Spec => []ManifestMeansCopied
<1>1. CopiedInv => ManifestMeansCopied
  BY DEF CopiedInv, ManifestMeansCopied
<1> QED
  BY <1>1, InitSlot, InitCopied, SlotStep, CopiedStep, PTL DEF Spec
=============================================================================
