--------------------------- MODULE ProcessProofs ---------------------------
(***************************************************************************)
(* Proofs about ProcessHost, for any number of workers and calls.          *)
(***************************************************************************)
EXTENDS ProcessHost, TLAPS

(* What the position of a worker says of its process.                      *)
CallOK(w) ==
  /\ pc[w] \in Calling => turn[w] \in 1..Turns
  /\ pc[w] \in {"spawn", "writing", "fallback", "suspended", "feeding", "spawned"}
       => record[Current(w)] = "registered"
  /\ pc[w] = "recorded" => record[Current(w)] = "spawned"
  /\ pc[w] \in {"active", "waiting"} => record[Current(w)] = "active"
  /\ pc[w] \in {"grace", "reaping", "count", "prove", "close", "finish"}
       => record[Current(w)] \in {"active", "graceful_stop", "forced_stop"}
  /\ pc[w] \in {"spawn", "fallback"} => tree[Current(w)] = {}
  /\ pc[w] \in {"spawn", "fallback", "suspended"} => job[Current(w)] = "none"
  /\ pc[w] \in Calling \ {"spawn", "fallback", "suspended"} => job[Current(w)] # "none"
  /\ pc[w] \in Calling \ {"close", "finish", "drop"} => proof[Current(w)] = "none"

CallInv == \A w \in Workers : CallOK(w)

(* What is known of every process.                                         *)
ProcOK(p) ==
  /\ p[2] > turn[p[1]] =>
       record[p] = "none" /\ tree[p] = {} /\ job[p] = "none" /\ proof[p] = "none"
  /\ job[p] = "open" => Hosting(p)
  /\ job[p] = "none" /\ tree[p] # {} => record[p] = "registered"
  /\ p \in lives => Hosting(p) /\ pc[p[1]] \in {"waiting", "grace", "reaping"}
  /\ proof[p] = "zero" => tree[p] = {}

ProcInv == \A p \in Procs : ProcOK(p)

(* After a crash nothing is hosted; the scan accounts for every active     *)
(* record or fails hard.                                                   *)
BootInv ==
  /\ ~up \/ offer # "none" => sup = "off" /\ \A w \in Workers : pc[w] = "idle"
  /\ ~up /\ ~hard => Active \subseteq todo
  /\ up /\ offer \in {"pending", "resumed"} => Active = {}
  /\ offer = "cancelled" => Active = {}

IInv == HostTypeOK /\ CallInv /\ ProcInv /\ BootInv

-----------------------------------------------------------------------------
(* The process of a call is a process; tuples are equal by components.     *)
LEMMA CurrentProc ==
  ASSUME NEW w \in Workers, turn[w] \in 1..Turns
  PROVE  Current(w) \in Procs
BY DEF Current, Procs

\* The parts of the invariant that speak of one process.
LEMMA ProcParts ==
  ASSUME NEW p \in Procs
  PROVE  p[1] \in Workers /\ p[2] \in 1..Turns /\ p = <<p[1], p[2]>>
BY DEF Procs

(* The initial state satisfies the invariant.                              *)
LEMMA InitInv == Init => IInv
<1> USE HostAssumption DEF HostAssumption
<1> SUFFICES ASSUME Init PROVE IInv
  OBVIOUS
<1>1. HostTypeOK
  <2>1. /\ tree \in [Procs -> SUBSET {"main", "child"}]
        /\ job \in [Procs -> {"none", "open", "doomed"}]
        /\ record \in [Procs -> RecordStates]
        /\ proof \in [Procs -> {"none", "zero", "left"}]
    BY DEF Init, RecordStates
  <2>2. abort \in [pc : {"idle", "poll", "gate", "write"}, forced : BOOLEAN,
                   locked : BOOLEAN, named : BOOLEAN, stopped : BOOLEAN]
    BY DEF Init, NoAbort
  <2>3. /\ pc \in [Workers -> Calling \cup {"idle", "due"}]
        /\ turn \in [Workers -> 0..Turns]
    BY DEF Init
  <2>4. presses \in 0..MaxPresses /\ crashes \in 0..MaxCrashes
    BY DEF Init
  <2> QED
    BY <2>1, <2>2, <2>3, <2>4 DEF Init, HostTypeOK, RunStates
<1>2. CallInv
  BY DEF Init, CallInv, CallOK, Calling
<1>3. ProcInv
  BY ProcParts DEF Init, ProcInv, ProcOK
<1>4. BootInv
  BY DEF Init, BootInv, Active
<1> QED BY <1>1, <1>2, <1>3, <1>4 DEF IInv

-----------------------------------------------------------------------------
(* Type correctness of every step.                                         *)
LEMMA TypeStep == ASSUME IInv, Next PROVE HostTypeOK'
<1> USE HostAssumption DEF HostAssumption
<1> USE DEF IInv
<1>1. ASSUME Supervisor PROVE HostTypeOK'
  BY <1>1 DEF Supervisor, SetStatus, RoundBegins, RoundEnds, CancelObserved, Joined, SupervisorFails,
     Launch, WorkerEnds, HostTypeOK, runVars, flagVars, osVars, proofVars, abortVars,
     bootVars, RunStates
<1>2. ASSUME NEW w \in Workers, Register(w) PROVE HostTypeOK'
  BY <1>2 DEF Register, Goto, HostTypeOK, runVars, flagVars, osVars, proofVars, abortVars,
     bootVars, Calling, RecordStates, Procs
<1>3. ASSUME NEW w \in Workers, Spawn(w) \/ FallBack(w) \/ SpawnSuspended(w) \/ Assign(w)
      PROVE HostTypeOK'
  BY <1>3 DEF Spawn, FallBack, SpawnSuspended, Assign, Goto, HostTypeOK, runVars, flagVars, osVars,
     proofVars, abortVars, bootVars, Calling
<1>4. ASSUME NEW w \in Workers,
             LeaveSuspended(w) \/ PromptRead(w) \/ SpawnFails(w) \/ HostFails(w) \/ DropJob(w)
      PROVE HostTypeOK'
  BY <1>4 DEF LeaveSuspended, PromptRead, SpawnFails, HostFails, DropJob, Closed, Goto,
     HostTypeOK, runVars, flagVars, osVars, proofVars, abortVars, bootVars, Calling
<1>5. ASSUME NEW w \in Workers, RecordSpawned(w) \/ RecordActive(w) \/ RecordReaped(w)
      PROVE HostTypeOK'
  BY <1>5 DEF RecordSpawned, RecordActive, RecordReaped, Goto, HostTypeOK, runVars, flagVars,
     osVars, proofVars, abortVars, bootVars, Calling, RecordStates
<1>6. ASSUME NEW w \in Workers, EnterLives(w) \/ LeaveLives(w) \/ WaitFails(w)
      PROVE HostTypeOK'
  <2>1. pc[w] \in Calling /\ Current(w) \in Procs
    BY <1>6, CurrentProc DEF EnterLives, LeaveLives, WaitFails, CallInv, CallOK, Calling
  <2>2. lives' \subseteq Procs /\ cancel' \subseteq lives' /\ force' \subseteq lives'
    BY <1>6, <2>1 DEF EnterLives, LeaveLives, WaitFails, HostTypeOK
  <2>3. job' \in [Procs -> {"none", "open", "doomed"}]
    BY <1>6 DEF EnterLives, LeaveLives, WaitFails, Closed, osVars, HostTypeOK
  <2>4. pc' \in [Workers -> Calling \cup {"idle", "due"}]
    BY <1>6 DEF EnterLives, LeaveLives, WaitFails, Goto, Calling, HostTypeOK
  <2> QED
    BY <1>6, <2>2, <2>3, <2>4 DEF EnterLives, LeaveLives, WaitFails, HostTypeOK, runVars,
       osVars, proofVars, abortVars, bootVars
<1>7. ASSUME NEW w \in Workers,
             SeeForce(w) \/ SeeCancel(w) \/ TimeOut(w) \/ SeeExit(w) \/ ForceAfterGrace(w)
      PROVE HostTypeOK'
  BY <1>7 DEF SeeForce, SeeCancel, TimeOut, SeeExit, ForceAfterGrace, Upsert, Doomed, Goto,
     HostTypeOK, runVars, flagVars, osVars, proofVars, abortVars, bootVars, Calling, RecordStates
<1>8. ASSUME NEW w \in Workers, CountMembers(w) \/ Prove(w) \/ ProveClosed(w)
      PROVE HostTypeOK'
  <2>1. pc[w] \in Calling /\ Current(w) \in Procs
    BY <1>8, CurrentProc DEF CountMembers, Prove, ProveClosed, CallInv, CallOK, Calling
  <2> QED
    BY <1>8, <2>1 DEF CountMembers, Prove, ProveClosed, Zero, Doomed, Goto, HostTypeOK,
       runVars, flagVars, osVars, proofVars, abortVars, bootVars, Calling
<1>9. ASSUME System PROVE HostTypeOK'
  BY <1>9 DEF System, Fork, Exit, HostTypeOK, runVars, flagVars, osVars, proofVars,
     abortVars, bootVars
<1>10. ASSUME RequestStop \/ StopWrites PROVE HostTypeOK'
  <2>1. presses' \in 0..MaxPresses
    BY <1>10 DEF RequestStop, StopWrites, HostTypeOK, abortVars
  <2>2. stop' \in {"no", "kill", "write"} /\ stopping' \in BOOLEAN
    BY <1>10 DEF RequestStop, StopWrites, HostTypeOK
  <2>3. runStatus' \in RunStates
    BY <1>10 DEF RequestStop, StopWrites, SetStatus, HostTypeOK, RunStates
  <2> QED
    BY <1>10, <2>1, <2>2, <2>3 DEF RequestStop, StopWrites, HostTypeOK, flagVars, osVars, proofVars,
       abortVars, bootVars
<1>11. ASSUME StopKills PROVE HostTypeOK'
  BY <1>11 DEF StopKills, ForceAll, Doomed, HostTypeOK, proofVars, abortVars, bootVars
<1>12. ASSUME NEW via \in {"command", "shortcut", "tray"}, NEW forced \in BOOLEAN,
              Press(via, forced)
       PROVE HostTypeOK'
  <2>1. abort' \in [pc : {"idle", "poll", "gate", "write"}, forced : BOOLEAN,
                    locked : BOOLEAN, named : BOOLEAN, stopped : BOOLEAN]
    <3>1. /\ (via # "command") \in BOOLEAN /\ Named(via) \in BOOLEAN
          /\ (~forced /\ lives # {}) \in BOOLEAN
      BY DEF Named
    <3> DEFINE begun == [pc |-> "poll", forced |-> forced, locked |-> via # "command",
                         named |-> Named(via), stopped |-> ~forced /\ lives # {}]
    <3>2. abort' = begun \/ abort' = abort
      BY <1>12 DEF Press
    <3>3. begun \in [pc : {"idle", "poll", "gate", "write"}, forced : BOOLEAN,
                     locked : BOOLEAN, named : BOOLEAN, stopped : BOOLEAN]
      BY <3>1, Zenon
    <3> QED BY <3>2, <3>3 DEF HostTypeOK
  <2>2. /\ job' \in [Procs -> {"none", "open", "doomed"}]
        /\ cancel' \subseteq lives /\ force' \subseteq lives
    BY <1>12 DEF Press, ForceAll, Doomed, HostTypeOK
  <2>3. presses' \in 0..MaxPresses
    BY <1>12 DEF Press, HostTypeOK
  <2> QED
    BY <1>12, <2>1, <2>2, <2>3 DEF Press, HostTypeOK, runVars, proofVars, bootVars
<1>13. ASSUME PollEnds \/ AbortGate \/ AbortWrites PROVE HostTypeOK'
  <2> DEFINE there == [pc : {"idle", "poll", "gate", "write"}, forced : BOOLEAN,
                       locked : BOOLEAN, named : BOOLEAN, stopped : BOOLEAN]
  <2>1. NoAbort \in there
    BY DEF NoAbort
  <2>2. \A at \in {"idle", "poll", "gate", "write"} : [abort EXCEPT !.pc = at] \in there
    BY DEF HostTypeOK
  <2>3. abort' \in there
    BY <1>13, <2>1, <2>2 DEF PollEnds, AbortGate, AbortWrites, AbortGoto
  <2> QED
    BY <1>13, <2>3 DEF PollEnds, AbortGate, AbortWrites, SetStatus, HostTypeOK, runVars, flagVars, osVars,
       proofVars, bootVars, RunStates
<1>14. ASSUME Crash PROVE HostTypeOK'
  <2>1. abort' \in [pc : {"idle", "poll", "gate", "write"}, forced : BOOLEAN,
                    locked : BOOLEAN, named : BOOLEAN, stopped : BOOLEAN]
    BY <1>14 DEF Crash, NoAbort
  <2>2. /\ job' \in [Procs -> {"none", "open", "doomed"}]
        /\ pc' \in [Workers -> Calling \cup {"idle", "due"}]
        /\ crashes' \in 0..MaxCrashes
        /\ todo' \subseteq Procs
    BY <1>14 DEF Crash, HostTypeOK, Active
  <2> QED
    BY <1>14, <2>1, <2>2 DEF Crash, HostTypeOK, proofVars
<1>15. ASSUME ReconcileFails PROVE HostTypeOK'
  BY <1>15 DEF ReconcileFails, HostTypeOK, runVars, flagVars, osVars, proofVars, abortVars
<1>16. ASSUME ScanEnds PROVE HostTypeOK'
  BY <1>16 DEF ScanEnds, SetStatus, HostTypeOK, flagVars, osVars, proofVars, abortVars, RunStates
<1>17. ASSUME ResolveResume \/ ResolveCancel PROVE HostTypeOK'
  BY <1>17 DEF ResolveResume, ResolveCancel, SetStatus, HostTypeOK, flagVars, osVars, proofVars,
     abortVars, RunStates
<1>18. ASSUME NEW p \in Procs, Reconcile(p) PROVE HostTypeOK'
  <2>1. record' \in [Procs -> RecordStates]
    BY <1>18 DEF Reconcile, HostTypeOK, RecordStates
  <2>2. todo' \subseteq Procs /\ hard' \in BOOLEAN
    BY <1>18 DEF Reconcile, HostTypeOK
  <2> QED
    BY <1>18, <2>1, <2>2 DEF Reconcile, HostTypeOK, runVars, flagVars, osVars, proofVars,
       abortVars
<1> QED
  BY <1>1, <1>2, <1>3, <1>4, <1>5, <1>6, <1>7, <1>8, <1>9, <1>10, <1>11, <1>12, <1>13,
     <1>14, <1>15, <1>16, <1>17, <1>18 DEF Next, Host, User, Recovery

-----------------------------------------------------------------------------
(* Frames: what leaves a worker, or a process, alone keeps its part.       *)
LEMMA CallFrame ==
  ASSUME NEW w \in Workers, CallOK(w), pc'[w] = pc[w], turn'[w] = turn[w],
         pc[w] \in Calling =>
           /\ record'[Current(w)] = record[Current(w)]
           /\ tree[Current(w)] = {} => tree'[Current(w)] = {}
           /\ job'[Current(w)] = "none" <=> job[Current(w)] = "none"
           /\ proof'[Current(w)] = proof[Current(w)]
  PROVE  CallOK(w)'
<1>1. Current(w)' = Current(w)
  BY DEF Current
<1> QED BY <1>1 DEF CallOK, Calling

\* They hold of a process nothing was done to.
LEMMA ProcFrame ==
  ASSUME NEW p \in Procs, ProcOK(p), pc'[p[1]] = pc[p[1]], turn'[p[1]] = turn[p[1]],
         record'[p] = record[p], tree[p] = {} => tree'[p] = {},
         job'[p] = job[p] \/ (job[p] # "none" /\ job'[p] = "doomed"),
         job[p] = "none" => tree'[p] = tree[p],
         proof'[p] = proof[p],
         p \in lives' => p \in lives
  PROVE  ProcOK(p)'
<1>1. Hosting(p)' <=> Hosting(p)
  BY DEF Hosting, Current
<1> QED BY <1>1 DEF ProcOK

(* A step of a hosted call, other than its beginning.                      *)
Step(w) ==
  \/ Spawn(w) \/ FallBack(w) \/ SpawnSuspended(w) \/ Assign(w) \/ LeaveSuspended(w)
  \/ SpawnFails(w) \/ PromptRead(w) \/ RecordSpawned(w) \/ RecordActive(w)
  \/ EnterLives(w) \/ HostFails(w)
  \/ SeeForce(w) \/ SeeCancel(w) \/ TimeOut(w) \/ SeeExit(w) \/ ForceAfterGrace(w)
  \/ WaitFails(w) \/ LeaveLives(w)
  \/ CountMembers(w) \/ Prove(w) \/ ProveClosed(w) \/ RecordReaped(w) \/ DropJob(w)

(* It touches the process of its worker only, and nothing of the start-up. *)
LEMMA StepFrame ==
  ASSUME IInv, NEW w \in Workers, Step(w)
  PROVE  /\ pc[w] \in Calling /\ Current(w) \in Procs
         /\ turn' = turn /\ bootVars' = bootVars /\ sup' = sup
         /\ \A v \in Workers \ {w} : pc'[v] = pc[v]
         /\ \A p \in Procs \ {Current(w)} :
              /\ record'[p] = record[p] /\ tree'[p] = tree[p] /\ job'[p] = job[p]
              /\ proof'[p] = proof[p] /\ (p \in lives' <=> p \in lives)
<1>1. pc[w] \in Calling
  BY DEF Step, Spawn, FallBack, SpawnSuspended, Assign, LeaveSuspended, SpawnFails, PromptRead,
     RecordSpawned, RecordActive, EnterLives, HostFails, SeeForce, SeeCancel, TimeOut, SeeExit,
     ForceAfterGrace, WaitFails, LeaveLives, CountMembers, Prove, ProveClosed, RecordReaped,
     DropJob, Calling
<1>2. Current(w) \in Procs
  BY <1>1, CurrentProc DEF IInv, CallInv, CallOK
<1>3. /\ turn' = turn /\ sup' = sup
      /\ \A v \in Workers \ {w} : pc'[v] = pc[v]
  BY DEF Step, Spawn, FallBack, SpawnSuspended, Assign, LeaveSuspended, SpawnFails, PromptRead,
     RecordSpawned, RecordActive, EnterLives, HostFails, SeeForce, SeeCancel, TimeOut, SeeExit,
     ForceAfterGrace, WaitFails, LeaveLives, CountMembers, Prove, ProveClosed, RecordReaped,
     DropJob, Goto, IInv, HostTypeOK, runVars
<1>4. bootVars' = bootVars
  BY DEF Step, Spawn, FallBack, SpawnSuspended, Assign, LeaveSuspended, SpawnFails, PromptRead,
     RecordSpawned, RecordActive, EnterLives, HostFails, SeeForce, SeeCancel, TimeOut, SeeExit,
     ForceAfterGrace, WaitFails, LeaveLives, CountMembers, Prove, ProveClosed, RecordReaped,
     DropJob
<1>5. ASSUME NEW p \in Procs \ {Current(w)}
      PROVE  record'[p] = record[p] /\ proof'[p] = proof[p]
  BY DEF Step, Spawn, FallBack, SpawnSuspended, Assign, LeaveSuspended, SpawnFails, PromptRead,
     RecordSpawned, RecordActive, EnterLives, HostFails, SeeForce, SeeCancel, TimeOut, SeeExit,
     ForceAfterGrace, WaitFails, LeaveLives, CountMembers, Prove, ProveClosed, RecordReaped,
     DropJob, Upsert, IInv, HostTypeOK, proofVars
<1>6. ASSUME NEW p \in Procs \ {Current(w)}
      PROVE  tree'[p] = tree[p] /\ job'[p] = job[p]
  BY DEF Step, Spawn, FallBack, SpawnSuspended, Assign, LeaveSuspended, SpawnFails, PromptRead,
     RecordSpawned, RecordActive, EnterLives, HostFails, SeeForce, SeeCancel, TimeOut, SeeExit,
     ForceAfterGrace, WaitFails, LeaveLives, CountMembers, Prove, ProveClosed, RecordReaped,
     DropJob, Closed, Doomed, IInv, HostTypeOK, osVars
<1>7. ASSUME NEW p \in Procs \ {Current(w)}
      PROVE  p \in lives' <=> p \in lives
  BY DEF Step, Spawn, FallBack, SpawnSuspended, Assign, LeaveSuspended, SpawnFails, PromptRead,
     RecordSpawned, RecordActive, EnterLives, HostFails, SeeForce, SeeCancel, TimeOut, SeeExit,
     ForceAfterGrace, WaitFails, LeaveLives, CountMembers, Prove, ProveClosed, RecordReaped,
     DropJob, flagVars
<1> QED BY <1>1, <1>2, <1>3, <1>4, <1>5, <1>6, <1>7

(* The step keeps what is known of its own worker.                         *)
LEMMA StepCall ==
  ASSUME IInv, NEW w \in Workers, Step(w)
  PROVE  CallOK(w)'
<1>1. /\ pc[w] \in Calling /\ Current(w) \in Procs /\ turn' = turn
      /\ Current(w)' = Current(w) /\ CallOK(w)
  BY StepFrame DEF IInv, CallInv, Current
<1>2. CASE Spawn(w) \/ FallBack(w) \/ SpawnSuspended(w) \/ Assign(w)
  BY <1>1, <1>2 DEF Spawn, FallBack, SpawnSuspended, Assign, Goto, CallOK, IInv, HostTypeOK,
     Calling, osVars, proofVars
<1>3. CASE LeaveSuspended(w) \/ SpawnFails(w) \/ HostFails(w) \/ WaitFails(w) \/ DropJob(w)
  <2>1. pc'[w] = "due"
    BY <1>3 DEF LeaveSuspended, SpawnFails, HostFails, WaitFails, DropJob, Goto, IInv, HostTypeOK
  <2> QED BY <2>1 DEF CallOK, Calling
<1>4. CASE PromptRead(w) \/ EnterLives(w) \/ LeaveLives(w) \/ SeeExit(w)
  BY <1>1, <1>4 DEF PromptRead, EnterLives, LeaveLives, SeeExit, Goto, CallOK, IInv,
     HostTypeOK, Calling, osVars, proofVars
<1>5. CASE RecordSpawned(w) \/ RecordActive(w) \/ RecordReaped(w)
  BY <1>1, <1>5 DEF RecordSpawned, RecordActive, RecordReaped, Goto, CallOK, IInv,
     HostTypeOK, Calling, osVars, proofVars
<1>6. CASE SeeForce(w) \/ SeeCancel(w) \/ TimeOut(w) \/ ForceAfterGrace(w)
  BY <1>1, <1>6 DEF SeeForce, SeeCancel, TimeOut, ForceAfterGrace, Upsert, Doomed, Goto,
     CallOK, IInv, HostTypeOK, Calling, osVars, proofVars
<1>7. CASE CountMembers(w) \/ Prove(w) \/ ProveClosed(w)
  BY <1>1, <1>7 DEF CountMembers, Prove, ProveClosed, Doomed, Goto, CallOK, IInv,
     HostTypeOK, Calling, osVars, proofVars
<1> QED BY <1>2, <1>3, <1>4, <1>5, <1>6, <1>7 DEF Step

(* The step keeps what is known of its process.                            *)
LEMMA StepProc ==
  ASSUME IInv, NEW w \in Workers, Step(w)
  PROVE  ProcOK(Current(w))'
<1>1. /\ pc[w] \in Calling /\ Current(w) \in Procs /\ turn' = turn
      /\ Current(w)' = Current(w) /\ CallOK(w) /\ ProcOK(Current(w))
      /\ turn[w] \in 1..Turns
  BY StepFrame DEF IInv, CallInv, ProcInv, Current, CallOK
<1>2. Current(w)[1] = w /\ Current(w)[2] = turn[w]
  BY DEF Current
<1>3. Hosting(Current(w)) /\ (Hosting(Current(w))' <=> pc'[w] \in Calling)
  BY <1>1, <1>2 DEF Hosting
<1>4. turn'[w] = turn[w] /\ ~ (Current(w)'[2] > turn'[w])
  BY <1>1, <1>2
<1>5. CASE Spawn(w) \/ FallBack(w) \/ SpawnSuspended(w) \/ Assign(w)
  BY <1>1, <1>2, <1>3, <1>4, <1>5 DEF Spawn, FallBack, SpawnSuspended, Assign, Goto, ProcOK, CallOK,
     IInv, HostTypeOK, Calling, osVars, flagVars, proofVars
<1>6. CASE LeaveSuspended(w) \/ SpawnFails(w) \/ HostFails(w) \/ DropJob(w)
  BY <1>1, <1>2, <1>3, <1>4, <1>6 DEF LeaveSuspended, SpawnFails, HostFails, DropJob, Closed,
     Goto, ProcOK, CallOK, IInv, HostTypeOK, Calling, osVars, flagVars, proofVars
<1>7. CASE WaitFails(w) \/ LeaveLives(w)
  BY <1>1, <1>2, <1>3, <1>4, <1>7 DEF WaitFails, LeaveLives, Closed, Goto, ProcOK, CallOK,
     IInv, HostTypeOK, Calling, osVars, proofVars
<1>8. CASE PromptRead(w) \/ EnterLives(w) \/ SeeExit(w)
  BY <1>1, <1>2, <1>3, <1>4, <1>8 DEF PromptRead, EnterLives, SeeExit, Goto, ProcOK, CallOK,
     IInv, HostTypeOK, Calling, osVars, flagVars, proofVars
<1>9. CASE RecordSpawned(w) \/ RecordActive(w) \/ RecordReaped(w)
  BY <1>1, <1>2, <1>3, <1>4, <1>9 DEF RecordSpawned, RecordActive, RecordReaped, Goto, ProcOK,
     CallOK, IInv, HostTypeOK, Calling, osVars, flagVars, proofVars
<1>10. CASE SeeForce(w) \/ SeeCancel(w) \/ TimeOut(w) \/ ForceAfterGrace(w)
  BY <1>1, <1>2, <1>3, <1>4, <1>10 DEF SeeForce, SeeCancel, TimeOut, ForceAfterGrace, Upsert,
     Doomed, Goto, ProcOK, CallOK, IInv, HostTypeOK, Calling, osVars, flagVars, proofVars
<1>11. CASE CountMembers(w) \/ Prove(w) \/ ProveClosed(w)
  BY <1>1, <1>2, <1>3, <1>4, <1>11 DEF CountMembers, Prove, ProveClosed, Doomed, Zero, Goto,
     ProcOK, CallOK, IInv, HostTypeOK, Calling, osVars, flagVars, proofVars
<1> QED BY <1>5, <1>6, <1>7, <1>8, <1>9, <1>10, <1>11 DEF Step

(* A step that moves no worker, no record and no member of a tree, and at  *)
(* most kills what can be cancelled.                                       *)
LEMMA QuietStep ==
  ASSUME IInv, UNCHANGED <<pc, turn, record, tree, proof, lives>>,
         job' = job \/ job' = Doomed(job, lives)
  PROVE  CallInv' /\ ProcInv'
<1>1. ASSUME NEW p \in Procs
      PROVE  job'[p] = job[p] \/ (job[p] # "none" /\ job'[p] = "doomed")
  <2>1. CASE p \in lives
    <3>1. /\ p[1] \in Workers /\ p = Current(p[1])
          /\ pc[p[1]] \in {"waiting", "grace", "reaping"}
      BY <2>1, ProcParts DEF IInv, ProcInv, ProcOK, Hosting
    <3>2. job[p] # "none"
      BY <3>1 DEF IInv, CallInv, CallOK, Calling
    <3> QED BY <3>2, <2>1 DEF Doomed
  <2>2. CASE p \notin lives
    BY <2>2 DEF Doomed
  <2> QED BY <2>1, <2>2
<1>2. ASSUME NEW w \in Workers PROVE CallOK(w)'
  <2>1. CallOK(w)
    BY DEF IInv, CallInv
  <2>2. pc[w] \in Calling => job'[Current(w)] = "none" <=> job[Current(w)] = "none"
    BY <1>1, <2>1, CurrentProc DEF CallOK
  <2> QED BY <2>1, <2>2, CallFrame
<1>3. ASSUME NEW p \in Procs PROVE ProcOK(p)'
  BY <1>1, ProcFrame DEF IInv, ProcInv
<1> QED BY <1>2, <1>3 DEF CallInv, ProcInv

(* A step of a hosted call keeps all of it.                                *)
LEMMA StepInv ==
  ASSUME IInv, NEW w \in Workers, Step(w)
  PROVE  CallInv' /\ ProcInv' /\ BootInv'
<1>1. /\ pc[w] \in Calling /\ Current(w) \in Procs
      /\ turn' = turn /\ bootVars' = bootVars /\ sup' = sup
      /\ \A v \in Workers \ {w} : pc'[v] = pc[v]
      /\ \A p \in Procs \ {Current(w)} :
           /\ record'[p] = record[p] /\ tree'[p] = tree[p] /\ job'[p] = job[p]
           /\ proof'[p] = proof[p] /\ (p \in lives' <=> p \in lives)
  BY StepFrame
<1>2. ASSUME NEW v \in Workers PROVE CallOK(v)'
  <2>1. CASE v = w
    BY <2>1, StepCall
  <2>2. CASE v # w
    <3>1. CallOK(v) /\ Current(v) # Current(w)
      BY <2>2 DEF IInv, CallInv, Current
    <3>2. pc[v] \in Calling => Current(v) \in Procs
      BY <3>1, CurrentProc DEF CallOK
    <3> QED BY <1>1, <2>2, <3>1, <3>2, CallFrame
  <2> QED BY <2>1, <2>2
<1>3. ASSUME NEW p \in Procs PROVE ProcOK(p)'
  <2>1. CASE p = Current(w)
    <3>1. Current(w)' = Current(w)
      BY <1>1 DEF Current
    <3>2. ProcOK(Current(w))'
      BY StepProc
    <3> QED BY <2>1, <3>1, <3>2 DEF ProcOK, Hosting, Current
  <2>2. CASE p # Current(w) /\ p[1] # w
    BY <1>1, <2>2, ProcParts, ProcFrame DEF IInv, ProcInv
  <2>3. CASE p # Current(w) /\ p[1] = w
    <3>1. ProcOK(p) /\ ~Hosting(p)
      BY <2>3 DEF IInv, ProcInv, Hosting
    <3>2. ~Hosting(p)'
      BY <1>1, <2>3 DEF Hosting, Current
    <3> QED BY <1>1, <2>3, <3>1, <3>2 DEF ProcOK
  <2> QED BY <2>1, <2>2, <2>3
<1>4. BootInv'
  <2>1. up /\ offer = "none"
    BY <1>1 DEF IInv, BootInv, HostTypeOK, Calling
  <2>2. up' /\ offer' = "none"
    BY <1>1, <2>1 DEF bootVars
  <2> QED BY <2>2 DEF BootInv
<1> QED BY <1>2, <1>3, <1>4 DEF CallInv, ProcInv

(* A call begins: its process is one that nothing is known of yet.         *)
LEMMA RegisterInv ==
  ASSUME IInv, NEW w \in Workers, Register(w)
  PROVE  CallInv' /\ ProcInv' /\ BootInv'
<1> USE HostAssumption DEF HostAssumption
<1> DEFINE new == <<w, turn[w] + 1>>
<1>1. /\ pc[w] = "due" /\ turn[w] \in 0..Turns /\ turn[w] < Turns
      /\ turn' = [turn EXCEPT ![w] = @ + 1]
      /\ record' = [record EXCEPT ![new] = "registered"]
      /\ pc' = [pc EXCEPT ![w] = "spawn"]
      /\ UNCHANGED <<tree, job, proof, lives, bootVars, sup>>
  BY DEF Register, Goto, IInv, HostTypeOK, osVars, proofVars, flagVars, runVars
<1>2. /\ new \in Procs /\ turn'[w] = turn[w] + 1 /\ pc'[w] = "spawn"
      /\ \A v \in Workers \ {w} : turn'[v] = turn[v] /\ pc'[v] = pc[v]
  BY <1>1 DEF Procs, IInv, HostTypeOK
<1>3. /\ record[new] = "none" /\ tree[new] = {} /\ job[new] = "none" /\ proof[new] = "none"
  <2>1. ProcOK(new) /\ new[2] > turn[new[1]]
    BY <1>1, <1>2 DEF IInv, ProcInv
  <2> QED BY <2>1 DEF ProcOK
<1>4. /\ record'[new] = "registered"
      /\ \A p \in Procs \ {new} : record'[p] = record[p]
  BY <1>1, <1>2 DEF IInv, HostTypeOK
<1>5. ASSUME NEW v \in Workers PROVE CallOK(v)'
  <2>1. CASE v = w
    <3>1. Current(w)' = new
      BY <1>2 DEF Current
    <3> QED BY <1>1, <1>2, <1>3, <1>4, <2>1, <3>1 DEF CallOK, Calling
  <2>2. CASE v # w
    <3>1. CallOK(v) /\ Current(v) # new
      BY <2>2 DEF IInv, CallInv, Current
    <3>2. pc[v] \in Calling => Current(v) \in Procs
      BY <3>1, CurrentProc DEF CallOK
    <3>3. pc[v] \in Calling => record'[Current(v)] = record[Current(v)]
      BY <1>4, <3>1, <3>2
    <3> QED BY <1>1, <1>2, <2>2, <3>1, <3>3, CallFrame
  <2> QED BY <2>1, <2>2
<1>6. ASSUME NEW p \in Procs PROVE ProcOK(p)'
  <2>0. ProcOK(p)
    BY DEF IInv, ProcInv
  <2>1. CASE p = new
    <3>1. p[1] = w /\ p[2] = turn[w] + 1
      BY <2>1
    <3>2. p \notin lives
      BY <1>1, <2>0, <3>1 DEF ProcOK, Hosting, Calling
    <3> QED BY <1>1, <1>2, <1>3, <1>4, <2>1, <3>1, <3>2 DEF ProcOK
  <2>2. CASE p[1] # w
    BY <1>1, <1>2, <1>4, <2>0, <2>2, ProcParts, ProcFrame
  <2>3. CASE p # new /\ p[1] = w
    <3>1. ~Hosting(p)
      BY <1>1, <2>3 DEF Hosting, Calling
    <3>2. job[p] # "open" /\ p \notin lives
      BY <2>0, <3>1 DEF ProcOK
    <3>3. p[2] > turn'[w] => p[2] > turn[w]
      BY <1>1, <1>2, ProcParts
    <3> QED BY <1>1, <1>4, <2>0, <2>3, <3>2, <3>3 DEF ProcOK
  <2> QED BY <2>1, <2>2, <2>3
<1>7. BootInv'
  <2>1. up /\ offer = "none"
    BY <1>1 DEF IInv, BootInv, HostTypeOK
  <2> QED BY <1>1, <2>1 DEF BootInv, bootVars
<1> QED BY <1>5, <1>6, <1>7 DEF CallInv, ProcInv

(* The supervisor: it only moves workers between idle and due.             *)
LEMMA SupervisorInv == ASSUME IInv, Supervisor PROVE CallInv' /\ ProcInv' /\ BootInv'
<1>1. CASE RoundBegins \/ RoundEnds \/ CancelObserved \/ Joined \/ SupervisorFails
  <2>1. /\ UNCHANGED <<pc, turn, record, tree, proof, lives, job, bootVars>>
        /\ sup # "off"
    BY <1>1 DEF RoundBegins, RoundEnds, CancelObserved, Joined, SupervisorFails, flagVars,
       osVars, proofVars
  <2>2. BootInv'
    <3>1. up /\ offer = "none"
      BY <2>1 DEF IInv, BootInv, HostTypeOK
    <3> QED BY <2>1, <3>1 DEF BootInv, bootVars
  <2> QED BY <2>1, <2>2, QuietStep
<1>2. ASSUME NEW w \in Workers, Launch(w) \/ WorkerEnds(w)
      PROVE  CallInv' /\ ProcInv' /\ BootInv'
  <2>1. /\ UNCHANGED <<turn, record, tree, proof, lives, job, bootVars, sup>>
        /\ pc[w] \notin Calling /\ pc'[w] \notin Calling
        /\ \A v \in Workers \ {w} : pc'[v] = pc[v]
    BY <1>2 DEF Launch, WorkerEnds, flagVars, osVars, proofVars, runVars, Calling, IInv,
       HostTypeOK
  <2>2. ASSUME NEW v \in Workers PROVE CallOK(v)'
    <3>1. CASE v = w
      BY <2>1, <3>1 DEF CallOK, Calling
    <3>2. CASE v # w
      BY <2>1, <3>2, CallFrame DEF IInv, CallInv
    <3> QED BY <3>1, <3>2
  <2>3. ASSUME NEW p \in Procs PROVE ProcOK(p)'
    <3>1. Hosting(p)' <=> Hosting(p)
      BY <2>1, ProcParts DEF Hosting, Current
    <3>2. p \in lives => pc'[p[1]] = pc[p[1]]
      BY <2>1, ProcParts DEF IInv, ProcInv, ProcOK, Hosting
    <3> QED BY <2>1, <3>1, <3>2 DEF IInv, ProcInv, ProcOK
  <2>4. BootInv'
    <3>1. up /\ offer = "none"
      BY <1>2 DEF Launch, WorkerEnds, IInv, BootInv, HostTypeOK
    <3> QED BY <2>1, <3>1 DEF BootInv, bootVars
  <2> QED BY <2>2, <2>3, <2>4 DEF CallInv, ProcInv
<1> QED BY <1>1, <1>2 DEF Supervisor

(* The operating system: trees grow only inside an open job.               *)
LEMMA SystemInv == ASSUME IInv, System PROVE CallInv' /\ ProcInv' /\ BootInv'
<1>1. PICK p \in Procs : Fork(p) \/ \E m \in {"main", "child"} : Exit(p, m)
  BY DEF System
<1>2. /\ UNCHANGED <<pc, turn, record, proof, lives, job, bootVars, sup>>
      /\ job[p] # "none"
      /\ tree[p] = {} => tree'[p] = {}
      /\ \A q \in Procs \ {p} : tree'[q] = tree[q]
  BY <1>1 DEF Fork, Exit, IInv, HostTypeOK, flagVars, proofVars, runVars
<1>3. ASSUME NEW w \in Workers PROVE CallOK(w)'
  <2>1. CallOK(w)
    BY DEF IInv, CallInv
  <2>2. pc[w] \in Calling => (tree[Current(w)] = {} => tree'[Current(w)] = {})
    BY <1>2, <2>1, CurrentProc DEF CallOK
  <2> QED BY <1>2, <2>1, <2>2, CallFrame
<1>4. ASSUME NEW q \in Procs PROVE ProcOK(q)'
  BY <1>2, ProcFrame DEF IInv, ProcInv
<1>5. BootInv'
  BY <1>2 DEF IInv, BootInv, bootVars, Active
<1> QED BY <1>3, <1>4, <1>5 DEF CallInv, ProcInv

(* Stop and the emergency abort: they kill what can be cancelled.          *)
LEMMA UserInv == ASSUME IInv, User PROVE CallInv' /\ ProcInv' /\ BootInv'
<1> DEFINE quiet == /\ UNCHANGED <<pc, turn, record, tree, proof, lives, bootVars, sup>>
                    /\ job' = job \/ job' = Doomed(job, lives)
<1>1. quiet
  <2>1. CASE RequestStop \/ StopKills \/ StopWrites
    BY <2>1 DEF RequestStop, StopKills, StopWrites, ForceAll, flagVars, osVars, proofVars
  <2>2. ASSUME NEW via \in {"command", "shortcut", "tray"}, NEW forced \in BOOLEAN,
               Press(via, forced)
        PROVE  quiet
    BY <2>2 DEF Press, ForceAll, proofVars, runVars
  <2>3. CASE PollEnds \/ AbortGate \/ AbortWrites
    BY <2>3 DEF PollEnds, AbortGate, AbortWrites, flagVars, osVars, proofVars, runVars
  <2> QED BY <2>1, <2>2, <2>3 DEF User
<1>2. BootInv'
  BY <1>1 DEF IInv, BootInv, bootVars, Active
<1> QED BY <1>1, <1>2, QuietStep

(* A crash leaves nothing hosted and every active record to look at.       *)
LEMMA CrashInv == ASSUME IInv, Crash PROVE CallInv' /\ ProcInv' /\ BootInv'
<1>1. /\ UNCHANGED <<turn, tree, record, proof, offer>>
      /\ pc' = [w \in Workers |-> "idle"] /\ lives' = {} /\ sup' = "off"
      /\ ~up' /\ todo' = Active
      /\ job' = [p \in Procs |-> IF job[p] = "open" THEN "doomed" ELSE job[p]]
  BY DEF Crash, proofVars
<1>2. CallInv'
  BY <1>1 DEF CallInv, CallOK, Calling
<1>3. ASSUME NEW p \in Procs PROVE ProcOK(p)'
  <2>1. ProcOK(p) /\ job'[p] # "open" /\ p \notin lives'
    BY <1>1 DEF IInv, ProcInv
  <2>2. job'[p] = "none" <=> job[p] = "none"
    BY <1>1
  <2> QED BY <1>1, <2>1, <2>2 DEF ProcOK
<1>4. BootInv'
  <2>1. Active' = Active
    BY <1>1 DEF Active
  <2> QED BY <1>1, <2>1 DEF IInv, BootInv
<1> QED BY <1>2, <1>3, <1>4 DEF ProcInv

(* The scan looks at one record.                                           *)
LEMMA ReconcileInv ==
  ASSUME IInv, NEW p \in Procs, Reconcile(p)
  PROVE  CallInv' /\ ProcInv' /\ BootInv'
<1>1. /\ UNCHANGED <<pc, turn, lives, tree, job, proof, offer, sup, up>>
      /\ ~up /\ \A w \in Workers : pc[w] = "idle"
      /\ todo' = todo \ {p}
  BY DEF Reconcile, runVars, flagVars, osVars, proofVars, IInv, BootInv
<1>2. /\ \A q \in Procs \ {p} : record'[q] = record[q]
      /\ record'[p] = record[p] \/ (HasPid(p) /\ record'[p] = "reaped")
      /\ ~hard' => ~hard /\ record'[p] = "reaped"
  BY DEF Reconcile, IInv, HostTypeOK
<1>3. CallInv'
  BY <1>1 DEF CallInv, CallOK, Calling
<1>4. ASSUME NEW q \in Procs PROVE ProcOK(q)'
  <2>1. ProcOK(q) /\ (Hosting(q)' <=> Hosting(q))
    BY <1>1 DEF IInv, ProcInv, Hosting, Current
  <2>2. CASE record'[q] = record[q]
    BY <1>1, <2>1, <2>2 DEF ProcOK
  <2>3. CASE q = p /\ HasPid(p) /\ record'[p] = "reaped"
    BY <1>1, <2>1, <2>3 DEF ProcOK, HasPid
  <2> QED BY <1>2, <2>2, <2>3
<1>5. BootInv'
  <2>1. Active' \subseteq Active
    BY <1>2 DEF Active, HasPid
  <2>2. ~hard' => Active' \subseteq todo'
    BY <1>1, <1>2, <2>1 DEF Active, IInv, BootInv
  <2> QED BY <1>1, <2>1, <2>2 DEF IInv, BootInv
<1> QED BY <1>3, <1>4, <1>5 DEF ProcInv

(* The end of the scan, and the answers of the user.                       *)
LEMMA OfferInv ==
  ASSUME IInv, ReconcileFails \/ ScanEnds \/ ResolveResume \/ ResolveCancel
  PROVE  CallInv' /\ ProcInv' /\ BootInv'
<1>1. /\ UNCHANGED <<pc, turn, record, tree, proof, lives, job, sup>>
      /\ Active' = Active
  BY DEF ReconcileFails, ScanEnds, ResolveResume, ResolveCancel, runVars, flagVars, osVars,
     proofVars, Active
<1>2. CASE ReconcileFails
  BY <1>1, <1>2, QuietStep DEF ReconcileFails, IInv, BootInv
<1>3. CASE ScanEnds
  BY <1>1, <1>3, QuietStep DEF ScanEnds, IInv, BootInv
<1>4. CASE ResolveResume
  BY <1>1, <1>4, QuietStep DEF ResolveResume, IInv, BootInv
<1>5. CASE ResolveCancel
  BY <1>1, <1>5, QuietStep DEF ResolveCancel, MayBecomeTerminal, IInv, BootInv
<1> QED BY <1>2, <1>3, <1>4, <1>5

(* The invariant is inductive.                                             *)
LEMMA NextInv == IInv /\ [Next]_vars => IInv'
<1> SUFFICES ASSUME IInv, [Next]_vars PROVE IInv'
  OBVIOUS
<1>1. CASE Next
  <2>1. HostTypeOK'
    BY <1>1, TypeStep
  <2>2. CallInv' /\ ProcInv' /\ BootInv'
    <3>1. ASSUME NEW w \in Workers, Register(w) \/ Step(w)
          PROVE  CallInv' /\ ProcInv' /\ BootInv'
      BY <3>1, RegisterInv, StepInv
    <3>2. Host => \E w \in Workers : Register(w) \/ Step(w)
      BY DEF Host, Step
    <3>3. ASSUME Recovery PROVE CallInv' /\ ProcInv' /\ BootInv'
      BY <3>3, CrashInv, ReconcileInv, OfferInv DEF Recovery
    <3> QED
      BY <1>1, <3>1, <3>2, <3>3, SupervisorInv, SystemInv, UserInv DEF Next
  <2> QED BY <2>1, <2>2 DEF IInv
<1>2. CASE UNCHANGED vars
  <2>1. UNCHANGED <<runVars, pc, turn, flagVars, osVars, record, proofVars, abortVars, bootVars>>
    BY <1>2 DEF vars
  <2>2. HostTypeOK'
    BY <2>1 DEF IInv, HostTypeOK, runVars, flagVars, osVars, proofVars, abortVars, bootVars
  <2>3. CallInv' /\ ProcInv'
    BY <2>1, QuietStep DEF flagVars, osVars, proofVars
  <2>4. BootInv'
    BY <2>1 DEF IInv, BootInv, bootVars, runVars, Active
  <2> QED BY <2>2, <2>3, <2>4 DEF IInv
<1> QED BY <1>1, <1>2

\* The invariant holds throughout.
LEMMA Invariance == Spec => []IInv
BY InitInv, NextInv, PTL DEF Spec

-----------------------------------------------------------------------------
(* Every variable keeps its type.                                          *)
THEOREM HostTypeCorrect == Spec => []HostTypeOK
<1>1. IInv => HostTypeOK
  BY DEF IInv
<1> QED BY <1>1, Invariance, PTL

(* No process lives outside a doomed job, the job of a call that goes on,  *)
(* or a record that the next start finds: drops of the job handle, kills   *)
(* and crashes included.                                                   *)
THEOREM NoProcessEscapes == Spec => []NothingEscapes
<1>1. IInv => NothingEscapes
  BY DEF IInv, ProcInv, ProcOK, NothingEscapes, HostTypeOK
<1> QED BY <1>1, Invariance, PTL

(* A cleanup proof that says zero is true from then on.                    *)
THEOREM ProofsAreTrue == Spec => []ProofMeansDead
<1>1. IInv => ProofMeansDead
  BY DEF IInv, ProcInv, ProcOK, ProofMeansDead
<1> QED BY <1>1, Invariance, PTL

(* A run is only offered for Resume when every record is accounted for.    *)
THEOREM ResumeIsClean == Spec => []ResumeOnlyWhenClean
<1>1. IInv => ResumeOnlyWhenClean
  BY DEF IInv, BootInv, ResumeOnlyWhenClean
<1> QED BY <1>1, Invariance, PTL

(* A run cancelled by the user's answer has nothing active and nothing     *)
(* alive that is not doomed.                                               *)
THEOREM RecoveredCancelClean == Spec => []RecoveredCancelIsClean
<1>1. ASSUME IInv, offer = "cancelled"
      PROVE  Active = {} /\ \A p \in Procs : tree[p] # {} => job[p] = "doomed"
  <2>1. /\ Active = {}
        /\ \A w \in Workers : pc[w] = "idle"
    BY <1>1 DEF IInv, BootInv
  <2>2. ASSUME NEW p \in Procs, tree[p] # {} PROVE job[p] = "doomed"
    <3>1. job[p] # "open"
      BY <1>1, <2>1, ProcParts DEF IInv, ProcInv, ProcOK, Hosting, Calling
    <3>2. job[p] # "none"
      BY <1>1, <2>1, <2>2 DEF IInv, ProcInv, ProcOK, Active
    <3> QED BY <1>1, <3>1, <3>2 DEF IInv, HostTypeOK
  <2> QED BY <2>1, <2>2
<1>2. IInv => RecoveredCancelIsClean
  BY <1>1 DEF RecoveredCancelIsClean
<1> QED BY <1>2, Invariance, PTL

-----------------------------------------------------------------------------
(* The places of the states of a record.                                   *)
LEMMA Places ==
  /\ Place["none"] = 0 /\ Place["registered"] = 1 /\ Place["spawned"] = 2
  /\ Place["active"] = 3 /\ Place["graceful_stop"] = 4 /\ Place["forced_stop"] = 5
  /\ Place["reaped"] = 6
BY DEF Place, RecordStates

\* Every step of a process goes forward.
LEMMA StepForward ==
  ASSUME IInv, NEW w \in Workers, Step(w)
  PROVE  Place[record[Current(w)]] <= Place[record'[Current(w)]]
<1> DEFINE c == Current(w)
<1>1. CallOK(w) /\ c \in Procs
  BY StepFrame DEF IInv, CallInv
<1>2. record[c] \in RecordStates
  BY <1>1 DEF IInv, HostTypeOK
<1>3. CASE record'[c] = record[c]
  BY <1>2, <1>3, Places DEF RecordStates
<1>4. CASE record'[c] # record[c]
  <2>1. \/ RecordSpawned(w) \/ RecordActive(w) \/ RecordReaped(w)
        \/ SeeForce(w) \/ SeeCancel(w) \/ TimeOut(w) \/ ForceAfterGrace(w)
    BY <1>4 DEF Step, Spawn, FallBack, SpawnSuspended, Assign, LeaveSuspended, SpawnFails,
       PromptRead, EnterLives, HostFails, SeeExit, WaitFails, LeaveLives, CountMembers,
       Prove, ProveClosed, DropJob
  <2>2. CASE RecordSpawned(w) \/ RecordActive(w) \/ RecordReaped(w)
    BY <1>1, <1>2, <2>2, Places DEF RecordSpawned, RecordActive, RecordReaped, CallOK, IInv,
       HostTypeOK, RecordStates
  <2>3. CASE SeeForce(w) \/ SeeCancel(w) \/ TimeOut(w) \/ ForceAfterGrace(w)
    BY <1>1, <1>2, <1>4, <2>3, Places DEF SeeForce, SeeCancel, TimeOut, ForceAfterGrace, Upsert,
       CallOK, IInv, HostTypeOK, RecordStates
  <2> QED BY <2>1, <2>2, <2>3
<1> QED BY <1>3, <1>4

(* A record of a process never moves back, whoever writes it: the host,    *)
(* the watchdog or the reconciliation of a later start.                    *)
THEOREM RecordsMoveForward == Spec => RecordMovesForward
<1>1. ASSUME IInv, Next, NEW p \in Procs PROVE Place[record[p]] <= Place[record'[p]]
  <2>1. record[p] \in RecordStates
    BY <1>1 DEF IInv, HostTypeOK
  <2>2. CASE record'[p] = record[p]
    BY <2>1, <2>2, Places DEF RecordStates
  <2>3. ASSUME NEW w \in Workers, Register(w) PROVE record[p] = "none" \/ record'[p] = record[p]
    <3>1. /\ <<w, turn[w] + 1>> \in Procs
          /\ record' = [record EXCEPT ![<<w, turn[w] + 1>>] = "registered"]
      BY <1>1, <2>3, HostAssumption DEF Register, IInv, HostTypeOK, Procs, HostAssumption
    <3>2. CASE p = <<w, turn[w] + 1>>
      BY <1>1, <2>3, <3>2 DEF Register, IInv, HostTypeOK, ProcInv, ProcOK
    <3>3. CASE p # <<w, turn[w] + 1>>
      BY <1>1, <3>1, <3>3 DEF IInv, HostTypeOK
    <3> QED BY <3>2, <3>3
  <2>4. ASSUME NEW w \in Workers, Step(w) PROVE Place[record[p]] <= Place[record'[p]]
    <3>1. CASE p = Current(w)
      BY <1>1, <2>4, <3>1, StepForward
    <3>2. CASE p # Current(w)
      BY <1>1, <2>2, <2>4, <3>2, StepFrame
    <3> QED BY <3>1, <3>2
  <2>5. ASSUME NEW q \in Procs, Reconcile(q)
        PROVE  record'[p] = record[p] \/ record'[p] = "reaped"
    BY <1>1, <2>5 DEF Reconcile, IInv, HostTypeOK
  <2>6. CASE Supervisor \/ System \/ User
    <3>1. record' = record
      BY <2>6 DEF Supervisor, RoundBegins, RoundEnds, CancelObserved, Joined, SupervisorFails,
         Launch, WorkerEnds, System, Fork, Exit, User, RequestStop, StopKills, StopWrites,
         Press, PollEnds, AbortGate, AbortWrites
    <3> QED BY <2>2, <3>1
  <2>7. CASE Crash \/ ReconcileFails \/ ScanEnds \/ ResolveResume \/ ResolveCancel
    <3>1. record' = record
      BY <2>7 DEF Crash, ReconcileFails, ScanEnds, ResolveResume, ResolveCancel
    <3> QED BY <2>2, <3>1
  <2>8. (record[p] = "none" \/ record'[p] = "reaped") /\ record'[p] \in RecordStates
          => Place[record[p]] <= Place[record'[p]]
    BY <2>1, Places DEF RecordStates
  <2>9. record'[p] \in RecordStates
    BY <1>1, TypeStep DEF HostTypeOK
  <2>10. Host => \E w \in Workers : Register(w) \/ Step(w)
    BY DEF Host, Step
  <2> QED
    BY <1>1, <2>2, <2>3, <2>4, <2>5, <2>6, <2>7, <2>8, <2>9, <2>10 DEF Next, Recovery
<1>2. ASSUME UNCHANGED vars, IInv, NEW p \in Procs PROVE Place[record[p]] <= Place[record'[p]]
  <2>1. record[p] \in RecordStates /\ record'[p] = record[p]
    BY <1>2 DEF IInv, HostTypeOK, vars
  <2> QED BY <2>1, Places DEF RecordStates
<1>3. IInv /\ [Next]_vars => [\A p \in Procs : Place[record[p]] <= Place[record'[p]]]_vars
  BY <1>1, <1>2
<1> QED BY <1>3, Invariance, PTL DEF Spec, RecordMovesForward
=============================================================================
