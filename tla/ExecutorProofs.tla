--------------------------- MODULE ExecutorProofs ---------------------------
(***************************************************************************)
(* Theorems about Executor, for any phases, projects, launches and faults. *)
(***************************************************************************)
EXTENDS Executor, FiniteSetTheorems, TLAPS

(***************************************************************************)
(* Types                                                                   *)
(***************************************************************************)
\* A call has a number from its launch on.
Numbered == \A p \in Phases : worker[p].at # "idle" => worker[p].number >= 1

TypeInv == ExecTypeOK /\ Numbered

\* The step after any other is a step, and none starts a call anew.
LEMMA AfterType ==
  ASSUME NEW p \in Phases
  PROVE  After(p) \in Steps \ {"idle", "workspace"}
BY DEF After, Due, Steps

\* Both initial copies have their types.
LEMMA InitialTypes == DraftPlan \in Plans /\ IntakeManifest \in Manifests
<1>1. DraftPlan \in Plans
  BY DEF DraftPlan, Plans, Statuses
<1>2. <<{}>> \in Seq(SUBSET Files) \ {<<>>}
  OBVIOUS
<1>3. <<>> \in Seq(SUBSET Files)
  OBVIOUS
<1> QED
  BY <1>1, <1>2, <1>3 DEF IntakeManifest, Manifests

\* A call that is replaced by one of the type leaves the type of the others.
LEMMA CallReplaced ==
  ASSUME worker \in [Phases -> Calls], NEW p \in Phases, NEW w \in Calls,
         worker' = [worker EXCEPT ![p] = w]
  PROVE  worker' \in [Phases -> Calls] /\ worker'[p] = w
         /\ \A q \in Phases : q # p => worker'[q] = worker[q]
OBVIOUS

\* The records the steps build from a call.
LEMMA CallUpdates ==
  ASSUME NEW w \in Calls
  PROVE  /\ \A at \in Steps : [w EXCEPT !.at = at] \in Calls
         /\ \A at \in Steps, end \in Ends : [w EXCEPT !.at = at, !.end = end] \in Calls
         /\ \A m \in Manifests : [w EXCEPT !.manifest = m] \in Calls
         /\ \A files \in SUBSET Files : /\ [w EXCEPT !.before = files] \in Calls
                                        /\ [w EXCEPT !.made = files] \in Calls
                                        /\ [w EXCEPT !.target = files] \in Calls
         /\ \A plan \in Plans : [w EXCEPT !.plan = plan] \in Calls
BY DEF Calls

\* The call of a phase without one has its type.
LEMMA IdleType == Idle \in Calls
BY InitialTypes, ExecutorAssumption DEF Idle, Calls, Steps, Ends

\* The initial state has the type.
LEMMA InitType == Init => TypeInv
<1> SUFFICES ASSUME Init PROVE TypeInv
  OBVIOUS
<1>1. Idle \in Calls
  BY IdleType
<1>2. ExecTypeOK
  BY <1>1, InitialTypes, ExecutorAssumption DEF Init, ExecTypeOK
<1>3. Numbered
  BY DEF Init, Idle, Numbered
<1> QED
  BY <1>2, <1>3 DEF TypeInv

\* What is shared by the steps that replace the call of one phase and keep its number: the new
\* call has a number if it is not idle.
LEMMA NumberKept ==
  ASSUME TypeInv, NEW p \in Phases, NEW w \in Calls,
         worker' = [worker EXCEPT ![p] = w],
         w.number = worker[p].number, worker[p].at # "idle" \/ w.at = "idle"
  PROVE  worker' \in [Phases -> Calls] /\ Numbered'
BY DEF TypeInv, ExecTypeOK, Numbered

\* A step that only replaces the call of a phase by one with another place and another end.
LEMMA GoesToType ==
  ASSUME TypeInv, NEW p \in Phases, worker[p].at # "idle", NEW at \in Steps, NEW end \in Ends,
         worker' = [worker EXCEPT ![p] = GoesTo(p, at, end)],
         UNCHANGED <<memory, records, trees, tally>>
  PROVE  TypeInv'
<1>1. worker[p] \in Calls
  BY DEF TypeInv, ExecTypeOK
<1>2. GoesTo(p, at, end) \in Calls
  BY <1>1, CallUpdates DEF GoesTo
<1>3. GoesTo(p, at, end).number = worker[p].number
  BY <1>1 DEF GoesTo, Calls
<1>4. worker' \in [Phases -> Calls] /\ Numbered'
  BY <1>2, <1>3, NumberKept
<1> QED
  BY <1>4 DEF TypeInv, ExecTypeOK, memory, records, trees, tally

\* What follows from the type for a phase whose call goes on.
LEMMA GoesType ==
  ASSUME TypeInv, NEW p \in Phases
  PROVE  /\ worker[p] \in Calls /\ Goes(p) \in Calls
         /\ Goes(p).number = worker[p].number /\ Goes(p).manifest = worker[p].manifest
         /\ Goes(p).plan = worker[p].plan
         /\ Repo[p] \in Repos
<1>1. worker[p] \in Calls /\ Repo[p] \in Repos
  BY ExecutorAssumption DEF TypeInv, ExecTypeOK
<1> QED
  BY <1>1, AfterType, CallUpdates DEF Goes, Calls

\* The files of a place are files.
LEMMA TreeType ==
  ASSUME TypeInv, NEW r \in Repos
  PROVE  Tree(r) \in SUBSET Files /\ Changed(r) \in SUBSET Files
BY DEF TypeInv, ExecTypeOK, Tree, Changed

\* The latest of a project's checkpoints is a tree.
LEMMA LatestType ==
  ASSUME NEW m \in Manifests, NEW r \in Repos
  PROVE  Latest(m.checkpoints[r]) \in SUBSET Files
<1>1. m.checkpoints[r] \in Seq(SUBSET Files) /\ m.checkpoints[r] # <<>>
  BY DEF Manifests
<1> QED
  BY <1>1 DEF Latest

\* A launch gives the phase a fresh, numbered call.
LEMMA LaunchType == ASSUME TypeInv, NEW p \in Phases, Launch(p) PROVE TypeInv'
<1>1. launched \in 0..MaxLaunches /\ launched < MaxLaunches /\ MaxLaunches \in Nat /\ lastPlan \in Plans
  BY ExecutorAssumption DEF Launch, TypeInv, ExecTypeOK
<1>2. launched' = launched + 1 /\ launched' \in 0..MaxLaunches
  BY <1>1 DEF Launch
<1>3. Call(p) \in Calls /\ Call(p).number >= 1
  <2>1. "workspace" \in Steps /\ launched + 1 \in 0..MaxLaunches /\ launched + 1 >= 1
    BY <1>1 DEF Steps
  <2>2. ASSUME NEW w \in Calls, NEW n \in 0..MaxLaunches
        PROVE  LET call == [w EXCEPT !.at = "workspace", !.number = n, !.plan = lastPlan]
               IN  call \in Calls /\ call.number = n
    BY <1>1, <2>1 DEF Calls
  <2> QED
    BY <2>1, <2>2, IdleType DEF Call
<1>4. worker' \in [Phases -> Calls] /\ Numbered'
  BY <1>3 DEF Launch, TypeInv, ExecTypeOK, Numbered
<1> QED
  BY <1>2, <1>4 DEF Launch, TypeInv, ExecTypeOK, memory, records, trees

\* The copy of the manifest has its type.
LEMMA TakeWorkspaceType == ASSUME TypeInv, NEW p \in Phases, TakeWorkspace(p) PROVE TypeInv'
<1> DEFINE w == [Goes(p) EXCEPT !.manifest = lastWorkspace]
<1>0. lastWorkspace \in Manifests
  BY DEF TypeInv, ExecTypeOK
<1>1. w \in Calls /\ w.number = worker[p].number
  <2>1. Goes(p) \in Calls /\ Goes(p).number = worker[p].number
    BY GoesType
  <2>2. w \in Calls
    BY <1>0, <2>1, CallUpdates
  <2> QED
    BY <2>1, <2>2 DEF Calls
<1>2. worker' \in [Phases -> Calls] /\ Numbered'
  BY <1>1, NumberKept DEF TakeWorkspace, Due
<1> QED
  BY <1>2 DEF TakeWorkspace, TypeInv, ExecTypeOK, memory, records, trees, tally

\* An idle call with what was written has its type.
LEMMA HarvestType == ASSUME TypeInv, NEW p \in Phases, Harvest(p) PROVE TypeInv'
<1> DEFINE w == [Idle EXCEPT !.made = IF worker[p].end = "passed" THEN worker[p].made ELSE {}]
<1>1. worker[p].made \subseteq Files
  BY DEF TypeInv, ExecTypeOK, Calls
<1>2. w \in Calls /\ w.at = "idle"
  BY <1>1, InitialTypes, ExecutorAssumption DEF Idle, Calls, Steps, Ends
<1>3. worker' \in [Phases -> Calls] /\ Numbered'
  BY <1>2 DEF Harvest, TypeInv, ExecTypeOK, Numbered
<1> QED
  BY <1>3 DEF Harvest, TypeInv, ExecTypeOK, memory, records, trees

\* A projection sets the phase of the copy of the plan.
LEMMA ProjectType == ASSUME TypeInv, NEW p \in Phases, Project(p) PROVE TypeInv'
<1>1. PICK status \in Statuses :
        /\ Due(p, status)
        /\ worker' = [worker EXCEPT ![p] = [Goes(p) EXCEPT !.plan[p] = status]]
  BY DEF Project
<1> DEFINE plan == [worker[p].plan EXCEPT ![p] = status]
           w == [Goes(p) EXCEPT !.plan = plan]
<1>2. worker[p].plan \in Plans /\ plan \in Plans
  BY GoesType DEF Calls, Plans
<1>3. w = [Goes(p) EXCEPT !.plan[p] = status]
  BY GoesType
<1>4. w \in Calls /\ w.number = worker[p].number /\ w.plan = plan
  <2>1. Goes(p) \in Calls /\ Goes(p).number = worker[p].number
    BY GoesType
  <2>2. w \in Calls
    BY <1>2, <2>1, CallUpdates
  <2> QED
    BY <2>1, <2>2 DEF Calls
<1>5. worker' \in [Phases -> Calls] /\ Numbered' /\ worker'[p] = w
  BY <1>1, <1>3, <1>4, NumberKept DEF Due, Statuses, TypeInv, ExecTypeOK
<1>6. planFile' \in Plans
  BY <1>2, <1>4, <1>5 DEF Project
<1> QED
  BY <1>5, <1>6 DEF Project, TypeInv, ExecTypeOK, memory, trees, tally

\* A projection that is cut leaves plan.json with its type.
LEMMA ProjectionCutType == ASSUME TypeInv, NEW p \in Phases, ProjectionCut(p) PROVE TypeInv'
<1>1. PICK status \in Statuses :
        Due(p, status) /\ planFile' = [worker[p].plan EXCEPT ![p] = status]
  BY DEF ProjectionCut
<1>2. worker[p] \in Calls /\ worker[p].plan \in Plans /\ worker[p].at # "idle"
  BY <1>1, GoesType DEF Due, Statuses, Calls
<1>3. planFile' \in Plans
  BY <1>1, <1>2 DEF Plans
<1>4. "done" \in Steps /\ "error" \in Ends
  BY DEF Steps, Ends
<1>5. GoesTo(p, "done", "error") \in Calls
  BY <1>2, <1>4, CallUpdates DEF GoesTo
<1>6. GoesTo(p, "done", "error").number = worker[p].number
  BY <1>2 DEF GoesTo, Calls
<1>7. worker' \in [Phases -> Calls] /\ Numbered'
  BY <1>2, <1>5, <1>6, NumberKept DEF ProjectionCut, Errs
<1> QED
  BY <1>3, <1>7 DEF ProjectionCut, TypeInv, ExecTypeOK, memory, trees, tally

\* The snapshot is a set of files.
LEMMA BaselineType == ASSUME TypeInv, NEW p \in Phases, Baseline(p) PROVE TypeInv'
<1> DEFINE w == [Goes(p) EXCEPT !.before = disk]
<1>0. disk \in SUBSET Files
  BY DEF TypeInv, ExecTypeOK
<1>1. /\ Goes(p) \in Calls
      /\ Goes(p).number = worker[p].number
  BY GoesType
<1>2. w \in Calls
  BY <1>0, <1>1, CallUpdates
<1>3. w.number = worker[p].number
  BY <1>1 DEF Calls
<1>4. worker' \in [Phases -> Calls] /\ Numbered'
  BY <1>2, <1>3, NumberKept DEF Baseline, Due
<1> QED
  BY <1>4 DEF Baseline, TypeInv, ExecTypeOK, memory, records, trees, tally

\* What the agent does to files.
AgentActs(p) == AgentWrites(p) \/ AgentEdits(p) \/ AgentRemoves(p)

\* Files that another attempt left give way to files of paths that were there, or of the launch.
LEMMA AgentActsFiles ==
  ASSUME TypeInv, NEW p \in Phases, AgentActs(p)
  PROVE  \E old, new :
           /\ AgentChanges(p, old, new)
           /\ worker[p] \in Calls /\ worker[p].at = "agent"
           /\ old \subseteq disk /\ old \cap worker[p].made = {}
           /\ new \subseteq Files
           /\ \A f \in new : \/ f.edited = 0 /\ f.launch = worker[p].number
                             \/ f.edited # 0 /\ \E g \in disk : f.launch = g.launch
<1>1. worker[p] \in Calls /\ worker[p].at = "agent" /\ disk \subseteq Files
  BY DEF AgentActs, AgentWrites, AgentEdits, AgentRemoves, AgentChanges, CanWork, Due, TypeInv, ExecTypeOK
<1>2. worker[p].number \in 1..MaxLaunches /\ MaxLaunches \in Nat /\ worker[p].number # 0
  BY <1>1, ExecutorAssumption DEF TypeInv, Numbered, Calls
<1>3. CASE AgentWrites(p)
  <2>1. PICK place \in Places, walked \in BOOLEAN :
          AgentChanges(p, {}, {[by |-> p, launch |-> worker[p].number, at |-> place,
                                walked |-> walked, edited |-> 0]})
    BY <1>3 DEF AgentWrites
  <2> DEFINE file == [by |-> p, launch |-> worker[p].number, at |-> place, walked |-> walked, edited |-> 0]
  <2>2. file \in Files /\ file.edited = 0 /\ file.launch = worker[p].number
    BY <1>2 DEF Files
  <2> HIDE DEF file
  <2>3. AgentChanges(p, {}, {file})
    BY <2>1 DEF file
  <2> QED
    BY <1>1, <2>2, <2>3
<1>4. CASE AgentEdits(p)
  <2>1. PICK f \in disk \ worker[p].made : AgentChanges(p, {f}, {[f EXCEPT !.edited = worker[p].number]})
    BY <1>4 DEF AgentEdits
  <2> DEFINE file == [f EXCEPT !.edited = worker[p].number]
  <2>2. f \in Files /\ file \in Files /\ file.edited # 0 /\ file.launch = f.launch
    BY <1>1, <1>2, <2>1 DEF Files
  <2> HIDE DEF file
  <2>3. AgentChanges(p, {f}, {file})
    BY <2>1 DEF file
  <2> QED
    BY <1>1, <2>1, <2>2, <2>3
<1>5. CASE AgentRemoves(p)
  <2>1. PICK f \in disk \ worker[p].made : AgentChanges(p, {f}, {})
    BY <1>5 DEF AgentRemoves
  <2> QED
    BY <1>1, <2>1
<1> QED
  BY <1>3, <1>4, <1>5 DEF AgentActs

\* What the agent does to files leaves files.
LEMMA AgentActsType == ASSUME TypeInv, NEW p \in Phases, AgentActs(p) PROVE TypeInv'
<1>1. PICK old, new :
        /\ AgentChanges(p, old, new)
        /\ worker[p] \in Calls /\ worker[p].at = "agent"
        /\ old \subseteq disk /\ new \subseteq Files
  BY AgentActsFiles
<1> DEFINE made == worker[p].made \cup new
           w == [worker[p] EXCEPT !.made = made]
<1>2. made \in SUBSET Files
  BY <1>1 DEF Calls
<1>3. w \in Calls /\ w.number = worker[p].number
  BY <1>1, <1>2, CallUpdates DEF Calls
<1>4. worker' = [worker EXCEPT ![p] = w]
  BY <1>1 DEF AgentChanges
<1>5. worker' \in [Phases -> Calls] /\ Numbered'
  BY <1>1, <1>3, <1>4, NumberKept
<1>6. disk' \subseteq Files /\ replaced' \subseteq Files
  BY <1>1 DEF AgentChanges, TypeInv, ExecTypeOK
<1> QED
  BY <1>1, <1>5, <1>6 DEF AgentChanges, TypeInv, ExecTypeOK, memory, records

\* The agent ends, or its time does.
LEMMA AgentLeavesType ==
  ASSUME TypeInv, NEW p \in Phases, AgentEnds(p) \/ AgentTimesOut(p)
  PROVE  TypeInv'
<1>1. worker[p].at # "idle"
  BY DEF AgentEnds, AgentTimesOut, CanWork, Due
<1>2. PartialRecovery(p) \in Steps
  BY DEF PartialRecovery, Steps
<1>3. "inspect" \in Steps /\ "open" \in Ends /\ "timed_out" \in Ends
  BY DEF Steps, Ends
<1>4. CASE AgentEnds(p)
  BY <1>1, <1>3, <1>4, GoesToType DEF AgentEnds
<1>5. CASE AgentTimesOut(p)
  BY <1>1, <1>2, <1>3, <1>5, GoesToType DEF AgentTimesOut
<1> QED
  BY <1>4, <1>5

\* The escapes found are files.
LEMMA EscapesType ==
  ASSUME TypeInv, NEW p \in Phases
  PROVE  ChangedOutside(p) \in SUBSET Files /\ NewEscapes(p) \in SUBSET Files
         /\ \A f : AtPath(f, disk) \in SUBSET Files
<1>1. Repo[p] \in Repos
  BY ExecutorAssumption
<1>2. NewEscapes(p) \in SUBSET Files
  BY DEF NewEscapes, TypeInv, ExecTypeOK
<1>3. \A f : AtPath(f, disk) \in SUBSET Files
  BY DEF AtPath, TypeInv, ExecTypeOK
<1> QED
  BY <1>1, <1>2, <1>3, TreeType DEF ChangedOutside

\* An escape that is found becomes the target.
LEMMA InspectType == ASSUME TypeInv, NEW p \in Phases, Inspect(p) PROVE TypeInv'
<1> DEFINE escapes == IF ChangedOutside(p) # {} THEN ChangedOutside(p) ELSE NewEscapes(p)
           w(f) == [GoesTo(p, "quarantine", "escaped") EXCEPT !.target = AtPath(f, disk)]
<1>1. worker[p].at # "idle" /\ worker[p] \in Calls
  BY GoesType DEF Inspect, Due
<1>2. /\ "verifying" \in Steps /\ "quarantine" \in Steps /\ "open" \in Ends /\ "escaped" \in Ends
  BY DEF Steps, Ends
<1>3. CASE worker' = [worker EXCEPT ![p] = GoesTo(p, "verifying", "open")]
  BY <1>1, <1>2, <1>3, GoesToType DEF Inspect
<1>4. CASE \E f \in escapes : worker' = [worker EXCEPT ![p] = w(f)]
  <2>1. PICK f \in escapes : worker' = [worker EXCEPT ![p] = w(f)]
    BY <1>4
  <2>2. AtPath(f, disk) \in SUBSET Files
    BY EscapesType
  <2>3. /\ GoesTo(p, "quarantine", "escaped") \in Calls
        /\ GoesTo(p, "quarantine", "escaped").number = worker[p].number
    <3>1. GoesTo(p, "quarantine", "escaped") \in Calls
      BY <1>1, <1>2, CallUpdates DEF GoesTo
    <3> QED
      BY <1>1, <3>1 DEF GoesTo, Calls
  <2>4. w(f) \in Calls
    BY <2>2, <2>3, CallUpdates
  <2>5. w(f).number = worker[p].number
    BY <2>3 DEF Calls
  <2>6. worker' \in [Phases -> Calls] /\ Numbered'
    BY <1>1, <2>1, <2>4, <2>5, NumberKept
  <2> QED
    BY <2>6 DEF Inspect, TypeInv, ExecTypeOK, memory, records, trees, tally
<1> QED
  BY <1>3, <1>4 DEF Inspect

\* A verdict is a step and an end.
LEMMA JudgeType == ASSUME TypeInv, NEW p \in Phases, Judge(p) PROVE TypeInv'
<1>1. PICK v \in Verdicts : worker' = [worker EXCEPT ![p] = GoesTo(p, v[1], v[2])]
  BY DEF Judge
<1>2. v[1] \in Steps /\ v[2] \in Ends
  BY DEF Verdicts, Steps, Ends
<1>3. worker[p].at # "idle"
  BY DEF Judge, Due
<1> QED
  BY <1>1, <1>2, <1>3, GoesToType DEF Judge

\* A step that goes on with a changed manifest.
LEMMA ManifestReplaced ==
  ASSUME TypeInv, NEW p \in Phases, worker[p].at # "idle", NEW m \in Manifests,
         worker' = [worker EXCEPT ![p] = [Goes(p) EXCEPT !.manifest = m]]
  PROVE  worker' \in [Phases -> Calls] /\ Numbered'
<1> DEFINE w == [Goes(p) EXCEPT !.manifest = m]
<1>1. Goes(p) \in Calls /\ Goes(p).number = worker[p].number
  BY GoesType
<1>2. w \in Calls
  BY <1>1, CallUpdates
<1>3. w.number = worker[p].number
  BY <1>1 DEF Calls
<1> QED
  BY <1>2, <1>3, NumberKept

\* A quarantine moves files and adds an entry.
LEMMA QuarantineType == ASSUME TypeInv, NEW p \in Phases, Quarantine(p) PROVE TypeInv'
<1> DEFINE r == Repo[p]
           whole == TargetLost(p)
           moved == IF whole THEN Tree(r) ELSE worker[p].target
           entries == Append(worker[p].manifest.quarantines, moved)
           surplus == IF Len(entries) > MaxQuarantine THEN Len(entries) - MaxQuarantine ELSE 0
           kept == SubSeq(entries, surplus + 1, Len(entries))
           removed == UNION {entries[i] : i \in 1..surplus}
           m == [worker[p].manifest EXCEPT !.quarantines = kept]
<1>1. worker[p] \in Calls /\ r \in Repos /\ worker[p].at # "idle"
  BY GoesType DEF Quarantine, Due
<1>2. worker[p].manifest \in Manifests /\ worker[p].target \in SUBSET Files
  BY <1>1 DEF Calls
<1>3. moved \in SUBSET Files
  BY <1>1, <1>2, TreeType
<1>4. entries \in Seq(SUBSET Files)
  BY <1>2, <1>3 DEF Manifests
<1>5. kept \in Seq(SUBSET Files)
  BY <1>4, ExecutorAssumption
<1>6. m \in Manifests
  BY <1>2, <1>5 DEF Manifests
<1>7. worker' = [worker EXCEPT ![p] = [Goes(p) EXCEPT !.manifest = m]]
  BY GoesType DEF Quarantine
<1>8. worker' \in [Phases -> Calls] /\ Numbered'
  BY <1>1, <1>6, <1>7, ManifestReplaced
<1>9. /\ disk' = disk \ moved
      /\ quarantined' = (quarantined \cup moved) \ removed
      /\ gone' = IF whole THEN gone \cup {r} ELSE gone
  BY DEF Quarantine
<1>10. disk' \subseteq Files /\ quarantined' \subseteq Files /\ gone' \subseteq Repos
  BY <1>1, <1>3, <1>9 DEF TypeInv, ExecTypeOK
<1> QED
  BY <1>8, <1>10 DEF Quarantine, TypeInv, ExecTypeOK, memory, records, tally

\* A rollback restores a tree.
LEMMA RollbackType ==
  ASSUME TypeInv, NEW p \in Phases, Rollback(p) \/ RollbackFails(p) PROVE TypeInv'
<1>1. worker[p] \in Calls /\ Repo[p] \in Repos /\ Goes(p) \in Calls /\ worker[p].at # "idle"
      /\ Goes(p).number = worker[p].number
  BY GoesType DEF Rollback, RollbackFails, Due
<1>2. worker' \in [Phases -> Calls] /\ Numbered'
  BY <1>1, NumberKept DEF Rollback, RollbackFails
<1>3. LatestCheckpoint(p) \in SUBSET Files
  BY <1>1, LatestType DEF LatestCheckpoint, Calls
<1>4. CASE Rollback(p)
  BY <1>2, <1>3, <1>4 DEF Rollback, TypeInv, ExecTypeOK, memory, records, tally
<1>5. CASE RollbackFails(p)
  BY <1>2, <1>5 DEF RollbackFails, TypeInv, ExecTypeOK, memory, records, trees, tally
<1> QED
  BY <1>4, <1>5

\* What is appended to a sequence of trees is one again, and not empty.
LEMMA AppendNonempty ==
  ASSUME NEW S, NEW s \in Seq(S), NEW tree \in S
  PROVE  Append(s, tree) \in Seq(S) \ {<<>>}
<1>1. Append(s, tree) \in Seq(S) /\ Len(Append(s, tree)) = Len(s) + 1 /\ Len(s) \in Nat
  OBVIOUS
<1>2. Len(<<>>) = 0
  OBVIOUS
<1>3. Append(s, tree) # <<>>
  <2> SUFFICES ASSUME Append(s, tree) = <<>> PROVE FALSE
    OBVIOUS
  <2>1. Len(Append(s, tree)) = 0
    BY <1>2
  <2> QED
    BY <1>1, <2>1
<1> QED
  BY <1>1, <1>3

\* A checkpoint adds a tree to the copy of the manifest, or only a commit to the clone.
LEMMA CheckpointType ==
  ASSUME TypeInv, NEW p \in Phases, Checkpoint(p) \/ CommitUnrecorded(p) PROVE TypeInv'
<1> DEFINE r == Repo[p]
           old == worker[p].manifest.checkpoints
           m == [worker[p].manifest EXCEPT !.checkpoints[r] = Append(@, Tree(r))]
<1>1. worker[p] \in Calls /\ r \in Repos /\ Tree(r) \in SUBSET Files /\ worker[p].at # "idle"
  BY GoesType, TreeType DEF Checkpoint, CommitUnrecorded, Due
<1>2. head' \in [Repos -> SUBSET Files]
  BY <1>1 DEF Checkpoint, CommitUnrecorded, TypeInv, ExecTypeOK
<1>3. CASE Checkpoint(p)
  <2>1. worker[p].manifest \in Manifests
    BY <1>1 DEF Calls
  <2>2. Append(old[r], Tree(r)) \in Seq(SUBSET Files) \ {<<>>}
    <3>1. old[r] \in Seq(SUBSET Files)
      BY <1>1, <2>1 DEF Manifests
    <3> QED
      BY <1>1, <3>1, AppendNonempty
  <2>3. m \in Manifests
    BY <1>1, <2>1, <2>2 DEF Manifests
  <2>4. worker' = [worker EXCEPT ![p] = [Goes(p) EXCEPT !.manifest = m]]
    BY <1>3, GoesType DEF Checkpoint
  <2>5. worker' \in [Phases -> Calls] /\ Numbered'
    BY <1>1, <2>3, <2>4, ManifestReplaced
  <2> QED
    BY <1>2, <1>3, <2>5 DEF Checkpoint, TypeInv, ExecTypeOK, memory, records, tally
<1>4. CASE CommitUnrecorded(p)
  <2>1. Errs(p) \in Calls /\ Errs(p).number = worker[p].number
    <3>1. "done" \in Steps /\ "error" \in Ends
      BY DEF Steps, Ends
    <3>2. Errs(p) \in Calls
      BY <1>1, <3>1, CallUpdates DEF Errs, GoesTo
    <3>3. GoesTo(p, "done", "error").number = worker[p].number
      BY <1>1 DEF GoesTo, Calls
    <3> QED
      BY <3>2, <3>3 DEF Errs
  <2>2. worker' \in [Phases -> Calls] /\ Numbered'
    BY <1>1, <1>4, <2>1, NumberKept DEF CommitUnrecorded
  <2> QED
    BY <1>2, <1>4, <2>2 DEF CommitUnrecorded, TypeInv, ExecTypeOK, memory, records, tally
<1> QED
  BY <1>3, <1>4

\* Copies keep their types where they are saved and published.
LEMMA SaveType ==
  ASSUME TypeInv, NEW p \in Phases,
         WriteManifest(p) \/ RenameManifest(p) \/ PublishPlan(p) \/ PublishWorkspace(p)
  PROVE  TypeInv'
<1>1. worker[p] \in Calls /\ Goes(p) \in Calls /\ Goes(p).number = worker[p].number
      /\ worker[p].at # "idle"
  BY GoesType DEF WriteManifest, RenameManifest, PublishPlan, PublishWorkspace, Due
<1>2. worker' \in [Phases -> Calls] /\ Numbered'
  BY <1>1, NumberKept DEF WriteManifest, RenameManifest, PublishPlan, PublishWorkspace
<1>3. worker[p].manifest \in Manifests /\ worker[p].plan \in Plans
  BY <1>1 DEF Calls
<1>4. CASE WriteManifest(p)
  BY <1>2, <1>3, <1>4 DEF WriteManifest, TypeInv, ExecTypeOK, memory, trees, tally
<1>5. CASE RenameManifest(p)
  BY <1>2, <1>5 DEF RenameManifest, TypeInv, ExecTypeOK, memory, trees, tally
<1>6. CASE PublishPlan(p)
  BY <1>2, <1>3, <1>6 DEF PublishPlan, TypeInv, ExecTypeOK, records, trees, tally
<1>7. CASE PublishWorkspace(p)
  BY <1>2, <1>3, <1>7 DEF PublishWorkspace, TypeInv, ExecTypeOK, records, trees, tally
<1> QED
  BY <1>4, <1>5, <1>6, <1>7

\* An error ends the call.
LEMMA StepFailsType == ASSUME TypeInv, NEW p \in Phases, StepFails(p) PROVE TypeInv'
<1>1. worker[p].at # "idle"
  BY DEF StepFails, MayFail, Due, Statuses
<1>2. "done" \in Steps /\ "error" \in Ends
  BY DEF Steps, Ends
<1> QED
  BY <1>1, <1>2, GoesToType DEF StepFails, Errs

\* Every step keeps the type.
LEMMA StepType == TypeInv /\ [Next]_vars => TypeInv'
<1> SUFFICES ASSUME TypeInv, [Next]_vars PROVE TypeInv'
  OBVIOUS
<1>1. CASE Next
  <2>1. PICK p \in Phases :
          \/ Launch(p) \/ TakeWorkspace(p) \/ Harvest(p)
          \/ Project(p) \/ ProjectionCut(p) \/ Baseline(p) \/ AgentActs(p) \/ AgentEnds(p) \/ AgentTimesOut(p)
          \/ Inspect(p) \/ Judge(p)
          \/ Quarantine(p) \/ Rollback(p) \/ RollbackFails(p)
          \/ Checkpoint(p) \/ CommitUnrecorded(p)
          \/ WriteManifest(p) \/ RenameManifest(p)
          \/ PublishPlan(p) \/ PublishWorkspace(p)
          \/ StepFails(p)
    BY <1>1 DEF Next, AgentActs
  <2> QED
    BY <2>1, LaunchType, TakeWorkspaceType, HarvestType, ProjectType, ProjectionCutType,
       BaselineType,
       AgentActsType, AgentLeavesType, InspectType, JudgeType, QuarantineType, RollbackType,
       CheckpointType, SaveType, StepFailsType
<1>2. CASE UNCHANGED vars
  BY <1>2 DEF vars, memory, records, trees, tally, TypeInv, ExecTypeOK, Numbered
<1> QED
  BY <1>1, <1>2

\* Every variable of the executor keeps its type, with any number of workers and any faults.
THEOREM ExecTypeCorrect == Spec => []ExecTypeOK
<1>1. TypeInv => ExecTypeOK
  BY DEF TypeInv
<1> QED
  BY InitType, StepType, <1>1, PTL DEF Spec

(***************************************************************************)
(* One worker at a time.  The inductive invariant: at most one call is     *)
(* open; no path is newer than the last launch, on disk or in a            *)
(* checkpoint, so that what the agent creates is not in its baseline; and  *)
(* the call that is open knows what is accepted.                           *)
(***************************************************************************)
Solo == \A p, q \in Phases : worker[p].at # "idle" /\ worker[q].at # "idle" => p = q

\* Files written up to launch n.
UpTo(n) == {f \in Files : f.launch <= n}

Bounded(m) == \A r \in Repos : \A i \in DOMAIN m.checkpoints[r] : m.checkpoints[r][i] \subseteq UpTo(launched)

Dated ==
  /\ disk \subseteq UpTo(launched)
  /\ Bounded(lastWorkspace)
  /\ \A p \in Phases : Bounded(worker[p].manifest)

\* New paths, where the snapshot goes, are in the write root.
StaysInside(w, p) == \A f \in w.made : f.edited = 0 /\ f.walked => f.at = WriteRoot(p)

Starting == {"workspace", "running", "baseline"}

\* What holds of a call w of p.
Sound(w, p) ==
  /\ w.number <= launched
  /\ w.at \in Starting \cup {"agent"} => w.end = "open"
  /\ w.at \in Starting => w.made = {} /\ disk \subseteq UpTo(w.number - 1)
  /\ w.at \in {"agent", "inspect"} =>
       /\ w.made \subseteq disk /\ \A f \in w.made : f.edited = 0 => f.launch = w.number
       /\ w.before \subseteq UpTo(w.number - 1)
  /\ w.at \in {"verifying", "gates"} \/ w.end = "passed" \/ p \in accepted => StaysInside(w, p)
  /\ p \in accepted => w.at = "idle"

\* Steps of a passing attempt, from the projection of the result and of its publication on.
Projecting == {"passed", "checkpoint", "write", "rename", "publish_plan", "publish_workspace", "done"}

Projects(w, p) ==
  /\ w.end = "passed" => w.at \in Projecting
  /\ w.at = "passed" => w.end = "passed"
  /\ w.end = "passed" /\ w.at # "passed" => w.plan[p] = "passed" /\ planFile[p] = "passed"
  /\ w.end = "passed" /\ w.at \in {"publish_workspace", "done"} => lastPlan[p] = "passed"
  /\ w.at # "idle" => \A q \in accepted : w.plan[q] = "passed"

SerialInv ==
  /\ Solo /\ Dated
  /\ \A p \in Phases : Sound(worker[p], p) /\ Projects(worker[p], p)
  /\ \A q \in accepted : lastPlan[q] = "passed" /\ planFile[q] = "passed"

SerialStep == TypeInv /\ SerialInv

\* What is known of the call that is open.
LEMMA OpenCall ==
  ASSUME SerialStep, NEW p \in Phases, worker[p].at # "idle"
  PROVE  /\ worker \in [Phases -> Calls] /\ worker[p] \in Calls /\ Repo[p] \in Repos /\ p \notin accepted
         /\ Sound(worker[p], p) /\ Projects(worker[p], p) /\ Bounded(worker[p].manifest)
         /\ disk \subseteq UpTo(launched) /\ Bounded(lastWorkspace)
         /\ \A q \in Phases : q # p => worker[q].at = "idle"
         /\ \A q \in accepted : lastPlan[q] = "passed" /\ planFile[q] = "passed"
BY ExecutorAssumption DEF SerialStep, TypeInv, ExecTypeOK, SerialInv, Solo, Dated, Sound

\* A step of the call that is open says nothing new of the others, which are idle.
LEMMA OpenCallSteps ==
  ASSUME SerialStep, NEW p \in Phases, worker[p].at # "idle", NEW w \in Calls,
         worker' = [worker EXCEPT ![p] = w], UNCHANGED <<accepted, launched>>,
         disk' \subseteq UpTo(launched), Bounded(w.manifest),
         lastWorkspace' \in {lastWorkspace, worker[p].manifest},
         Sound(worker[p], p)', Projects(worker[p], p)',
         \A q \in accepted : lastPlan'[q] = "passed" /\ planFile'[q] = "passed"
  PROVE  SerialInv'
<1>1. /\ \A q \in Phases : worker'[q] = IF q = p THEN w ELSE worker[q]
      /\ \A q \in Phases : q # p => worker[q].at = "idle"
      /\ launched' = launched /\ accepted' = accepted
      /\ accepted \subseteq Phases
  BY OpenCall DEF SerialStep, TypeInv, ExecTypeOK, tally
<1>2. Solo'
  BY <1>1 DEF Solo
<1>3. Dated'
  <2>1. \A q \in Phases : Bounded(worker[q].manifest)'
    BY <1>1 DEF SerialStep, SerialInv, Dated, Bounded, UpTo
  <2>2. Bounded(lastWorkspace)'
    <3>1. CASE lastWorkspace' = lastWorkspace
      BY <1>1, <3>1, OpenCall DEF Bounded, UpTo
    <3>2. CASE lastWorkspace' = worker[p].manifest
      BY <1>1, <3>2, OpenCall DEF Bounded, UpTo
    <3> QED
      BY <3>1, <3>2
  <2>3. (disk \subseteq UpTo(launched))'
    BY <1>1 DEF UpTo
  <2> QED
    BY <2>1, <2>2, <2>3 DEF Dated
<1>4. ASSUME NEW q \in Phases
      PROVE  Sound(worker[q], q)' /\ Projects(worker[q], q)'
  <2>1. CASE q = p
    BY <1>1, <2>1 DEF Sound, Projects
  <2>2. CASE q # p
    <3>1. worker'[q] = worker[q] /\ worker[q].at = "idle"
      BY <1>1, <2>2
    <3>2. Sound(worker[q], q) /\ Projects(worker[q], q)
      BY DEF SerialStep, SerialInv
    <3>3. Sound(worker[q], q)'
      BY <1>1, <3>1, <3>2 DEF Sound, StaysInside, Starting
    <3>4. worker[q].end # "passed"
      BY <3>1, <3>2 DEF Projects, Projecting
    <3> QED
      BY <3>1, <3>3, <3>4 DEF Projects
  <2> QED
    BY <2>1, <2>2
<1> QED
  BY <1>1, <1>2, <1>3, <1>4 DEF SerialInv

\* What a call keeps when it goes on.
LEMMA GoesKeeps ==
  ASSUME SerialStep, NEW p \in Phases
  PROVE  /\ Goes(p) \in Calls /\ Goes(p).at = After(p)
         /\ Goes(p).end = worker[p].end /\ Goes(p).number = worker[p].number
         /\ Goes(p).plan = worker[p].plan /\ Goes(p).manifest = worker[p].manifest
         /\ Goes(p).before = worker[p].before /\ Goes(p).made = worker[p].made
<1>1. worker[p] \in Calls
  BY DEF SerialStep, TypeInv, ExecTypeOK
<1> QED
  BY <1>1, GoesType DEF SerialStep, Goes, Calls

\* What a call keeps when its end becomes known.
LEMMA GoesToKeeps ==
  ASSUME SerialStep, NEW p \in Phases, NEW at \in Steps, NEW end \in Ends
  PROVE  LET w == GoesTo(p, at, end) IN
         /\ w \in Calls /\ w.at = at /\ w.end = end
         /\ w.number = worker[p].number
         /\ w.plan = worker[p].plan /\ w.manifest = worker[p].manifest
         /\ w.before = worker[p].before /\ w.made = worker[p].made
<1>1. worker[p] \in Calls
  BY DEF SerialStep, TypeInv, ExecTypeOK
<1> QED
  BY <1>1, CallUpdates DEF GoesTo, Calls

\* Once past the gates, a call stays sound whatever becomes of the files.
LEMMA LaterSound ==
  ASSUME SerialStep, NEW p \in Phases, worker[p].at # "idle", NEW w \in Calls,
         worker' = [worker EXCEPT ![p] = w], UNCHANGED <<accepted, launched>>,
         w.number = worker[p].number, w.made = worker[p].made,
         w.at \notin Starting \cup {"agent", "inspect", "verifying", "gates"},
         w.end # "passed" \/ worker[p].end = "passed"
  PROVE  Sound(worker[p], p)'
<1>1. worker'[p] = w /\ worker[p].at # "idle"
  BY DEF SerialStep, TypeInv, ExecTypeOK
<1> QED
  BY <1>1, OpenCall DEF Sound, StaysInside, tally

\* A call that is not passing projects nothing.
LEMMA NotPassing ==
  ASSUME SerialStep, NEW p \in Phases, worker[p].at # "idle", NEW w \in Calls,
         worker' = [worker EXCEPT ![p] = w], UNCHANGED <<accepted, launched>>, w.end # "passed", w.at # "passed",
         w.plan = worker[p].plan
  PROVE  Projects(worker[p], p)'
<1>1. worker'[p] = w /\ \A q \in accepted : w.plan[q] = "passed"
  BY OpenCall DEF Projects
<1> QED
  BY <1>1 DEF Projects, tally

\* Steps that leave what is on disk and what is published alone.
LEMMA QuietStep ==
  ASSUME SerialStep, NEW p \in Phases, worker[p].at # "idle", NEW w \in Calls,
         worker' = [worker EXCEPT ![p] = w], UNCHANGED <<memory, planFile, disk, tally>>,
         w.manifest = worker[p].manifest,
         Sound(worker[p], p)', Projects(worker[p], p)'
  PROVE  SerialInv'
BY OpenCall, OpenCallSteps DEF memory, tally

\* Initially nothing is open, on disk or accepted.
LEMMA InitSerial == Init => SerialInv
<1> SUFFICES ASSUME Init PROVE SerialInv
  OBVIOUS
<1>1. Bounded(IntakeManifest)
  <2>1. ASSUME NEW r \in Repos, NEW i \in DOMAIN IntakeManifest.checkpoints[r]
        PROVE  IntakeManifest.checkpoints[r][i] = {}
    BY DEF IntakeManifest
  <2> QED
    BY <2>1 DEF Bounded
<1>2. Dated
  BY <1>1 DEF Init, Idle, Dated
<1>3. Idle.at = "idle" /\ Idle.end = "open" /\ Idle.number = 0
  BY DEF Idle
<1> QED
  BY <1>2, <1>3 DEF Init, SerialInv, Solo, Sound, Projects, Starting, Projecting

\* With room for one call only, a launch finds all calls idle.
LEMMA LaunchAlone ==
  ASSUME TypeInv, MaxConcurrent = 1, NEW p \in Phases, Launch(p)
  PROVE  \A q \in Phases : worker[q].at = "idle"
<1>1. IsFiniteSet(Active)
  BY ExecutorAssumption, FS_Subset DEF Active
<1>2. Cardinality(Active) \in Nat /\ Cardinality(Active) < 1
  BY <1>1, FS_CardinalityType DEF Launch
<1>3. Active = {}
  BY <1>1, <1>2, FS_EmptySet
<1> QED
  BY <1>3 DEF Active

\* A launch finds no file of its own number, and copies the plan with what is accepted.
LEMMA LaunchSerial ==
  ASSUME SerialStep, MaxConcurrent = 1, NEW p \in Phases, Launch(p)
  PROVE  SerialInv'
<1>1. /\ \A q \in Phases : worker[q].at = "idle"
      /\ launched' = launched + 1 /\ launched \in Nat
      /\ worker \in [Phases -> Calls] /\ worker' = [worker EXCEPT ![p] = Call(p)]
      /\ p \notin accepted
      /\ UNCHANGED <<memory, records, trees, accepted>>
  <2>1. \A q \in Phases : worker[q].at = "idle"
    BY LaunchAlone DEF SerialStep
  <2>2. launched \in Nat /\ worker \in [Phases -> Calls]
    BY ExecutorAssumption DEF SerialStep, TypeInv, ExecTypeOK
  <2> QED
    BY <2>1, <2>2 DEF Launch
<1>2. LET w == Call(p) IN /\ w.at = "workspace" /\ w.end = "open" /\ w.made = {}
                          /\ w.number = launched + 1 /\ w.plan = lastPlan
                          /\ w.manifest = IntakeManifest
  BY DEF Call, Idle
<1>3. UpTo(launched) \subseteq UpTo(launched')
  BY <1>1, ExecutorAssumption DEF UpTo, Files
<1>4. Bounded(IntakeManifest)'
  <2>1. ASSUME NEW r \in Repos, NEW i \in DOMAIN IntakeManifest.checkpoints[r]
        PROVE  IntakeManifest.checkpoints[r][i] = {}
    BY DEF IntakeManifest
  <2> QED
    BY <2>1 DEF Bounded
<1>5. ASSUME NEW m, Bounded(m)
      PROVE  \A r \in Repos : \A i \in DOMAIN m.checkpoints[r] :
               m.checkpoints[r][i] \subseteq UpTo(launched')
  BY <1>3, <1>5 DEF Bounded
<1>6. UpTo(launched)' = UpTo(launched')
  BY DEF UpTo
<1>7. Dated'
  <2>1. Bounded(lastWorkspace)'
    BY <1>1, <1>5, <1>6 DEF SerialStep, SerialInv, Dated, Bounded, memory
  <2>2. ASSUME NEW q \in Phases PROVE Bounded(worker[q].manifest)'
    <3>1. CASE q = p
      BY <1>1, <1>2, <1>4, <3>1 DEF Bounded
    <3>2. CASE q # p
      <4>1. worker'[q] = worker[q] /\ Bounded(worker[q].manifest)
        BY <1>1, <3>2 DEF SerialStep, SerialInv, Dated
      <4> QED
        BY <1>5, <1>6, <4>1 DEF Bounded
    <3> QED
      BY <3>1, <3>2
  <2>3. (disk \subseteq UpTo(launched))'
    BY <1>1, <1>3, <1>6 DEF SerialStep, SerialInv, Dated, trees
  <2> QED
    BY <2>1, <2>2, <2>3 DEF Dated
<1>8. ASSUME NEW q \in Phases
      PROVE  Sound(worker[q], q)' /\ Projects(worker[q], q)'
  <2>1. CASE q = p
    <3>1. worker'[q] = Call(p)
      BY <1>1, <2>1
    <3>2. disk' \subseteq UpTo(Call(p).number - 1)
      <4>1. Call(p).number - 1 = launched
        BY <1>1, <1>2
      <4> QED
        BY <1>1, <4>1 DEF SerialStep, SerialInv, Dated, trees
    <3>3. Sound(worker[q], q)'
      BY <1>1, <1>2, <2>1, <3>1, <3>2 DEF Sound, StaysInside, UpTo
    <3>4. \A a \in accepted' : Call(p).plan[a] = "passed"
      BY <1>1, <1>2 DEF SerialStep, SerialInv
    <3> QED
      BY <1>2, <3>1, <3>3, <3>4 DEF Projects
  <2>2. CASE q # p
    <3>1. worker'[q] = worker[q] /\ worker[q].at = "idle"
      BY <1>1, <2>2
    <3>2. Sound(worker[q], q) /\ Projects(worker[q], q) /\ worker[q].number \in Nat
      BY <1>1, ExecutorAssumption DEF SerialStep, SerialInv, Calls
    <3>3. Sound(worker[q], q)'
      BY <1>1, <3>1, <3>2 DEF Sound, StaysInside, Starting
    <3> QED
      BY <3>1, <3>2, <3>3 DEF Projects, Projecting
  <2> QED
    BY <2>1, <2>2
<1>9. Solo'
  BY <1>1 DEF Solo
<1> QED
  BY <1>1, <1>7, <1>8, <1>9 DEF SerialInv, SerialStep, memory, records

\* The copy of the manifest is no newer than the last launch.
LEMMA TakeWorkspaceSerial == ASSUME SerialStep, NEW p \in Phases, TakeWorkspace(p) PROVE SerialInv'
<1> DEFINE w == [Goes(p) EXCEPT !.manifest = lastWorkspace]
<1>1. /\ worker[p].at = "workspace" /\ After(p) = "running"
      /\ worker' = [worker EXCEPT ![p] = w]
      /\ UNCHANGED <<memory, records, trees, tally>>
  BY DEF TakeWorkspace, After, Due
<1>2. /\ worker'[p] = w /\ w \in Calls /\ w.at = "running" /\ w.end = worker[p].end /\ w.number = worker[p].number
      /\ w.plan = worker[p].plan /\ w.manifest = lastWorkspace
      /\ w.made = worker[p].made
  <2>1. lastWorkspace \in Manifests
    BY DEF SerialStep, TypeInv, ExecTypeOK
  <2>2. w \in Calls
    BY <2>1, GoesKeeps, CallUpdates
  <2> QED
    BY <1>1, <2>2, GoesKeeps, OpenCall DEF Calls
<1>3. Sound(worker[p], p)'
  BY <1>1, <1>2, OpenCall DEF Sound, Starting, tally, trees
<1>4. Projects(worker[p], p)'
  <2>1. w.end = "open"
    BY <1>1, <1>2, OpenCall DEF Sound, Starting
  <2> QED
    BY <1>1, <1>2, <2>1, NotPassing DEF tally
<1> QED
  BY <1>1, <1>2, <1>3, <1>4, OpenCall, OpenCallSteps DEF memory, records, trees, tally

\* The baseline holds files of earlier launches only.
LEMMA BaselineSerial == ASSUME SerialStep, NEW p \in Phases, Baseline(p) PROVE SerialInv'
<1> DEFINE w == [Goes(p) EXCEPT !.before = disk]
<1>1. /\ worker[p].at = "baseline" /\ After(p) = "agent"
      /\ worker' = [worker EXCEPT ![p] = w]
      /\ UNCHANGED <<memory, records, trees, tally>>
  BY DEF Baseline, After, Due
<1>2. /\ worker'[p] = w /\ w \in Calls /\ w.at = "agent" /\ w.end = worker[p].end /\ w.number = worker[p].number
      /\ w.plan = worker[p].plan /\ w.manifest = worker[p].manifest
      /\ w.made = worker[p].made /\ w.before = disk
  <2>1. disk \in SUBSET Files
    BY DEF SerialStep, TypeInv, ExecTypeOK
  <2>2. w \in Calls
    BY <2>1, GoesKeeps, CallUpdates
  <2> QED
    BY <1>1, <2>2, GoesKeeps, OpenCall DEF Calls
<1>3. Sound(worker[p], p)'
  BY <1>1, <1>2, OpenCall DEF Sound, Starting, tally, trees, UpTo
<1>4. Projects(worker[p], p)'
  <2>1. w.end = "open"
    BY <1>1, <1>2, OpenCall DEF Sound, Starting
  <2> QED
    BY <1>1, <1>2, <2>1, NotPassing DEF tally
<1> QED
  BY <1>1, <1>2, <1>3, <1>4, QuietStep DEF records, trees

\* What the agent creates is of its launch, and no path is newer.
LEMMA AgentActsSerial == ASSUME SerialStep, NEW p \in Phases, AgentActs(p) PROVE SerialInv'
<1>1. PICK old, new :
        /\ AgentChanges(p, old, new)
        /\ worker[p] \in Calls /\ worker[p].at = "agent"
        /\ old \subseteq disk /\ old \cap worker[p].made = {}
        /\ new \subseteq Files
        /\ \A f \in new : \/ f.edited = 0 /\ f.launch = worker[p].number
                          \/ f.edited # 0 /\ \E g \in disk : f.launch = g.launch
  BY AgentActsFiles DEF SerialStep
<1> DEFINE made == worker[p].made \cup new
           w == [worker[p] EXCEPT !.made = made]
<1>2. /\ worker' = [worker EXCEPT ![p] = w] /\ disk' = (disk \ old) \cup new
      /\ UNCHANGED <<memory, records, accepted, launched>>
  BY <1>1 DEF AgentChanges
<1>3. made \in SUBSET Files
  BY <1>1 DEF Calls
<1>4. /\ worker'[p] = w /\ w \in Calls /\ w.at = "agent" /\ w.end = worker[p].end /\ w.number = worker[p].number
      /\ w.plan = worker[p].plan /\ w.manifest = worker[p].manifest
      /\ w.made = made /\ w.before = worker[p].before
  <2>1. w \in Calls
    BY <1>1, <1>3, CallUpdates
  <2> QED
    BY <1>1, <1>2, <2>1, OpenCall DEF Calls
<1> HIDE DEF w
<1>5. /\ worker[p].number <= launched /\ worker[p].end = "open" /\ worker[p].made \subseteq disk
      /\ \A f \in worker[p].made : f.edited = 0 => f.launch = worker[p].number
      /\ worker[p].before \subseteq UpTo(worker[p].number - 1) /\ p \notin accepted
      /\ disk \subseteq UpTo(launched)
  BY <1>1, OpenCall DEF Sound, Starting
<1>6. disk' \subseteq UpTo(launched)
  <2>1. ASSUME NEW f \in new PROVE f.launch <= launched
    BY <1>1, <1>5, <2>1 DEF UpTo
  <2> QED
    BY <1>1, <1>2, <1>5, <2>1 DEF UpTo
<1>7. Sound(worker[p], p)'
  <2>1. w.made \subseteq disk'
    BY <1>1, <1>2, <1>4, <1>5
  <2>2. \A f \in w.made : f.edited = 0 => f.launch = w.number
    BY <1>1, <1>4, <1>5
  <2> QED
    BY <1>2, <1>4, <1>5, <2>1, <2>2 DEF Sound, Starting, UpTo
<1>8. Projects(worker[p], p)'
  BY <1>1, <1>2, <1>4, <1>5, NotPassing DEF tally
<1> QED
  BY <1>1, <1>2, <1>4, <1>6, <1>7, <1>8, OpenCall, OpenCallSteps DEF memory, records, tally

\* The agent ends with its files on disk; its time ends and it never passes.
LEMMA AgentLeavesSerial ==
  ASSUME SerialStep, NEW p \in Phases, AgentEnds(p) \/ AgentTimesOut(p)
  PROVE  SerialInv'
<1>1. worker[p].at = "agent" /\ UNCHANGED <<memory, records, trees, tally>>
  BY DEF AgentEnds, AgentTimesOut, CanWork, Due
<1>3. CASE AgentEnds(p)
  <2> DEFINE w == GoesTo(p, "inspect", "open")
  <2>1. "inspect" \in Steps /\ "open" \in Ends
    BY DEF Steps, Ends
  <2>2. /\ w \in Calls /\ w.at = "inspect" /\ w.end = "open" /\ w.number = worker[p].number
        /\ w.plan = worker[p].plan /\ w.manifest = worker[p].manifest
        /\ w.before = worker[p].before /\ w.made = worker[p].made
    BY <2>1, GoesToKeeps
  <2>9. worker' = [worker EXCEPT ![p] = w]
    BY <1>3 DEF AgentEnds
  <2>3. Sound(worker[p], p)'
    BY <1>1, <2>2, <2>9, OpenCall DEF Sound, Starting, tally, trees, UpTo
  <2>4. Projects(worker[p], p)'
    BY <1>1, <2>2, <2>9, NotPassing DEF tally
  <2> QED
    BY <1>1, <2>2, <2>9, <2>3, <2>4, QuietStep DEF records, trees
<1>4. CASE AgentTimesOut(p)
  <2> DEFINE at == PartialRecovery(p)
             w == GoesTo(p, at, "timed_out")
  <2>1. at \in {"quarantine", "failed", "rollback"} /\ at \in Steps /\ "timed_out" \in Ends
    BY DEF PartialRecovery, Steps, Ends
  <2> HIDE DEF at
  <2>2. /\ w \in Calls /\ w.at = at /\ w.end = "timed_out" /\ w.number = worker[p].number
        /\ w.plan = worker[p].plan /\ w.manifest = worker[p].manifest
        /\ w.made = worker[p].made
    BY <2>1, GoesToKeeps
  <2>9. worker' = [worker EXCEPT ![p] = w]
    BY <1>4 DEF AgentTimesOut, at
  <2>3. Sound(worker[p], p)'
    BY <1>1, <2>1, <2>2, <2>9, LaterSound DEF Starting, tally
  <2>4. Projects(worker[p], p)'
    BY <1>1, <2>1, <2>2, <2>9, NotPassing DEF tally
  <2> QED
    BY <1>1, <2>2, <2>9, <2>3, <2>4, QuietStep DEF records, trees
<1> QED
  BY <1>3, <1>4

\* A projection keeps what is accepted, and adds a passing phase.
LEMMA ProjectSerial == ASSUME SerialStep, NEW p \in Phases, Project(p) PROVE SerialInv'
<1>1. PICK status \in Statuses :
        /\ worker[p].at = status
        /\ worker' = [worker EXCEPT ![p] = [Goes(p) EXCEPT !.plan[p] = status]]
        /\ planFile' = worker'[p].plan
        /\ UNCHANGED <<memory, manifestFile, manifestTmp, trees, tally>>
  BY DEF Project, Due
<1> DEFINE plan == [worker[p].plan EXCEPT ![p] = status]
           w == [Goes(p) EXCEPT !.plan = plan]
<1>2. status \in {"running", "verifying", "failed", "needs_review", "passed"}
      /\ worker[p].at # "idle"
  BY <1>1, GoesType DEF SerialStep, Statuses, Calls, Steps
<1>3. worker[p].plan \in Plans /\ plan \in Plans
  BY GoesType DEF SerialStep, Calls, Plans
<1>4. /\ worker' = [worker EXCEPT ![p] = w] /\ worker'[p] = w
      /\ w \in Calls /\ w.at = After(p) /\ w.end = worker[p].end
      /\ w.number = worker[p].number /\ w.manifest = worker[p].manifest
      /\ w.made = worker[p].made /\ w.plan = plan
  <2>1. w \in Calls
    BY <1>3, GoesKeeps, CallUpdates
  <2>2. w = [Goes(p) EXCEPT !.plan[p] = status]
    BY GoesKeeps
  <2>3. worker' = [worker EXCEPT ![p] = w] /\ worker'[p] = w
    BY <1>1, <1>2, <2>2, OpenCall
  <2> QED
    BY <2>1, <2>3, GoesKeeps DEF Calls
<1>5. plan[p] = status /\ \A q \in accepted : plan[q] = "passed"
  BY <1>2, <1>3, OpenCall DEF Projects, Plans, SerialStep, TypeInv, ExecTypeOK
<1> HIDE DEF w, plan
<1>6. \A q \in accepted : lastPlan'[q] = "passed" /\ planFile'[q] = "passed"
  BY <1>1, <1>2, <1>4, <1>5, OpenCall DEF memory
<1>7. Sound(worker[p], p)' /\ Projects(worker[p], p)'
  <2>1. CASE status = "running"
    <3>1. w.at = "baseline" /\ w.end = "open"
      BY <1>1, <1>2, <1>4, <2>1, OpenCall DEF After, Due, Sound, Starting
    <3>2. Sound(worker[p], p)'
      BY <1>1, <1>2, <1>4, <2>1, <3>1, OpenCall DEF Sound, Starting, tally, trees, UpTo
    <3> QED
      BY <1>1, <1>4, <1>5, <3>1, <3>2 DEF Projects, tally
  <2>2. CASE status = "verifying"
    <3>1. w.at = "gates" /\ w.end # "passed"
      BY <1>1, <1>2, <1>4, <2>2, OpenCall DEF After, Due, Projects, Projecting
    <3>2. Sound(worker[p], p)'
      <4>1. Sound(worker[p], p)
        BY <1>2, OpenCall
      <4> QED
        BY <1>1, <1>4, <2>2, <3>1, <4>1 DEF Sound, StaysInside, Starting, tally
    <3> QED
      BY <1>1, <1>4, <1>5, <3>1, <3>2 DEF Projects, tally
  <2>3. CASE status \in {"failed", "needs_review"}
    <3>1. w.at \in {"publish_plan", "write"} /\ w.end # "passed"
      BY <1>1, <1>2, <1>4, <2>3, OpenCall DEF After, Due, Projects, Projecting
    <3>2. Sound(worker[p], p)'
      BY <1>1, <1>2, <1>4, <3>1, LaterSound DEF Starting, tally
    <3> QED
      BY <1>1, <1>4, <1>5, <3>1, <3>2 DEF Projects, tally
  <2>4. CASE status = "passed"
    <3>1. w.at = "checkpoint" /\ w.end = "passed" /\ worker[p].end = "passed"
          /\ w.at \notin Starting \cup {"agent", "inspect", "verifying", "gates"}
      BY <1>1, <1>2, <1>4, <2>4, OpenCall DEF After, Due, Projects, Starting
    <3>2. Sound(worker[p], p)'
      BY <1>1, <1>2, <1>4, <3>1, LaterSound DEF tally
    <3>3. w.plan[p] = "passed" /\ planFile'[p] = "passed"
      BY <1>1, <1>4, <1>5, <2>4
    <3> QED
      BY <1>1, <1>4, <1>5, <3>1, <3>2, <3>3 DEF Projects, Projecting, tally
  <2> QED
    BY <1>2, <2>1, <2>2, <2>3, <2>4
<1> QED
  BY <1>1, <1>2, <1>4, <1>6, <1>7, OpenCall, OpenCallSteps DEF memory, trees, tally

\* A projection that is cut keeps what is accepted, and the call does not pass.
LEMMA ProjectionCutSerial == ASSUME SerialStep, NEW p \in Phases, ProjectionCut(p) PROVE SerialInv'
<1> DEFINE w == GoesTo(p, "done", "error")
<1>1. PICK status \in Statuses :
        /\ worker[p].at = status /\ worker' = [worker EXCEPT ![p] = w]
        /\ planFile' = [worker[p].plan EXCEPT ![p] = status]
        /\ UNCHANGED <<memory, trees, tally>>
  BY DEF ProjectionCut, Due, Errs
<1>2. worker[p].at # "idle" /\ "done" \in Steps /\ "error" \in Ends
  BY <1>1 DEF Statuses, Steps, Ends
<1>3. /\ w \in Calls /\ w.at = "done" /\ w.end = "error" /\ w.number = worker[p].number
      /\ w.plan = worker[p].plan /\ w.manifest = worker[p].manifest
      /\ w.made = worker[p].made
  BY <1>2, GoesToKeeps
<1> HIDE DEF w
<1>4. \A q \in accepted : lastPlan'[q] = "passed" /\ planFile'[q] = "passed"
  <2>1. worker[p].plan \in Plans /\ accepted \subseteq Phases
    BY <1>2, OpenCall DEF Calls, SerialStep, TypeInv, ExecTypeOK
  <2>2. \A q \in accepted : q # p /\ worker[p].plan[q] = "passed"
    BY <1>2, OpenCall DEF Projects
  <2> QED
    BY <1>1, <1>2, <2>1, <2>2, OpenCall DEF Plans, memory
<1>5. Sound(worker[p], p)'
  BY <1>1, <1>2, <1>3, LaterSound DEF Starting, tally
<1>6. Projects(worker[p], p)'
  BY <1>1, <1>2, <1>3, NotPassing DEF tally
<1> QED
  BY <1>1, <1>2, <1>3, <1>4, <1>5, <1>6, OpenCall, OpenCallSteps DEF memory, trees, tally

\* No escape found is what makes a call stay inside: what its agent made is on disk, and not in
\* the baseline.
LEMMA InspectSerial == ASSUME SerialStep, NEW p \in Phases, Inspect(p) PROVE SerialInv'
<1> DEFINE escapes == IF ChangedOutside(p) # {} THEN ChangedOutside(p) ELSE NewEscapes(p)
<1>1. worker[p].at = "inspect" /\ UNCHANGED <<memory, records, trees, tally>>
  BY DEF Inspect, Due
<1>2. CASE escapes = {} /\ worker' = [worker EXCEPT ![p] = GoesTo(p, "verifying", "open")]
  <2> DEFINE w == GoesTo(p, "verifying", "open")
  <2>1. "verifying" \in Steps /\ "open" \in Ends
    BY DEF Steps, Ends
  <2>2. /\ w \in Calls /\ w.at = "verifying" /\ w.end = "open" /\ w.number = worker[p].number
        /\ w.plan = worker[p].plan /\ w.manifest = worker[p].manifest
        /\ w.made = worker[p].made
    BY <2>1, GoesToKeeps
  <2>3. worker'[p] = w
    BY <1>1, <1>2, OpenCall
  <2>4. StaysInside(worker[p], p)
    <3>1. NewEscapes(p) = {}
      BY <1>2
    <3>2. /\ worker[p].made \subseteq disk /\ worker[p].before \subseteq UpTo(worker[p].number - 1)
          /\ \A f \in worker[p].made : f.edited = 0 => f.launch = worker[p].number
          /\ worker[p].number \in Nat
      BY <1>1, OpenCall, ExecutorAssumption DEF Sound, Calls
    <3>3. ASSUME NEW f \in worker[p].made, f.edited = 0 PROVE AtPath(f, worker[p].before) = {}
      <4>1. ASSUME NEW g \in worker[p].before PROVE ~SamePath(f, g)
        <5>1. g.launch <= worker[p].number - 1 /\ g.launch \in Int
          BY <3>2 DEF UpTo, Files
        <5> QED
          BY <3>2, <3>3, <5>1 DEF SamePath
      <4> QED
        BY <4>1 DEF AtPath
    <3> QED
      BY <3>1, <3>2, <3>3 DEF NewEscapes, StaysInside
  <2>5. Sound(worker[p], p)'
    BY <1>1, <2>2, <2>3, <2>4, OpenCall DEF Sound, StaysInside, Starting, tally
  <2>6. Projects(worker[p], p)'
    BY <1>1, <1>2, <2>2, NotPassing DEF tally
  <2> QED
    BY <1>1, <1>2, <2>2, <2>5, <2>6, QuietStep DEF records, trees
<1>3. CASE \E f \in escapes : worker' = [worker EXCEPT ![p] =
                                 [GoesTo(p, "quarantine", "escaped") EXCEPT !.target = AtPath(f, disk)]]
  <2>1. PICK f \in escapes : worker' = [worker EXCEPT ![p] =
                                [GoesTo(p, "quarantine", "escaped") EXCEPT !.target = AtPath(f, disk)]]
    BY <1>3
  <2> DEFINE v == GoesTo(p, "quarantine", "escaped")
             w == [v EXCEPT !.target = AtPath(f, disk)]
  <2>2. AtPath(f, disk) \in SUBSET Files
    BY EscapesType DEF SerialStep
  <2>3. "quarantine" \in Steps /\ "escaped" \in Ends
    BY DEF Steps, Ends
  <2>4. /\ w \in Calls /\ w.at = "quarantine" /\ w.end = "escaped" /\ w.number = worker[p].number
        /\ w.plan = worker[p].plan /\ w.manifest = worker[p].manifest
        /\ w.made = worker[p].made
    <3>1. /\ v \in Calls /\ v.at = "quarantine" /\ v.end = "escaped" /\ v.number = worker[p].number
          /\ v.plan = worker[p].plan /\ v.manifest = worker[p].manifest
          /\ v.made = worker[p].made
      BY <2>3, GoesToKeeps
    <3> HIDE DEF v
    <3>2. w \in Calls
      BY <2>2, <3>1, CallUpdates
    <3> QED
      BY <3>1, <3>2 DEF Calls
  <2>5. Sound(worker[p], p)'
    BY <1>1, <2>1, <2>4, LaterSound DEF Starting, tally
  <2>6. Projects(worker[p], p)'
    BY <1>1, <2>1, <2>4, NotPassing DEF tally
  <2> QED
    BY <1>1, <2>1, <2>4, <2>5, <2>6, QuietStep DEF records, trees
<1> QED
  BY <1>2, <1>3 DEF Inspect

\* A call that passes the gates was inside its write root.
LEMMA JudgeSerial == ASSUME SerialStep, NEW p \in Phases, Judge(p) PROVE SerialInv'
<1>1. worker[p].at = "gates" /\ UNCHANGED <<memory, records, trees, tally>>
  BY DEF Judge, Due
<1>2. PICK at \in Steps, end \in Ends :
        /\ worker' = [worker EXCEPT ![p] = GoesTo(p, at, end)]
        /\ at \in {"passed", "failed", "needs_review"}
        /\ (at = "passed") <=> (end = "passed")
  <2>1. PICK v \in Verdicts : worker' = [worker EXCEPT ![p] = GoesTo(p, v[1], v[2])]
    BY DEF Judge
  <2>2. /\ v[1] \in Steps /\ v[2] \in Ends
        /\ v[1] \in {"passed", "failed", "needs_review"}
        /\ (v[1] = "passed") <=> (v[2] = "passed")
    BY DEF Verdicts, Steps, Ends
  <2> QED
    BY <2>1, <2>2
<1> DEFINE w == GoesTo(p, at, end)
<1>3. /\ worker'[p] = w /\ w \in Calls /\ w.at = at /\ w.end = end
      /\ w.number = worker[p].number
      /\ w.plan = worker[p].plan /\ w.manifest = worker[p].manifest
      /\ w.made = worker[p].made
  BY <1>1, <1>2, OpenCall, GoesToKeeps
<1>4. Sound(worker[p], p)'
  BY <1>1, <1>2, <1>3, OpenCall DEF Sound, StaysInside, Starting, tally
<1>5. Projects(worker[p], p)'
  BY <1>1, <1>2, <1>3, OpenCall DEF Projects, Projecting, tally
<1> QED
  BY <1>1, <1>2, <1>3, <1>4, <1>5, QuietStep DEF records, trees

\* An error does not pass.
LEMMA StepFailsSerial == ASSUME SerialStep, NEW p \in Phases, StepFails(p) PROVE SerialInv'
<1> DEFINE w == GoesTo(p, "done", "error")
<1>1. /\ worker[p].at # "idle" /\ UNCHANGED <<memory, records, trees, tally>>
      /\ worker' = [worker EXCEPT ![p] = w]
  BY DEF StepFails, MayFail, Due, Statuses, Errs
<1>2. "done" \in Steps /\ "error" \in Ends
  BY DEF Steps, Ends
<1>3. /\ w \in Calls /\ w.at = "done" /\ w.end = "error" /\ w.number = worker[p].number
      /\ w.plan = worker[p].plan /\ w.manifest = worker[p].manifest
      /\ w.made = worker[p].made
  BY <1>2, GoesToKeeps
<1>4. Sound(worker[p], p)'
  BY <1>1, <1>3, LaterSound DEF Starting, tally
<1>5. Projects(worker[p], p)'
  BY <1>1, <1>3, NotPassing DEF tally
<1> QED
  BY <1>1, <1>3, <1>4, <1>5, QuietStep DEF records, trees

\* A call that quarantines does not pass.
LEMMA QuarantineSerial == ASSUME SerialStep, NEW p \in Phases, Quarantine(p) PROVE SerialInv'
<1> DEFINE r == Repo[p]
           whole == TargetLost(p)
           moved == IF whole THEN Tree(r) ELSE worker[p].target
           entries == Append(worker[p].manifest.quarantines, moved)
           surplus == IF Len(entries) > MaxQuarantine THEN Len(entries) - MaxQuarantine ELSE 0
           kept == SubSeq(entries, surplus + 1, Len(entries))
           m == [worker[p].manifest EXCEPT !.quarantines = kept]
           w == [Goes(p) EXCEPT !.manifest = m]
<1>1. /\ worker[p].at = "quarantine" /\ After(p) \in {"write", "failed"}
      /\ disk' = disk \ moved
      /\ UNCHANGED <<memory, records, tally>>
  BY DEF Quarantine, After, Due
<1>2. worker' = [worker EXCEPT ![p] = w]
  BY GoesKeeps DEF Quarantine
<1>3. m \in Manifests /\ m.checkpoints = worker[p].manifest.checkpoints
  <2>1. worker[p].manifest \in Manifests /\ worker[p].target \in SUBSET Files
    BY <1>1, OpenCall DEF Calls
  <2>2. moved \in SUBSET Files
    BY <1>1, <2>1, OpenCall, TreeType DEF SerialStep
  <2>3. kept \in Seq(SUBSET Files)
    <3>1. entries \in Seq(SUBSET Files)
      BY <2>1, <2>2 DEF Manifests
    <3> QED
      BY <3>1, ExecutorAssumption
  <2> QED
    BY <2>1, <2>3 DEF Manifests
<1> HIDE DEF m, moved
<1>4. /\ w \in Calls /\ w.at = After(p) /\ w.end = worker[p].end /\ w.number = worker[p].number
      /\ w.plan = worker[p].plan /\ w.manifest = m /\ w.made = worker[p].made
  <2>1. w \in Calls
    BY <1>3, GoesKeeps, CallUpdates
  <2> QED
    BY <2>1, GoesKeeps DEF Calls
<1>5. w.end # "passed"
  BY <1>1, <1>4, OpenCall DEF Projects, Projecting
<1>6. Sound(worker[p], p)'
  BY <1>1, <1>2, <1>4, <1>5, LaterSound DEF Starting, tally
<1>7. Projects(worker[p], p)'
  BY <1>1, <1>2, <1>4, <1>5, NotPassing DEF tally
<1>8. Bounded(w.manifest)
  BY <1>1, <1>3, <1>4, OpenCall DEF Bounded
<1> QED
  BY <1>1, <1>2, <1>4, <1>6, <1>7, <1>8, OpenCall, OpenCallSteps DEF memory, records, tally

\* A rollback restores a checkpoint, which is no newer than the last launch.
LEMMA RollbackSerial ==
  ASSUME SerialStep, NEW p \in Phases, Rollback(p) \/ RollbackFails(p)
  PROVE  SerialInv'
<1> DEFINE w == Goes(p)
<1>1. /\ worker[p].at = "rollback" /\ After(p) = "failed"
      /\ worker' = [worker EXCEPT ![p] = w]
      /\ UNCHANGED <<memory, records, tally>>
      /\ disk' = disk \/ disk' \subseteq disk \cup LatestCheckpoint(p)
  BY DEF Rollback, RollbackFails, After, Due, trees
<1>2. /\ w \in Calls /\ w.at = After(p) /\ w.end = worker[p].end /\ w.number = worker[p].number
      /\ w.plan = worker[p].plan /\ w.manifest = worker[p].manifest /\ w.made = worker[p].made
  BY GoesKeeps
<1>3. LatestCheckpoint(p) \subseteq UpTo(launched)
  <2>1. worker[p].manifest.checkpoints[Repo[p]] \in Seq(SUBSET Files) \ {<<>>}
    BY <1>1, OpenCall DEF Calls, Manifests
  <2>2. Len(worker[p].manifest.checkpoints[Repo[p]]) \in DOMAIN worker[p].manifest.checkpoints[Repo[p]]
    BY <2>1
  <2> QED
    BY <1>1, <2>2, OpenCall DEF LatestCheckpoint, Latest, Bounded
<1>4. disk' \subseteq UpTo(launched)
  BY <1>1, <1>3, OpenCall
<1>5. w.end # "passed"
  BY <1>1, <1>2, OpenCall DEF Projects, Projecting
<1>6. Sound(worker[p], p)'
  BY <1>1, <1>2, <1>5, LaterSound DEF Starting, tally
<1>7. Projects(worker[p], p)'
  BY <1>1, <1>2, <1>5, NotPassing DEF tally
<1> QED
  BY <1>1, <1>2, <1>4, <1>6, <1>7, OpenCall, OpenCallSteps DEF memory, records, tally

\* A checkpoint records a tree that is on disk.
LEMMA CheckpointSerial ==
  ASSUME SerialStep, NEW p \in Phases, Checkpoint(p) PROVE SerialInv'
<1> DEFINE r == Repo[p]
           old == worker[p].manifest.checkpoints
           m == [worker[p].manifest EXCEPT !.checkpoints[r] = Append(@, Tree(r))]
           w == [Goes(p) EXCEPT !.manifest = m]
<1>1. /\ worker[p].at = "checkpoint" /\ After(p) = "write"
      /\ UNCHANGED <<memory, records, disk, tally>>
  BY DEF Checkpoint, After, Due
<1>2. worker' = [worker EXCEPT ![p] = w]
  BY GoesKeeps DEF Checkpoint
<1>3. worker[p].manifest \in Manifests /\ old \in [Repos -> Seq(SUBSET Files) \ {<<>>}]
      /\ r \in Repos /\ Tree(r) \in SUBSET Files
  BY <1>1, OpenCall, TreeType DEF Calls, Manifests, SerialStep
<1>4. m \in Manifests /\ m.checkpoints = [old EXCEPT ![r] = Append(old[r], Tree(r))]
  <2>1. Append(old[r], Tree(r)) \in Seq(SUBSET Files) \ {<<>>}
    BY <1>3, AppendNonempty
  <2> QED
    BY <1>3, <2>1 DEF Manifests
<1>5. Bounded(m)
  <2>1. Bounded(worker[p].manifest) /\ Tree(r) \subseteq UpTo(launched)
    BY <1>1, OpenCall DEF Tree
  <2>2. ASSUME NEW s \in Repos, NEW i \in DOMAIN m.checkpoints[s]
        PROVE  m.checkpoints[s][i] \subseteq UpTo(launched)
    <3>1. CASE s # r
      BY <1>3, <1>4, <2>1, <2>2, <3>1 DEF Bounded
    <3>2. CASE s = r
      <4>1. old[r] \in Seq(SUBSET Files) /\ m.checkpoints[s] = Append(old[r], Tree(r))
        BY <1>3, <1>4, <3>2
      <4>2. \/ m.checkpoints[s][i] = Tree(r)
            \/ i \in DOMAIN old[r] /\ m.checkpoints[s][i] = old[r][i]
        <5>1. PICK t \in Seq(SUBSET Files) : t = old[r]
          BY <1>3
        <5>2. PICK tree \in SUBSET Files : tree = Tree(r)
          BY <1>3
        <5>3. m.checkpoints[s] = Append(t, tree)
          BY <4>1, <5>1, <5>2
        <5>4. i \in DOMAIN Append(t, tree)
          BY <2>2, <5>3
        <5>5. Append(t, tree)[i] = tree \/ (i \in DOMAIN t /\ Append(t, tree)[i] = t[i])
          BY <5>4
        <5> QED
          BY <5>1, <5>2, <5>3, <5>5, Zenon
      <4> QED
        BY <1>3, <2>1, <4>2 DEF Bounded
    <3> QED
      BY <3>1, <3>2
  <2> QED
    BY <2>2 DEF Bounded
<1> HIDE DEF m
<1>6. /\ w \in Calls /\ w.at = "write" /\ w.end = worker[p].end /\ w.number = worker[p].number
      /\ w.plan = worker[p].plan /\ w.manifest = m /\ w.made = worker[p].made
  <2>1. w \in Calls
    BY <1>4, GoesKeeps, CallUpdates
  <2> QED
    BY <1>1, <2>1, GoesKeeps DEF Calls
<1>7. Sound(worker[p], p)'
  BY <1>1, <1>2, <1>6, LaterSound DEF Starting, tally
<1>8. Projects(worker[p], p)'
  BY <1>1, <1>2, <1>6, OpenCall DEF Projects, Projecting, records, tally
<1> QED
  BY <1>1, <1>2, <1>5, <1>6, <1>7, <1>8, OpenCall, OpenCallSteps DEF memory, records, tally

\* A commit without its record does not pass.
LEMMA CommitUnrecordedSerial ==
  ASSUME SerialStep, NEW p \in Phases, CommitUnrecorded(p) PROVE SerialInv'
<1> DEFINE w == GoesTo(p, "done", "error")
<1>1. /\ worker[p].at # "idle" /\ UNCHANGED <<memory, records, disk, tally>>
      /\ worker' = [worker EXCEPT ![p] = w]
  BY DEF CommitUnrecorded, Due, Errs
<1>2. "done" \in Steps /\ "error" \in Ends
  BY DEF Steps, Ends
<1>3. /\ w \in Calls /\ w.at = "done" /\ w.end = "error" /\ w.number = worker[p].number
      /\ w.plan = worker[p].plan /\ w.manifest = worker[p].manifest
      /\ w.made = worker[p].made
  BY <1>2, GoesToKeeps
<1>4. Sound(worker[p], p)'
  BY <1>1, <1>3, LaterSound DEF Starting, tally
<1>5. Projects(worker[p], p)'
  BY <1>1, <1>3, NotPassing DEF tally
<1> QED
  BY <1>1, <1>3, <1>4, <1>5, QuietStep DEF records

\* Saving and publishing: what is published of a passing call has its phase passed, and every
\* accepted one.
LEMMA SaveSerial ==
  ASSUME SerialStep, NEW p \in Phases,
         WriteManifest(p) \/ RenameManifest(p) \/ PublishPlan(p) \/ PublishWorkspace(p)
  PROVE  SerialInv'
<1> DEFINE w == Goes(p)
<1>1. /\ worker[p].at \in {"write", "rename", "publish_plan", "publish_workspace"}
      /\ worker' = [worker EXCEPT ![p] = w]
      /\ UNCHANGED <<planFile, trees, tally>>
      /\ lastWorkspace' \in {lastWorkspace, worker[p].manifest}
      /\ lastPlan' = IF worker[p].at = "publish_plan" THEN worker[p].plan ELSE lastPlan
  BY DEF WriteManifest, RenameManifest, PublishPlan, PublishWorkspace, Due, memory, records
<1>2. /\ worker'[p] = w /\ w \in Calls /\ w.at = After(p)
      /\ w.end = worker[p].end /\ w.number = worker[p].number
      /\ w.plan = worker[p].plan /\ w.manifest = worker[p].manifest /\ w.made = worker[p].made
  BY <1>1, GoesKeeps, OpenCall
<1>3. w.at \in {"rename", "failed", "publish_plan", "publish_workspace", "done"}
      /\ (w.at \in {"publish_workspace", "done"} <=> worker[p].at \in {"publish_plan", "publish_workspace"})
      /\ (w.at = "failed" => w.end = "escaped")
      /\ (w.at = "publish_workspace" <=> worker[p].at = "publish_plan")
  BY <1>1, <1>2 DEF After, Due
<1>4. Sound(worker[p], p)'
  BY <1>1, <1>2, <1>3, LaterSound DEF Starting, tally
<1>5. Projects(worker[p], p)'
  BY <1>1, <1>2, <1>3, OpenCall DEF Projects, Projecting, tally
<1>6. \A q \in accepted : lastPlan'[q] = "passed" /\ planFile'[q] = "passed"
  BY <1>1, OpenCall DEF Projects
<1> QED
  BY <1>1, <1>2, <1>4, <1>5, <1>6, OpenCall, OpenCallSteps DEF trees, tally

\* The phase of a passing call is accepted with what its agent wrote.
LEMMA HarvestSerial == ASSUME SerialStep, NEW p \in Phases, Harvest(p) PROVE SerialInv'
<1> DEFINE passes == worker[p].end = "passed"
           w == [Idle EXCEPT !.made = IF passes THEN worker[p].made ELSE {}]
<1>1. /\ worker[p].at = "done" /\ UNCHANGED <<memory, records, trees, launched>>
      /\ accepted' = IF passes THEN accepted \cup {p} ELSE accepted
      /\ worker' = [worker EXCEPT ![p] = w]
  BY DEF Harvest, Due
<1>2. /\ w.at = "idle" /\ w.end = "open" /\ w.number = 0 /\ w.manifest = IntakeManifest
      /\ w.made = IF passes THEN worker[p].made ELSE {}
  BY DEF Idle
<1> HIDE DEF w
<1>3. \A q \in Phases : worker'[q] = IF q = p THEN w ELSE worker[q]
  BY <1>1, OpenCall
<1>4. Solo'
  BY <1>2, <1>3, <1>1, OpenCall DEF Solo
<1>5. Dated'
  <2>1. Bounded(IntakeManifest)
    <3>1. ASSUME NEW r \in Repos, NEW i \in DOMAIN IntakeManifest.checkpoints[r]
          PROVE  IntakeManifest.checkpoints[r][i] = {}
      BY DEF IntakeManifest
    <3> QED
      BY <3>1 DEF Bounded
  <2>2. \A q \in Phases : Bounded(worker'[q].manifest)
    BY <1>2, <1>3, <2>1 DEF SerialStep, SerialInv, Dated
  <2>3. \A q \in Phases : Bounded(worker[q].manifest)'
    BY <1>1, <2>2 DEF Bounded, UpTo
  <2>4. Bounded(lastWorkspace)' /\ (disk \subseteq UpTo(launched))'
    BY <1>1, OpenCall DEF Bounded, UpTo, memory, trees
  <2> QED
    BY <2>3, <2>4 DEF Dated
<1>6. launched \in Nat /\ accepted \subseteq Phases
  BY ExecutorAssumption DEF SerialStep, TypeInv, ExecTypeOK
<1>7. ASSUME NEW q \in Phases
      PROVE  Sound(worker[q], q)' /\ Projects(worker[q], q)'
  <2>1. CASE q = p
    <3>1. worker'[q] = w
      BY <1>3, <2>1
    <3>2. StaysInside(w, p)
      BY <1>1, <1>2, OpenCall DEF Sound, StaysInside
    <3> QED
      BY <1>1, <1>2, <1>6, <2>1, <3>1, <3>2 DEF Sound, StaysInside, Starting, Projects
  <2>2. CASE q # p
    <3>1. worker'[q] = worker[q] /\ worker[q].at = "idle" /\ (q \in accepted' <=> q \in accepted)
      BY <1>1, <1>3, <2>2, OpenCall
    <3>2. Sound(worker[q], q) /\ Projects(worker[q], q)
      BY DEF SerialStep, SerialInv
    <3>3. Sound(worker[q], q)'
      BY <1>1, <3>1, <3>2 DEF Sound, StaysInside, Starting
    <3> QED
      BY <3>1, <3>2, <3>3 DEF Projects, Projecting
  <2> QED
    BY <2>1, <2>2
<1>8. \A q \in accepted' : lastPlan'[q] = "passed" /\ planFile'[q] = "passed"
  BY <1>1, OpenCall DEF Projects, memory, records
<1> QED
  BY <1>4, <1>5, <1>7, <1>8 DEF SerialInv

\* Every step keeps the invariant.
LEMMA StepSerial ==
  ASSUME MaxConcurrent = 1
  PROVE  TypeInv /\ SerialInv /\ [Next]_vars => SerialInv'
<1> SUFFICES ASSUME SerialStep, [Next]_vars PROVE SerialInv'
  BY DEF SerialStep
<1>1. CASE Next
  <2>1. PICK p \in Phases :
          \/ Launch(p) \/ TakeWorkspace(p) \/ Harvest(p)
          \/ Project(p) \/ ProjectionCut(p) \/ Baseline(p) \/ AgentActs(p) \/ AgentEnds(p) \/ AgentTimesOut(p)
          \/ Inspect(p) \/ Judge(p)
          \/ Quarantine(p) \/ Rollback(p) \/ RollbackFails(p)
          \/ Checkpoint(p) \/ CommitUnrecorded(p)
          \/ WriteManifest(p) \/ RenameManifest(p)
          \/ PublishPlan(p) \/ PublishWorkspace(p)
          \/ StepFails(p)
    BY <1>1 DEF Next, AgentActs
  <2> QED
    BY <2>1, LaunchSerial, TakeWorkspaceSerial, HarvestSerial, ProjectSerial,
       ProjectionCutSerial, BaselineSerial,
       AgentActsSerial, AgentLeavesSerial, InspectSerial, JudgeSerial, QuarantineSerial,
       RollbackSerial, CheckpointSerial, CommitUnrecordedSerial, SaveSerial, StepFailsSerial
<1>2. CASE UNCHANGED vars
  BY <1>2 DEF vars, memory, records, trees, tally, SerialStep, SerialInv, Solo, Dated, Bounded, UpTo,
     Sound, StaysInside, Projects
<1> QED
  BY <1>1, <1>2

\* With one worker at a time, an attempt whose agent left a file of a new path outside its write
\* root, where the snapshot goes, never passes: the file is on disk and its path not in the baseline
\* when the escapes are looked for, and only the way through that step leads to a passing end.
THEOREM SerialEscapeNeverPasses ==
  ASSUME MaxConcurrent = 1
  PROVE  Spec => []EscapeNeverPasses
<1>1. SerialInv => EscapeNeverPasses
  BY DEF SerialInv, Sound, StaysInside, EscapeNeverPasses
<1> QED
  BY InitType, StepType, InitSerial, StepSerial, <1>1, PTL DEF Spec

\* With one worker at a time, an accepted phase is passed in plan.json and in the plan the next
\* worker copies, whatever step of whatever attempt fails.
THEOREM SerialPassedIsProjected ==
  ASSUME MaxConcurrent = 1
  PROVE  Spec => []PassedIsProjected
<1>1. SerialInv => PassedIsProjected
  BY DEF SerialInv, PassedIsProjected
<1> QED
  BY InitType, StepType, InitSerial, StepSerial, <1>1, PTL DEF Spec

(***************************************************************************)
(* The records of accepted work, one worker at a time.                     *)
(***************************************************************************)
\* Commits and checkpoints of a project hold files of its clone.
InClone(r) == {f \in Files : f.at = Clone(r)}
Local(m) == \A r \in Repos : Latest(m.checkpoints[r]) \subseteq InClone(r)
Placed ==
  /\ \A r \in Repos : head[r] \subseteq InClone(r)
  /\ Local(lastWorkspace)
  /\ \A p \in Phases : Local(worker[p].manifest)

\* The work of q is in a clone, which is there.
Copied(q) == Repo[q] \notin gone \cup Worktrees

\* A manifest names checkpoints that hold what is accepted.
Recorded(m) == \A q \in accepted : Copied(q) => Standing(q) \subseteq Latest(m.checkpoints[Repo[q]])

\* Steps after the checkpoint, and after the manifest is written.
Checkpointed == {"write", "rename", "publish_plan", "publish_workspace", "done"}
Named == {"publish_plan", "publish_workspace", "done"}

\* Whose agent was not judged yet.
Unjudged == Starting \cup {"agent", "inspect", "verifying", "gates"}

\* What the call of p knows, and will not undo, of the work that is accepted.
Careful(p) == LET w == worker[p] IN
  /\ w.at \in Unjudged => w.end = "open"
  /\ w.at \in Starting \cup {"agent"} => w.target = {}
  /\ w.at \in {"quarantine", "rollback"} => w.end \in {"escaped", "timed_out"}
  /\ w.at \notin {"idle", "workspace"} => Recorded(w.manifest)
  /\ w.at \in {"agent", "inspect"} => \A q \in accepted : Copied(q) => Standing(q) \subseteq w.before
  /\ w.at = "quarantine" => \A q \in accepted : Copied(q) => Standing(q) \cap w.target = {}
  /\ w.at = "rename" => manifestTmp \subseteq {w.manifest}

\* Where the work of the call of p is, as long as it may still pass.
Recording(p) == LET w == worker[p] latest(m) == Latest(m.checkpoints[Repo[p]]) IN
  /\ w.at # "idle" /\ w.end \in {"open", "passed"} => Standing(p) \subseteq disk
  /\ w.end = "passed" /\ Copied(p) =>
       /\ w.at \in Checkpointed => Standing(p) \subseteq head[Repo[p]] /\ Standing(p) \subseteq latest(w.manifest)
       /\ w.at \in Named => Standing(p) \subseteq latest(manifestFile)
       /\ w.at = "done" => Standing(p) \subseteq latest(lastWorkspace)

OnDisk == \A q \in accepted : Copied(q) => Standing(q) \subseteq disk /\ Standing(q) \subseteq head[Repo[q]]

RecordInv ==
  /\ OnDisk /\ Recorded(lastWorkspace) /\ Recorded(manifestFile)
  /\ \A p \in Phases : Careful(p) /\ Recording(p)

RecordStep == SerialStep /\ Placed /\ RecordInv

\* The call of a checkpoint: the latest of its project is the clone's tree, the others stay.
LEMMA CheckpointLatest ==
  ASSUME TypeInv, NEW p \in Phases, Checkpoint(p)
  PROVE  \E w \in Calls :
           /\ worker' = [worker EXCEPT ![p] = w]
           /\ w.at = "write" /\ w.end = worker[p].end /\ w.made = worker[p].made
           /\ w.target = worker[p].target
           /\ \A r \in Repos : Latest(w.manifest.checkpoints[r]) =
                IF r = Repo[p] THEN Tree(r) ELSE Latest(worker[p].manifest.checkpoints[r])
<1> DEFINE r == Repo[p]
           old == worker[p].manifest.checkpoints
           new == Append(old[r], Tree(r))
           m == [worker[p].manifest EXCEPT !.checkpoints = [old EXCEPT ![r] = new]]
           w == [Goes(p) EXCEPT !.manifest = m]
<1>1. /\ worker[p] \in Calls /\ r \in Repos /\ Tree(r) \in SUBSET Files
      /\ Goes(p) \in Calls /\ Goes(p).manifest = worker[p].manifest
  BY GoesType, TreeType
<1>2. worker[p].manifest \in Manifests /\ old \in [Repos -> Seq(SUBSET Files) \ {<<>>}]
  BY <1>1 DEF Calls, Manifests
<1>3. new \in Seq(SUBSET Files) \ {<<>>} /\ Latest(new) = Tree(r)
  <2>1. PICK t \in Seq(SUBSET Files) : t = old[r]
    BY <1>1, <1>2
  <2>2. PICK tree \in SUBSET Files : tree = Tree(r)
    BY <1>1
  <2>3. Append(t, tree) \in Seq(SUBSET Files) \ {<<>>}
    BY AppendNonempty
  <2>4. Append(t, tree)[Len(Append(t, tree))] = tree
    OBVIOUS
  <2> QED
    BY <2>1, <2>2, <2>3, <2>4 DEF Latest
<1> HIDE DEF new
<1>4. m \in Manifests /\ m.checkpoints = [old EXCEPT ![r] = new]
  BY <1>1, <1>2, <1>3 DEF Manifests
<1>5. worker' = [worker EXCEPT ![p] = w]
  BY <1>1 DEF Checkpoint, new
<1>6. \A s \in Repos : Latest(m.checkpoints[s]) = IF s = r THEN Tree(s) ELSE Latest(old[s])
  BY <1>1, <1>2, <1>3, <1>4
<1> HIDE DEF m
<1>7. w \in Calls
  BY <1>1, <1>4, CallUpdates
<1>8. w.at = "write" /\ w.end = worker[p].end /\ w.made = worker[p].made /\ w.target = worker[p].target
      /\ w.manifest = m
  BY <1>1 DEF Checkpoint, Goes, After, Due, Calls
<1> QED
  BY <1>5, <1>6, <1>7, <1>8

\* The intake's checkpoints are empty.
LEMMA IntakeLocal == Local(IntakeManifest)
<1>1. ASSUME NEW r \in Repos PROVE Latest(IntakeManifest.checkpoints[r]) = {}
  BY DEF IntakeManifest, Latest
<1> QED
  BY <1>1 DEF Local

\* Most steps leave the manifest of the call as it is.
LEMMA CallKept ==
  ASSUME TypeInv, NEW p \in Phases,
         \/ Project(p) \/ ProjectionCut(p) \/ Baseline(p) \/ AgentActs(p) \/ AgentEnds(p) \/ AgentTimesOut(p)
         \/ Inspect(p) \/ Judge(p) \/ RollbackFails(p) \/ StepFails(p)
         \/ WriteManifest(p) \/ RenameManifest(p) \/ PublishPlan(p) \/ PublishWorkspace(p)
  PROVE  worker'[p].manifest = worker[p].manifest /\ \A q \in Phases : q # p => worker'[q] = worker[q]
<1>1. worker \in [Phases -> Calls] /\ worker[p] \in Calls /\ Goes(p) \in Calls
      /\ Goes(p).manifest = worker[p].manifest
  BY GoesType DEF TypeInv, ExecTypeOK
<1>2. \A at, end : GoesTo(p, at, end).manifest = worker[p].manifest
  BY <1>1 DEF GoesTo, Calls
<1>3. CASE Project(p)
  <2>1. PICK status \in Statuses : worker' = [worker EXCEPT ![p] = [Goes(p) EXCEPT !.plan[p] = status]]
    BY <1>3 DEF Project
  <2>2. [Goes(p) EXCEPT !.plan[p] = status].manifest = worker[p].manifest
    BY <1>1 DEF Calls
  <2> QED BY <1>1, <2>1, <2>2
<1>4. CASE Baseline(p)
  <2>1. [Goes(p) EXCEPT !.before = disk].manifest = worker[p].manifest
    BY <1>1 DEF Calls
  <2> QED BY <1>1, <1>4, <2>1 DEF Baseline
<1>5. CASE RollbackFails(p) \/ WriteManifest(p) \/ RenameManifest(p) \/ PublishPlan(p) \/ PublishWorkspace(p)
  BY <1>1, <1>5 DEF RollbackFails, WriteManifest, RenameManifest, PublishPlan, PublishWorkspace
<1>6. CASE AgentActs(p)
  <2>1. PICK new : worker' = [worker EXCEPT ![p].made = @ \cup new]
    BY <1>6 DEF AgentActs, AgentWrites, AgentEdits, AgentRemoves, AgentChanges
  <2> QED BY <1>1, <2>1 DEF Calls
<1>7. CASE ProjectionCut(p) \/ StepFails(p)
  BY <1>1, <1>2, <1>7 DEF ProjectionCut, StepFails, Errs
<1>8. CASE AgentEnds(p) \/ AgentTimesOut(p)
  BY <1>1, <1>2, <1>8 DEF AgentEnds, AgentTimesOut
<1>9. CASE Inspect(p)
  <2> DEFINE v(f) == [GoesTo(p, "quarantine", "escaped") EXCEPT !.target = AtPath(f, disk)]
  <2>1. \A f : v(f).manifest = worker[p].manifest
    BY <1>1 DEF GoesTo, Calls
  <2>2. worker' = [worker EXCEPT ![p] = GoesTo(p, "verifying", "open")]
        \/ \E f : worker' = [worker EXCEPT ![p] = v(f)]
    BY <1>9 DEF Inspect
  <2> HIDE DEF v
  <2> QED BY <1>1, <1>2, <2>1, <2>2
<1>10. CASE Judge(p)
  BY <1>1, <1>2, <1>10 DEF Judge
<1> QED
  BY <1>3, <1>4, <1>5, <1>6, <1>7, <1>8, <1>9, <1>10

\* Commits and checkpoints are made from the clone's tree.
LEMMA PlacedStays == TypeInv /\ Placed /\ [Next]_vars => Placed'
<1> SUFFICES ASSUME TypeInv, Placed, [Next]_vars PROVE Placed'
  OBVIOUS
<1>0. worker \in [Phases -> Calls] /\ head \in [Repos -> SUBSET Files]
  BY DEF TypeInv, ExecTypeOK
<1>1. ASSUME NEW p \in Phases, \A q \in Phases : q # p => worker'[q] = worker[q],
             Local(worker'[p].manifest),
             UNCHANGED head, lastWorkspace' \in {lastWorkspace, worker[p].manifest}
      PROVE  Placed'
  <2>1. \A q \in Phases : Local(worker'[q].manifest)
    BY <1>0, <1>1 DEF Placed
  <2>2. Local(lastWorkspace')
    BY <1>1 DEF Placed
  <2> QED
    BY <1>1, <2>1, <2>2 DEF Placed, Local
<1>2. ASSUME NEW p \in Phases, \A q \in Phases : q # p => worker'[q] = worker[q],
             Local(worker'[p].manifest),
             NEW tree \in SUBSET InClone(Repo[p]), head' = [head EXCEPT ![Repo[p]] = tree],
             UNCHANGED lastWorkspace
      PROVE  Placed'
  <2>1. \A q \in Phases : Local(worker'[q].manifest)
    BY <1>0, <1>2 DEF Placed
  <2>2. \A r \in Repos : head'[r] \subseteq InClone(r)
    BY <1>0, <1>2 DEF Placed
  <2> QED
    BY <1>2, <2>1, <2>2 DEF Placed, Local
<1>3. ASSUME NEW p \in Phases
      PROVE  /\ Local(worker[p].manifest) /\ worker[p] \in Calls /\ Repo[p] \in Repos
             /\ Goes(p).manifest = worker[p].manifest /\ Errs(p).manifest = worker[p].manifest
             /\ Tree(Repo[p]) \subseteq InClone(Repo[p])
  BY <1>0, GoesType DEF Placed, Errs, GoesTo, Calls, Tree, InClone, TypeInv, ExecTypeOK
<1>4. CASE UNCHANGED vars
  BY <1>4 DEF vars, memory, trees, Placed, Local
<1>5. ASSUME NEW p \in Phases, Launch(p) \/ Harvest(p) PROVE Placed'
  <2>1. PICK w \in {Call(p), [Idle EXCEPT !.made = IF worker[p].end = "passed" THEN worker[p].made ELSE {}]} :
          worker' = [worker EXCEPT ![p] = w]
    BY <1>5 DEF Launch, Harvest
  <2>2. w.manifest = IntakeManifest
    BY <2>1 DEF Call, Idle
  <2> QED
    BY <1>0, <1>1, <1>5, <2>1, <2>2, IntakeLocal DEF Launch, Harvest, memory, trees
<1>6. ASSUME NEW p \in Phases, TakeWorkspace(p) PROVE Placed'
  <2> DEFINE w == [Goes(p) EXCEPT !.manifest = lastWorkspace]
  <2>1. w.manifest = lastWorkspace
    BY GoesType DEF Calls
  <2>2. worker' = [worker EXCEPT ![p] = w] /\ UNCHANGED <<head, lastWorkspace>>
    BY <1>6 DEF TakeWorkspace, memory, trees
  <2> HIDE DEF w
  <2> QED
    BY <1>0, <1>1, <2>1, <2>2 DEF Placed
<1>7. ASSUME NEW p \in Phases,
             \/ Project(p) \/ ProjectionCut(p) \/ Baseline(p) \/ AgentActs(p) \/ AgentEnds(p) \/ AgentTimesOut(p)
             \/ Inspect(p) \/ Judge(p) \/ RollbackFails(p) \/ StepFails(p)
             \/ WriteManifest(p) \/ RenameManifest(p) \/ PublishPlan(p) \/ PublishWorkspace(p)
      PROVE  Placed'
  <2>1. worker'[p].manifest = worker[p].manifest /\ \A q \in Phases : q # p => worker'[q] = worker[q]
    BY <1>7, CallKept
  <2>2. UNCHANGED head /\ lastWorkspace' \in {lastWorkspace, worker[p].manifest}
    BY <1>7 DEF Project, ProjectionCut, Baseline, AgentActs, AgentWrites, AgentEdits,
     AgentRemoves, AgentChanges, AgentEnds, AgentTimesOut, Inspect, Judge,
       RollbackFails, StepFails, WriteManifest, RenameManifest, PublishPlan, PublishWorkspace, memory, trees
  <2> QED
    BY <1>1, <1>3, <2>1, <2>2
<1>8. ASSUME NEW p \in Phases, Quarantine(p) PROVE Placed'
  <2>1. PICK kept : worker' = [worker EXCEPT ![p] = [Goes(p) EXCEPT !.manifest.quarantines = kept]]
    BY <1>8 DEF Quarantine
  <2> DEFINE w == [Goes(p) EXCEPT !.manifest.quarantines = kept]
  <2>2. w.manifest.checkpoints = worker[p].manifest.checkpoints
    BY <1>3, GoesType DEF Calls, Manifests
  <2>3. worker' = [worker EXCEPT ![p] = w] /\ UNCHANGED <<head, lastWorkspace>>
    BY <1>8, <2>1 DEF Quarantine, memory
  <2> HIDE DEF w
  <2>4. Local(w.manifest)
    BY <1>3, <2>2 DEF Local
  <2> QED
    BY <1>0, <1>1, <2>3, <2>4
<1>9. ASSUME NEW p \in Phases, Rollback(p) PROVE Placed'
  <2>1. LatestCheckpoint(p) \in SUBSET InClone(Repo[p])
    BY <1>3 DEF LatestCheckpoint, Local
  <2> QED
    BY <1>0, <1>2, <1>3, <1>9, <2>1 DEF Rollback, memory
<1>10. ASSUME NEW p \in Phases, Checkpoint(p) \/ CommitUnrecorded(p) PROVE Placed'
  <2>1. CASE CommitUnrecorded(p)
    BY <1>0, <1>2, <1>3, <2>1 DEF CommitUnrecorded, memory
  <2>2. CASE Checkpoint(p)
    <3>1. PICK w \in Calls :
            /\ worker' = [worker EXCEPT ![p] = w]
            /\ \A r \in Repos : Latest(w.manifest.checkpoints[r]) =
                 IF r = Repo[p] THEN Tree(r) ELSE Latest(worker[p].manifest.checkpoints[r])
      BY <2>2, CheckpointLatest
    <3>2. Local(w.manifest)
      BY <1>3, <3>1 DEF Local
    <3>3. Local(worker'[p].manifest) /\ \A q \in Phases : q # p => worker'[q] = worker[q]
      BY <1>0, <3>1, <3>2
    <3>4. head' = [head EXCEPT ![Repo[p]] = Tree(Repo[p])] /\ UNCHANGED lastWorkspace
      BY <2>2 DEF Checkpoint, memory
    <3> QED
      BY <1>2, <1>3, <3>3, <3>4
  <2> QED BY <1>10, <2>1, <2>2
<1> QED
  BY <1>4, <1>5, <1>6, <1>7, <1>8, <1>9, <1>10 DEF Next, AgentActs

\* What was accepted in a copied folder was written there.
LEMMA AcceptedInClone ==
  ASSUME RecordStep, NEW q \in accepted, Copied(q)
  PROVE  \A f \in Standing(q) : f.at = Clone(Repo[q])
BY DEF Standing, WriteRoot, Copied

\* What is known of the call that is open.
LEMMA OpenRecords ==
  ASSUME RecordStep, NEW p \in Phases, worker[p].at # "idle"
  PROVE  /\ worker \in [Phases -> Calls] /\ worker[p] \in Calls /\ Repo[p] \in Repos /\ p \notin accepted
         /\ Sound(worker[p], p) /\ Careful(p) /\ Recording(p)
         /\ OnDisk /\ Recorded(lastWorkspace) /\ Recorded(manifestFile)
         /\ \A q \in Phases : q # p => worker[q].at = "idle"
         /\ accepted \subseteq Phases /\ SerialStep
BY OpenCall DEF RecordStep, RecordInv, SerialStep, TypeInv, ExecTypeOK

\* What stands of a call does so until an agent changes it.
LEMMA StandingStays ==
  ASSUME NEW q, worker'[q].made = worker[q].made, replaced \subseteq replaced'
  PROVE  Standing(q)' \subseteq Standing(q) /\ (replaced' = replaced => Standing(q)' = Standing(q))
BY DEF Standing

\* A manifest that held what is accepted still does after a step of an open call.
LEMMA RecordedStays ==
  ASSUME RecordStep, NEW p \in Phases, worker[p].at # "idle", NEW w,
         worker' = [worker EXCEPT ![p] = w], UNCHANGED accepted, replaced \subseteq replaced', gone \subseteq gone',
         NEW m, Recorded(m)
  PROVE  /\ accepted' = accepted /\ worker'[p] = w
         /\ \A q \in accepted : Standing(q)' \subseteq Standing(q) /\ (Copied(q)' => Copied(q))
         /\ \A q \in accepted' : Copied(q)' => Standing(q)' \subseteq Latest(m.checkpoints[Repo[q]])
<1>1. accepted' = accepted /\ worker'[p] = w
  BY OpenRecords DEF tally
<1>2. \A q \in accepted : worker'[q] = worker[q] /\ Standing(q)' \subseteq Standing(q)
  BY OpenRecords, StandingStays
<1>3. \A q \in accepted : Copied(q)' => Copied(q)
  BY DEF Copied
<1> QED
  BY <1>1, <1>2, <1>3 DEF Recorded

\* A step of the open call leaves the others idle: what is to be shown is about the call itself
\* and about what is accepted.
LEMMA OpenRecordsStep ==
  ASSUME RecordStep, NEW p \in Phases, worker[p].at # "idle", NEW w,
         worker' = [worker EXCEPT ![p] = w], UNCHANGED accepted, replaced \subseteq replaced', gone \subseteq gone',
         OnDisk', lastWorkspace' \in {lastWorkspace, worker[p].manifest},
         manifestFile' \in {manifestFile, worker[p].manifest},
         worker[p].at # "workspace" \/ UNCHANGED <<lastWorkspace, manifestFile>>,
         Careful(p)', Recording(p)'
  PROVE  RecordInv'
<1>1. \A q \in Phases : q # p => worker'[q] = worker[q] /\ worker[q].at = "idle"
  BY OpenRecords
<1>2. \A q \in Phases : q # p => Careful(q)' /\ Recording(q)'
  BY <1>1 DEF Careful, Recording, Unjudged, Starting, Checkpointed, Named
<1>3. ASSUME NEW m \in {lastWorkspace, manifestFile} \cup
                       (IF worker[p].at # "workspace" THEN {worker[p].manifest} ELSE {})
      PROVE  \A q \in accepted' : Copied(q)' => Standing(q)' \subseteq Latest(m.checkpoints[Repo[q]])
  <2>1. Recorded(m)
    BY OpenRecords DEF Careful
  <2> QED BY <2>1, RecordedStays DEF tally
<1>4. Recorded(lastWorkspace)' /\ Recorded(manifestFile)'
  BY <1>3 DEF Recorded
<1> QED
  BY <1>2, <1>4 DEF RecordInv

\* As long as neither disk nor head nor clones change, accepted work stays where it is.
LEMMA OnDiskStays ==
  ASSUME RecordStep, NEW p \in Phases, worker[p].at # "idle", NEW w,
         worker' = [worker EXCEPT ![p] = w], UNCHANGED <<head, gone, tally>>, disk \subseteq disk'
  PROVE  OnDisk'
<1>1. accepted' = accepted /\ \A q \in accepted : Standing(q)' = Standing(q)
  BY OpenRecords, StandingStays DEF tally
<1> QED
  BY <1>1, OpenRecords DEF OnDisk, Copied

\* A step that only moves the call on, with the manifest and the files it had.
LEMMA MovesOn ==
  ASSUME RecordStep, NEW p \in Phases, worker[p].at \notin {"idle", "workspace"}, NEW w \in Calls,
         worker' = [worker EXCEPT ![p] = w], UNCHANGED <<lastWorkspace, manifestFile, disk, head, gone, tally>>,
         w.manifest = worker[p].manifest, w.made = worker[p].made,
         w.at \in Unjudged => w.end = "open" /\ w.target = worker[p].target /\ worker[p].at \in Unjudged,
         w.at \in Starting \cup {"agent"} => worker[p].at \in Starting \cup {"agent"},
         w.at \in {"quarantine", "rollback"} => w.end \in {"escaped", "timed_out"},
         w.at \in {"agent", "inspect"} => \A q \in accepted : Copied(q) => Standing(q) \subseteq w.before,
         w.at = "quarantine" => \A q \in accepted : Copied(q) => Standing(q) \cap w.target = {},
         w.at = "rename" => manifestTmp' = {w.manifest},
         w.end \in {"open", "passed"} => worker[p].end \in {"open", "passed"},
         w.end = "passed" => /\ w.at \in Checkpointed => worker[p].at \in Checkpointed /\ worker[p].end = "passed"
                             /\ w.at \in Named => worker[p].at \in Named
                             /\ w.at # "done"
  PROVE  RecordInv'
<1>1. worker'[p] = w /\ accepted' = accepted
  BY OpenRecords DEF tally
<1>2. OnDisk'
  BY OnDiskStays
<1>3. \A q \in accepted' : Copied(q)' => Standing(q)' \subseteq Latest(w.manifest.checkpoints[Repo[q]])
  BY OpenRecords, RecordedStays DEF Careful, tally
<1>4. \A q \in accepted : Standing(q)' = Standing(q) /\ (Copied(q)' <=> Copied(q))
  BY OpenRecords, StandingStays DEF Copied, tally
<1>5. Careful(p)'
  <2>1. Careful(p)
    BY OpenRecords
  <2>2. /\ w.at \in Unjudged => w.end = "open"
        /\ w.at \in Starting \cup {"agent"} => w.target = {}
        /\ w.at \in {"quarantine", "rollback"} => w.end \in {"escaped", "timed_out"}
    BY <2>1 DEF Careful, Unjudged
  <2>3. w.at \in {"agent", "inspect"} => \A q \in accepted' : Copied(q)' => Standing(q)' \subseteq w.before
    BY <1>1, <1>4
  <2>4. w.at = "quarantine" => \A q \in accepted' : Copied(q)' => Standing(q)' \cap w.target = {}
    BY <1>1, <1>4
  <2>5. w.at = "rename" => manifestTmp' \subseteq {w.manifest}
    OBVIOUS
  <2> QED BY <1>1, <1>3, <2>2, <2>3, <2>4, <2>5 DEF Careful, Recorded, Unjudged
<1>6. (Copied(p)' <=> Copied(p)) /\ Standing(p)' = Standing(p)
  BY <1>1, StandingStays DEF Copied, tally
<1>7. Recording(p)'
  <2>1. Recording(p)
    BY OpenRecords
  <2>2. w.end \in {"open", "passed"} => Standing(p) \subseteq disk'
    BY <2>1 DEF Recording
  <2>3. ASSUME w.end = "passed", Copied(p)
        PROVE  /\ w.at \in Checkpointed => /\ Standing(p) \subseteq head'[Repo[p]]
                                          /\ Standing(p) \subseteq Latest(w.manifest.checkpoints[Repo[p]])
               /\ w.at \in Named => Standing(p) \subseteq Latest(manifestFile'.checkpoints[Repo[p]])
               /\ w.at # "done"
    BY <2>1, <2>3 DEF Recording, Checkpointed, Named
  <2> QED BY <1>1, <1>6, <2>2, <2>3 DEF Recording
<1> QED
  BY <1>2, <1>5, <1>7, OpenRecordsStep DEF tally

\* The call of an attempt begins with nothing.
LEMMA LaunchRecords ==
  ASSUME RecordStep, MaxConcurrent = 1, NEW p \in Phases, Launch(p)
  PROVE  RecordInv'
<1>1. \A q \in Phases : worker[q].at = "idle"
  BY LaunchAlone DEF RecordStep, SerialStep
<1>2. /\ worker' = [worker EXCEPT ![p] = Call(p)] /\ p \notin accepted
      /\ UNCHANGED <<lastWorkspace, manifestFile, manifestTmp, disk, head, gone, accepted, replaced>>
  BY DEF Launch, memory, records, trees
<1>3. /\ worker'[p] = Call(p) /\ \A q \in Phases : q # p => worker'[q] = worker[q]
      /\ accepted \subseteq Phases
  BY <1>2 DEF RecordStep, SerialStep, TypeInv, ExecTypeOK
<1>4. Call(p).at = "workspace" /\ Call(p).end = "open" /\ Call(p).made = {} /\ Call(p).target = {}
  BY DEF Call, Idle
<1>5. (\A q \in accepted : Standing(q)' = Standing(q)) /\ Standing(p)' = {}
  BY <1>2, <1>3, <1>4, StandingStays DEF Standing
<1>6. OnDisk' /\ Recorded(lastWorkspace)' /\ Recorded(manifestFile)'
  BY <1>2, <1>5 DEF RecordStep, RecordInv, OnDisk, Recorded, Copied
<1>7. ASSUME NEW q \in Phases
      PROVE  Careful(q)' /\ Recording(q)'
  <2>1. CASE q = p
    BY <1>3, <1>4, <1>5, <2>1 DEF Careful, Recording, Unjudged, Starting, Checkpointed, Named
  <2>2. CASE q # p
    BY <1>1, <1>3, <2>2 DEF Careful, Recording, Unjudged, Starting, Checkpointed, Named
  <2> QED BY <2>1, <2>2
<1> QED
  BY <1>6, <1>7 DEF RecordInv

\* The copy of the manifest is the one that was published.
LEMMA TakeWorkspaceRecords ==
  ASSUME RecordStep, NEW p \in Phases, TakeWorkspace(p)
  PROVE  RecordInv'
<1> DEFINE w == [Goes(p) EXCEPT !.manifest = lastWorkspace]
<1>1. /\ worker[p].at = "workspace" /\ worker' = [worker EXCEPT ![p] = w]
      /\ UNCHANGED <<lastWorkspace, manifestFile, disk, head, gone, tally>>
  BY DEF TakeWorkspace, Due, memory, records, trees
<1>2. /\ w.at = "running" /\ w.end = worker[p].end /\ w.made = worker[p].made
      /\ w.target = worker[p].target /\ w.manifest = lastWorkspace
  BY <1>1, OpenRecords DEF Goes, After, Due, Calls
<1> HIDE DEF w
<1>3. worker'[p] = w
  BY <1>1, OpenRecords
<1>4. \A q \in accepted' : Copied(q)' => Standing(q)' \subseteq Latest(lastWorkspace.checkpoints[Repo[q]])
  BY <1>1, OpenRecords, RecordedStays DEF tally
<1>5. Careful(p)'
  BY <1>1, <1>2, <1>3, <1>4, OpenRecords DEF Careful, Recorded, Unjudged, Starting
<1>6. Recording(p)'
  BY <1>1, <1>2, <1>3, OpenRecords, StandingStays DEF Recording, Careful, Unjudged, Starting, tally
<1>7. OnDisk'
  BY <1>1, OnDiskStays
<1> QED
  BY <1>1, <1>5, <1>6, <1>7, OpenRecordsStep DEF tally

\* A call that ends in an error leaves what is recorded as it is.
LEMMA ErrsRecords ==
  ASSUME RecordStep, NEW p \in Phases, worker[p].at \notin {"idle", "workspace"},
         worker' = [worker EXCEPT ![p] = Errs(p)],
         UNCHANGED <<lastWorkspace, manifestFile, disk, head, gone, tally>>
  PROVE  RecordInv'
<1>0. "done" \in Steps /\ "error" \in Ends
  BY DEF Steps, Ends
<1>1. Errs(p) \in Calls /\ Errs(p).at = "done" /\ Errs(p).end = "error"
      /\ Errs(p).manifest = worker[p].manifest /\ Errs(p).made = worker[p].made
  BY <1>0, GoesToKeeps DEF RecordStep, Errs
<1> QED
  BY <1>1, MovesOn DEF Unjudged, Starting

\* Projections, the steps of a call that only go on, and the writing of the manifest.
LEMMA GoesRecords ==
  ASSUME RecordStep, NEW p \in Phases,
         Project(p) \/ RollbackFails(p) \/ WriteManifest(p) \/ PublishPlan(p)
  PROVE  RecordInv'
<1>1. worker[p].at \notin {"idle", "workspace"}
  BY DEF Project, RollbackFails, WriteManifest, PublishPlan, Due, Statuses
<1>2. SerialStep /\ worker[p] \in Calls /\ Careful(p) /\ Projects(worker[p], p)
  BY <1>1, OpenRecords, OpenCall
<1>3. PICK w \in Calls :
        /\ worker' = [worker EXCEPT ![p] = w]
        /\ w.at = After(p) /\ w.end = worker[p].end /\ w.manifest = worker[p].manifest
        /\ w.made = worker[p].made /\ w.target = worker[p].target
  <2>1. CASE Project(p)
    <3>1. PICK status \in Statuses : worker' = [worker EXCEPT ![p] = [Goes(p) EXCEPT !.plan[p] = status]]
      BY <2>1 DEF Project
    <3>2. [Goes(p) EXCEPT !.plan[p] = status] \in Calls
      BY <1>2, GoesKeeps DEF Calls, Plans
    <3>3. LET w == [Goes(p) EXCEPT !.plan[p] = status] IN
          /\ w.at = After(p) /\ w.end = worker[p].end /\ w.manifest = worker[p].manifest
          /\ w.made = worker[p].made /\ w.target = worker[p].target
      BY <1>2 DEF Goes, Calls
    <3> QED BY <3>1, <3>2, <3>3
  <2>2. CASE RollbackFails(p) \/ WriteManifest(p) \/ PublishPlan(p)
    <3>1. worker' = [worker EXCEPT ![p] = Goes(p)]
      BY <2>2 DEF RollbackFails, WriteManifest, PublishPlan
    <3>2. Goes(p).target = worker[p].target
      BY <1>2 DEF Goes, Calls
    <3> QED BY <1>2, <3>1, <3>2, GoesKeeps
  <2> QED BY <2>1, <2>2
<1>4. UNCHANGED <<lastWorkspace, manifestFile, disk, head, gone, tally>>
  BY DEF Project, RollbackFails, WriteManifest, PublishPlan, memory, records, trees
<1>5. worker[p].at \in Statuses \cup {"rollback", "write", "publish_plan"}
  BY DEF Project, RollbackFails, WriteManifest, PublishPlan, Due
<1>6. worker[p].at = "write" => manifestTmp' = {worker[p].manifest}
  BY DEF Project, RollbackFails, WriteManifest, PublishPlan, Due, Statuses
<1>7. /\ worker[p].at = "running" => After(p) = "baseline"
      /\ worker[p].at = "verifying" => After(p) = "gates"
      /\ worker[p].at = "failed" => After(p) \in {"publish_plan", "write"}
      /\ worker[p].at = "needs_review" => After(p) = "write"
      /\ worker[p].at = "passed" => After(p) = "checkpoint"
      /\ worker[p].at = "rollback" => After(p) = "failed"
      /\ worker[p].at = "write" => After(p) = "rename"
      /\ worker[p].at = "publish_plan" => After(p) = "publish_workspace"
  BY DEF After, Due
<1>8. worker[p].at # "draft"
  BY <1>2 DEF Calls, Steps
<1>9. worker[p].at \in {"running", "verifying"} => worker[p].end = "open"
  BY <1>2 DEF Careful, Unjudged, Starting
<1>10. worker[p].at \in {"failed", "needs_review", "rollback"} => worker[p].end # "passed"
  BY <1>2 DEF Projects, Projecting
<1>11. worker[p].at = "running" => worker[p].target = {}
  BY <1>2 DEF Careful, Starting
<1> QED
  <2>1. CASE worker[p].at \in {"running", "verifying"}
    BY <1>1, <1>2, <1>3, <1>4, <1>7, <1>9, <1>11, <2>1, MovesOn DEF Unjudged, Starting
  <2>2. CASE worker[p].at \in {"failed", "needs_review", "rollback"}
    BY <1>1, <1>2, <1>3, <1>4, <1>7, <1>10, <2>2, MovesOn DEF Unjudged, Starting
  <2>3. CASE worker[p].at \in {"passed", "write", "publish_plan"}
    BY <1>1, <1>2, <1>3, <1>4, <1>6, <1>7, <2>3, MovesOn DEF Unjudged, Starting, Checkpointed, Named
  <2> QED BY <1>5, <1>8, <2>1, <2>2, <2>3 DEF Statuses

\* The snapshot of a baseline holds what is accepted.
LEMMA BaselineRecords == ASSUME RecordStep, NEW p \in Phases, Baseline(p) PROVE RecordInv'
<1> DEFINE w == [Goes(p) EXCEPT !.before = disk]
<1>1. /\ worker[p].at = "baseline" /\ After(p) = "agent" /\ worker' = [worker EXCEPT ![p] = w]
      /\ UNCHANGED <<lastWorkspace, manifestFile, disk, head, gone, tally>>
  BY DEF Baseline, After, Due, memory, records, trees
<1>2. /\ w \in Calls /\ w.at = "agent" /\ w.end = worker[p].end /\ w.manifest = worker[p].manifest
      /\ w.made = worker[p].made /\ w.before = disk /\ w.target = worker[p].target
  <2>1. disk \in SUBSET Files /\ SerialStep
    BY DEF RecordStep, SerialStep, TypeInv, ExecTypeOK
  <2>2. w \in Calls
    BY <2>1, GoesKeeps, CallUpdates
  <2> QED
    BY <1>1, <2>1, <2>2, GoesKeeps, OpenRecords DEF Calls, Goes
<1> HIDE DEF w
<1>3. w.end = "open"
  BY <1>1, <1>2, OpenRecords DEF Careful, Unjudged, Starting
<1>4. \A q \in accepted : Copied(q) => Standing(q) \subseteq w.before
  BY <1>1, <1>2, OpenRecords DEF OnDisk
<1> QED
  BY <1>1, <1>2, <1>3, <1>4, MovesOn DEF Unjudged, Starting

\* What the agent writes is on disk, and what it changes or removes stands no more.
LEMMA AgentActsRecords == ASSUME RecordStep, NEW p \in Phases, AgentActs(p) PROVE RecordInv'
<1>1. PICK old, new :
        /\ AgentChanges(p, old, new)
        /\ worker[p] \in Calls /\ worker[p].at = "agent"
        /\ old \subseteq disk /\ new \subseteq Files
  BY AgentActsFiles DEF RecordStep, SerialStep
<1> DEFINE w == [worker[p] EXCEPT !.made = @ \cup new]
<1>2. /\ worker' = [worker EXCEPT ![p] = w] /\ disk' = (disk \ old) \cup new /\ replaced' = replaced \cup old
      /\ UNCHANGED <<lastWorkspace, manifestFile, head, gone, accepted>>
  BY <1>1 DEF AgentChanges, memory, records
<1>3. /\ worker'[p] = w /\ w.at = "agent" /\ w.end = worker[p].end /\ w.manifest = worker[p].manifest
      /\ w.before = worker[p].before /\ w.target = worker[p].target
      /\ w.made = worker[p].made \cup new
  BY <1>1, <1>2, OpenRecords DEF Calls
<1> HIDE DEF w
<1>4. Careful(p) /\ Recording(p) /\ worker[p].end = "open" /\ OnDisk
  BY <1>1, OpenRecords DEF Careful, Unjudged, Starting
<1>5. \A q \in accepted : /\ worker'[q] = worker[q] /\ (Copied(q)' <=> Copied(q))
                          /\ Standing(q)' \subseteq Standing(q) \ old
  BY <1>1, <1>2, OpenRecords DEF Copied, Standing
<1>6. OnDisk'
  BY <1>2, <1>4, <1>5 DEF OnDisk
<1>7. Careful(p)'
  <2>1. \A q \in accepted' : Copied(q)' => Standing(q)' \subseteq Latest(w.manifest.checkpoints[Repo[q]])
    BY <1>1, <1>2, <1>3, <1>4, <1>5 DEF Careful, Recorded
  <2>2. \A q \in accepted' : Copied(q)' => Standing(q)' \subseteq w.before
    BY <1>1, <1>2, <1>3, <1>4, <1>5 DEF Careful
  <2>3. w.target = {} /\ w.end = "open"
    BY <1>1, <1>3, <1>4 DEF Careful
  <2> QED
    BY <1>3, <2>1, <2>2, <2>3 DEF Careful, Recorded
<1>8. Recording(p)'
  <2>1. Standing(p) \subseteq disk
    BY <1>1, <1>4 DEF Recording
  <2>2. Standing(p)' \subseteq disk'
    BY <1>2, <1>3, <2>1 DEF Standing
  <2> QED
    BY <1>3, <1>4, <2>2 DEF Recording
<1> QED
  BY <1>1, <1>2, <1>3, <1>6, <1>7, <1>8, OpenRecordsStep

\* The agent ends, or its time does, with nothing to be quarantined.
LEMMA AgentLeavesRecords ==
  ASSUME RecordStep, NEW p \in Phases, AgentEnds(p) \/ AgentTimesOut(p)
  PROVE  RecordInv'
<1>1. /\ worker[p].at = "agent" /\ UNCHANGED <<lastWorkspace, manifestFile, disk, head, gone, tally>>
  BY DEF AgentEnds, AgentTimesOut, CanWork, Due, memory, records, trees
<1>2. PICK at \in {"inspect", "quarantine", "failed", "rollback"}, end \in {"open", "timed_out"} :
        /\ worker' = [worker EXCEPT ![p] = GoesTo(p, at, end)]
        /\ at = "inspect" <=> end = "open"
  BY DEF AgentEnds, AgentTimesOut, PartialRecovery
<1> DEFINE w == GoesTo(p, at, end)
<1>3. at \in Steps /\ end \in Ends
  BY DEF Steps, Ends
<1>4. /\ w \in Calls /\ w.at = at /\ w.end = end /\ w.manifest = worker[p].manifest
      /\ w.before = worker[p].before /\ w.made = worker[p].made /\ w.target = worker[p].target
  <2>1. worker[p] \in Calls /\ SerialStep
    BY <1>1, OpenRecords
  <2> QED
    BY <1>3, <2>1, GoesToKeeps DEF GoesTo, Calls
<1> HIDE DEF w
<1>5. Careful(p)
  BY <1>1, OpenRecords
<1>6. /\ worker[p].end = "open" /\ worker[p].target = {}
      /\ \A q \in accepted : Copied(q) => Standing(q) \subseteq worker[p].before
  BY <1>1, <1>5 DEF Careful, Unjudged
<1>7. \A q \in accepted : Copied(q) => Standing(q) \cap w.target = {}
  BY <1>4, <1>6
<1>8. worker' = [worker EXCEPT ![p] = w]
  BY <1>2 DEF w
<1> QED
  BY <1>1, <1>2, <1>4, <1>6, <1>7, <1>8, MovesOn DEF Unjudged, Starting

\* No escape that is found is accepted work: what changed in a clone is outside only of a
\* worktree, and what was there before is not new.
LEMMA EscapesAreNew ==
  ASSUME RecordStep, NEW p \in Phases, worker[p].at = "inspect",
         NEW f \in ChangedOutside(p) \cup NewEscapes(p), NEW q \in accepted, Copied(q)
  PROVE  Standing(q) \cap AtPath(f, disk) = {}
<1>1. /\ Careful(p) /\ Repo[p] \in Repos /\ Standing(q) \subseteq worker[p].before
  BY OpenRecords DEF Careful
<1>2. CASE f \in NewEscapes(p)
  BY <1>1, <1>2 DEF NewEscapes, AtPath
<1>3. CASE f \in ChangedOutside(p)
  <2>1. Repo[p] \in Worktrees /\ f \in Changed(Repo[p])
    BY <1>3 DEF ChangedOutside, WriteRoot
  <2>2. f.at = Clone(Repo[p])
    BY <1>1, <2>1 DEF Changed, Tree, RecordStep, Placed, InClone
  <2>3. Repo[q] # Repo[p]
    BY <2>1 DEF Copied
  <2>4. Clone(Repo[q]) # Clone(Repo[p])
    BY <2>3 DEF Clone
  <2> QED
    BY <2>2, <2>4, AcceptedInClone DEF AtPath, SamePath
<1> QED
  BY <1>2, <1>3

\* An escape that is found is not accepted work.
LEMMA InspectRecords == ASSUME RecordStep, NEW p \in Phases, Inspect(p) PROVE RecordInv'
<1>1. /\ worker[p].at = "inspect" /\ UNCHANGED <<lastWorkspace, manifestFile, disk, head, gone, tally>>
  BY DEF Inspect, Due, memory, records, trees
<1>2. worker[p].end = "open" /\ worker[p] \in Calls /\ SerialStep
  BY <1>1, OpenRecords DEF Careful, Unjudged
<1>3. CASE worker' = [worker EXCEPT ![p] = GoesTo(p, "verifying", "open")]
  <2> DEFINE w == GoesTo(p, "verifying", "open")
  <2>1. "verifying" \in Steps /\ "open" \in Ends
    BY DEF Steps, Ends
  <2>2. /\ w \in Calls /\ w.at = "verifying" /\ w.end = "open" /\ w.manifest = worker[p].manifest
        /\ w.made = worker[p].made /\ w.target = worker[p].target
    BY <1>2, <2>1, GoesToKeeps DEF GoesTo, Calls
  <2> HIDE DEF w
  <2>3. worker' = [worker EXCEPT ![p] = w]
    BY <1>3 DEF w
  <2> QED
    BY <1>1, <1>2, <2>2, <2>3, MovesOn DEF Unjudged, Starting
<1>4. ASSUME NEW f \in ChangedOutside(p) \cup NewEscapes(p),
             worker' = [worker EXCEPT ![p] = [GoesTo(p, "quarantine", "escaped") EXCEPT !.target = AtPath(f, disk)]]
      PROVE  RecordInv'
  <2> DEFINE v == GoesTo(p, "quarantine", "escaped")
             w == [v EXCEPT !.target = AtPath(f, disk)]
  <2>1. "quarantine" \in Steps /\ "escaped" \in Ends /\ AtPath(f, disk) \in SUBSET Files
    BY <1>2, EscapesType DEF Steps, Ends, SerialStep
  <2>2. /\ v \in Calls /\ v.at = "quarantine" /\ v.end = "escaped" /\ v.manifest = worker[p].manifest
        /\ v.made = worker[p].made
    BY <1>2, <2>1, GoesToKeeps
  <2> HIDE DEF v
  <2>3. w \in Calls
    BY <2>1, <2>2, CallUpdates
  <2>4. /\ w.at = "quarantine" /\ w.end = "escaped" /\ w.manifest = worker[p].manifest
        /\ w.made = worker[p].made /\ w.target = AtPath(f, disk)
    BY <2>2 DEF Calls
  <2>5. worker' = [worker EXCEPT ![p] = w]
    BY <1>4 DEF v
  <2> HIDE DEF w
  <2>6. \A q \in accepted : Copied(q) => Standing(q) \cap w.target = {}
    BY <1>1, <1>4, <2>4, EscapesAreNew
  <2> QED
    BY <1>1, <1>2, <2>3, <2>4, <2>5, <2>6, MovesOn DEF Unjudged, Starting
<1> QED
  BY <1>3, <1>4 DEF Inspect

\* A verdict is only known of.
LEMMA JudgeRecords == ASSUME RecordStep, NEW p \in Phases, Judge(p) PROVE RecordInv'
<1>1. /\ worker[p].at = "gates" /\ UNCHANGED <<lastWorkspace, manifestFile, disk, head, gone, tally>>
  BY DEF Judge, Due, memory, records, trees
<1>2. PICK v \in Verdicts : worker' = [worker EXCEPT ![p] = GoesTo(p, v[1], v[2])]
  BY DEF Judge
<1>3. v[1] \in Steps /\ v[2] \in Ends /\ v[1] \in {"passed", "failed", "needs_review"}
  BY DEF Verdicts, Steps, Ends
<1>4. PICK w \in Calls : w = GoesTo(p, v[1], v[2]) /\ w.at = v[1] /\ w.manifest = worker[p].manifest
        /\ w.made = worker[p].made
  BY <1>1, <1>3, OpenRecords, GoesToKeeps
<1>5. worker[p].end = "open"
  BY <1>1, OpenRecords DEF Careful, Unjudged
<1> QED
  BY <1>1, <1>2, <1>3, <1>4, <1>5, MovesOn DEF Unjudged, Starting, Checkpointed, Named

\* A step that fails, and a projection that is cut.
LEMMA FailsRecords ==
  ASSUME RecordStep, NEW p \in Phases, StepFails(p) \/ ProjectionCut(p)
  PROVE  RecordInv'
<1>1. worker[p].at \notin {"idle", "workspace"}
  BY DEF StepFails, ProjectionCut, MayFail, Due, Statuses
<1> QED
  BY <1>1, ErrsRecords DEF StepFails, ProjectionCut, memory, records, trees

\* A quarantine moves an escape, or a whole clone that is then gone.
LEMMA QuarantineRecords == ASSUME RecordStep, NEW p \in Phases, Quarantine(p) PROVE RecordInv'
<1> DEFINE whole == TargetLost(p)
           moved == IF whole THEN Tree(Repo[p]) ELSE worker[p].target
           entries == Append(worker[p].manifest.quarantines, moved)
           surplus == IF Len(entries) > MaxQuarantine THEN Len(entries) - MaxQuarantine ELSE 0
           kept == SubSeq(entries, surplus + 1, Len(entries))
<1>1. /\ worker[p].at = "quarantine"
      /\ disk' = disk \ moved
      /\ gone' = IF whole THEN gone \cup {Repo[p]} ELSE gone
      /\ worker' = [worker EXCEPT ![p] = [Goes(p) EXCEPT !.manifest.quarantines = kept]]
      /\ UNCHANGED <<lastWorkspace, manifestFile, head, tally>>
  BY DEF Quarantine, Due, memory, records
<1> HIDE DEF kept
<1> DEFINE w == [Goes(p) EXCEPT !.manifest.quarantines = kept]
<1>2. /\ worker[p] \in Calls /\ SerialStep /\ Careful(p) /\ OnDisk /\ accepted \subseteq Phases
      /\ worker[p].end \in {"escaped", "timed_out"}
  BY <1>1, OpenRecords DEF Careful
<1>3. /\ w.at = After(p) /\ w.end = worker[p].end
      /\ w.manifest.checkpoints = worker[p].manifest.checkpoints
  BY <1>2, GoesKeeps DEF Calls, Manifests
<1>4. After(p) \in {"write", "failed"}
  BY <1>1 DEF After, Due
<1>5. worker'[p] = w /\ worker' = [worker EXCEPT ![p] = w]
  BY <1>1, OpenRecords
<1> HIDE DEF w
<1>6. accepted' = accepted /\ \A q \in accepted : Standing(q)' = Standing(q) /\ (Copied(q)' => Copied(q))
  BY <1>1, <1>5, OpenRecords, StandingStays DEF tally, Copied
<1>7. ASSUME NEW q \in accepted, Copied(q)'
      PROVE  Standing(q) \cap moved = {}
  <2>1. Copied(q)
    BY <1>6, <1>7
  <2>2. CASE whole
    <3>1. Repo[q] # Repo[p]
      BY <1>1, <1>7, <2>2 DEF Copied
    <3>2. Clone(Repo[q]) # Clone(Repo[p])
      BY <3>1 DEF Clone
    <3> QED
      BY <1>1, <2>1, <2>2, <3>2, AcceptedInClone DEF Tree
  <2>3. CASE ~whole
    BY <1>1, <1>2, <2>1, <2>3 DEF Careful
  <2> QED
    BY <2>2, <2>3
<1>8. OnDisk'
  BY <1>1, <1>2, <1>6, <1>7 DEF OnDisk
<1>9. Careful(p)'
  <2>1. \A q \in accepted' : Copied(q)' => Standing(q)' \subseteq Latest(w.manifest.checkpoints[Repo[q]])
    BY <1>1, <1>2, <1>3, <1>6 DEF Careful, Recorded
  <2> QED
    BY <1>3, <1>4, <1>5, <2>1 DEF Careful, Recorded, Unjudged, Starting
<1>10. Recording(p)'
  BY <1>2, <1>3, <1>5 DEF Recording
<1>11. gone \subseteq gone'
  BY <1>1
<1> QED
  BY <1>1, <1>5, <1>8, <1>9, <1>10, <1>11, OpenRecordsStep DEF tally

\* A rollback goes to a checkpoint that holds what is accepted of its project.
LEMMA RollbackRecords == ASSUME RecordStep, NEW p \in Phases, Rollback(p) PROVE RecordInv'
<1> DEFINE r == Repo[p]
           w == Goes(p)
<1>1. /\ worker[p].at = "rollback" /\ worker' = [worker EXCEPT ![p] = w]
      /\ disk' = (disk \ Tree(r)) \cup LatestCheckpoint(p)
      /\ head' = [head EXCEPT ![r] = LatestCheckpoint(p)]
      /\ UNCHANGED <<lastWorkspace, manifestFile, gone, tally>>
  BY DEF Rollback, Due, memory, records
<1>2. /\ worker[p] \in Calls /\ SerialStep /\ Careful(p) /\ OnDisk /\ accepted \subseteq Phases
      /\ worker[p].end \in {"escaped", "timed_out"}
  BY <1>1, OpenRecords DEF Careful
<1>3. w.at = "failed" /\ w.end = worker[p].end /\ w.manifest = worker[p].manifest /\ worker'[p] = w
  BY <1>1, <1>2, GoesKeeps, OpenRecords DEF After, Due
<1> HIDE DEF w
<1>4. accepted' = accepted /\ \A q \in accepted : Standing(q)' = Standing(q) /\ (Copied(q)' <=> Copied(q))
  BY <1>1, <1>3, OpenRecords, StandingStays DEF tally, Copied
<1>5. ASSUME NEW q \in accepted, Copied(q)
      PROVE  Standing(q) \subseteq disk' /\ Standing(q) \subseteq head'[Repo[q]]
  <2>0. Standing(q) \subseteq disk /\ Standing(q) \subseteq head[Repo[q]] /\ head \in [Repos -> SUBSET Files]
        /\ Repo[q] \in Repos
    BY <1>2, <1>5, ExecutorAssumption DEF OnDisk, SerialStep, TypeInv, ExecTypeOK
  <2>1. CASE Repo[q] = r
    <3>1. Standing(q) \subseteq LatestCheckpoint(p)
      BY <1>1, <1>2, <1>5, <2>1 DEF Careful, Recorded, LatestCheckpoint
    <3> QED
      BY <1>1, <2>0, <2>1, <3>1
  <2>2. CASE Repo[q] # r
    <3>1. Clone(Repo[q]) # Clone(r)
      BY <2>2 DEF Clone
    <3>2. Standing(q) \cap Tree(r) = {}
      BY <1>5, <3>1, AcceptedInClone DEF Tree
    <3> QED
      BY <1>1, <2>0, <2>2, <3>2
  <2> QED
    BY <2>1, <2>2
<1>6. OnDisk'
  BY <1>4, <1>5 DEF OnDisk
<1>7. Careful(p)'
  BY <1>1, <1>2, <1>3, <1>4 DEF Careful, Recorded, Unjudged, Starting
<1>8. Recording(p)'
  BY <1>2, <1>3 DEF Recording
<1> QED
  BY <1>1, <1>6, <1>7, <1>8, OpenRecordsStep DEF tally

\* What a passing call in a copied folder made is in the tree its checkpoint commits.
LEMMA CommitHolds ==
  ASSUME RecordStep, NEW p \in Phases, worker[p].at = "checkpoint",
         head' = [head EXCEPT ![Repo[p]] = Tree(Repo[p])], UNCHANGED <<disk, gone, tally>>,
         NEW w, worker' = [worker EXCEPT ![p] = w]
  PROVE  /\ OnDisk' /\ worker'[p] = w
         /\ accepted' = accepted /\ \A q \in accepted : Standing(q)' = Standing(q) /\ (Copied(q)' <=> Copied(q))
         /\ \A q \in accepted : Copied(q) /\ Repo[q] = Repo[p] => Standing(q) \subseteq Tree(Repo[p])
         /\ Copied(p)' <=> Copied(p)
         /\ worker[p].end = "passed" /\ Copied(p) =>
              Standing(p) \subseteq Tree(Repo[p]) /\ Standing(p) \subseteq head'[Repo[p]]
<1>1. /\ worker[p] \in Calls /\ OnDisk /\ accepted \subseteq Phases
      /\ Recording(p) /\ Sound(worker[p], p) /\ Repo[p] \in Repos /\ head \in [Repos -> SUBSET Files]
  BY OpenRecords DEF SerialStep, TypeInv, ExecTypeOK
<1>2. /\ worker'[p] = w /\ accepted' = accepted
      /\ \A q \in accepted : Standing(q)' = Standing(q) /\ (Copied(q)' <=> Copied(q))
      /\ Copied(p)' <=> Copied(p)
  BY <1>1, OpenRecords, StandingStays DEF tally, Copied
<1>3. ASSUME NEW q \in accepted, Copied(q)
      PROVE  /\ Repo[q] = Repo[p] => Standing(q) \subseteq Tree(Repo[p])
             /\ Standing(q) \subseteq head'[Repo[q]]
  <2>1. Standing(q) \subseteq disk /\ Standing(q) \subseteq head[Repo[q]] /\ Repo[q] \in Repos
    BY <1>1, <1>3, ExecutorAssumption DEF OnDisk
  <2> QED
    BY <1>1, <1>3, <2>1, AcceptedInClone DEF Tree
<1>4. ASSUME worker[p].end = "passed", Copied(p)
      PROVE  Standing(p) \subseteq Tree(Repo[p])
  <2>1. Standing(p) \subseteq disk
    BY <1>1, <1>4 DEF Recording
  <2> QED
    BY <1>4, <2>1 DEF Tree, Standing, WriteRoot, Copied
<1>5. OnDisk'
  BY <1>1, <1>2, <1>3 DEF OnDisk
<1> QED
  BY <1>1, <1>2, <1>3, <1>4, <1>5

\* A checkpoint holds what is accepted and what its call made.
LEMMA CheckpointRecords == ASSUME RecordStep, NEW p \in Phases, Checkpoint(p) PROVE RecordInv'
<1>1. /\ worker[p].at = "checkpoint" /\ head' = [head EXCEPT ![Repo[p]] = Tree(Repo[p])]
      /\ UNCHANGED <<lastWorkspace, manifestFile, disk, gone, tally>>
  BY DEF Checkpoint, Due, memory, records
<1>2. PICK w \in Calls :
        /\ worker' = [worker EXCEPT ![p] = w]
        /\ w.at = "write" /\ w.end = worker[p].end /\ w.made = worker[p].made
        /\ \A r \in Repos : Latest(w.manifest.checkpoints[r]) =
             IF r = Repo[p] THEN Tree(r) ELSE Latest(worker[p].manifest.checkpoints[r])
  BY CheckpointLatest DEF RecordStep, SerialStep
<1>3. /\ OnDisk' /\ worker'[p] = w
      /\ accepted' = accepted /\ \A q \in accepted : Standing(q)' = Standing(q) /\ (Copied(q)' <=> Copied(q))
      /\ \A q \in accepted : Copied(q) /\ Repo[q] = Repo[p] => Standing(q) \subseteq Tree(Repo[p])
      /\ Copied(p)' <=> Copied(p)
      /\ worker[p].end = "passed" /\ Copied(p) =>
           Standing(p) \subseteq Tree(Repo[p]) /\ Standing(p) \subseteq head'[Repo[p]]
  BY <1>1, <1>2, CommitHolds
<1>4. Careful(p) /\ Recording(p) /\ accepted \subseteq Phases /\ \A q \in Phases : Repo[q] \in Repos
  BY <1>1, OpenRecords, ExecutorAssumption
<1>5. ASSUME NEW q \in accepted, Copied(q)
      PROVE  Standing(q) \subseteq Latest(w.manifest.checkpoints[Repo[q]])
  <2>1. Standing(q) \subseteq Latest(worker[p].manifest.checkpoints[Repo[q]])
    BY <1>1, <1>4, <1>5 DEF Careful, Recorded
  <2> QED
    BY <1>2, <1>3, <1>4, <1>5, <2>1
<1>6. Careful(p)'
  BY <1>2, <1>3, <1>5 DEF Careful, Recorded, Unjudged, Starting
<1>7. Recording(p)'
  <2>0. Standing(p)' = Standing(p)
    BY <1>1, <1>2, <1>3, StandingStays DEF tally
  <2>1. w.end \in {"open", "passed"} => Standing(p)' \subseteq disk'
    BY <1>1, <1>2, <1>4, <2>0 DEF Recording
  <2>2. w.end = "passed" /\ Copied(p)' => /\ Standing(p)' \subseteq head'[Repo[p]]
                                         /\ Standing(p)' \subseteq Latest(w.manifest.checkpoints[Repo[p]])
    BY <1>2, <1>3, <1>4, <2>0
  <2> QED
    BY <1>2, <1>3, <2>1, <2>2 DEF Recording, Named
<1> QED
  BY <1>1, <1>2, <1>3, <1>6, <1>7, OpenRecordsStep DEF tally

\* A commit without its record is an error, which does not pass.
LEMMA CommitUnrecordedRecords ==
  ASSUME RecordStep, NEW p \in Phases, CommitUnrecorded(p) PROVE RecordInv'
<1>1. /\ worker[p].at = "checkpoint" /\ head' = [head EXCEPT ![Repo[p]] = Tree(Repo[p])]
      /\ worker' = [worker EXCEPT ![p] = Errs(p)]
      /\ UNCHANGED <<lastWorkspace, manifestFile, disk, gone, tally>>
  BY DEF CommitUnrecorded, Due, memory, records
<1>2. Errs(p).at = "done" /\ Errs(p).end = "error" /\ Errs(p).manifest = worker[p].manifest
  <2>1. "done" \in Steps /\ "error" \in Ends /\ SerialStep
    BY DEF Steps, Ends, RecordStep
  <2> QED
    BY <2>1, GoesToKeeps DEF Errs
<1>3. /\ OnDisk' /\ worker'[p] = Errs(p) /\ accepted' = accepted
      /\ \A q \in accepted : Standing(q)' = Standing(q) /\ (Copied(q)' <=> Copied(q))
  BY <1>1, CommitHolds
<1>4. Careful(p)
  BY <1>1, OpenRecords
<1>5. Careful(p)'
  BY <1>1, <1>2, <1>3, <1>4 DEF Careful, Recorded, Unjudged, Starting
<1>6. Recording(p)'
  BY <1>2, <1>3 DEF Recording
<1> QED
  BY <1>1, <1>3, <1>5, <1>6, OpenRecordsStep DEF tally

\* The manifest that is renamed is the one the call wrote.
LEMMA RenameRecords == ASSUME RecordStep, NEW p \in Phases, RenameManifest(p) PROVE RecordInv'
<1> DEFINE w == Goes(p)
<1>1. /\ worker[p].at = "rename" /\ manifestTmp # {} /\ worker' = [worker EXCEPT ![p] = w]
      /\ manifestFile' = CHOOSE m \in manifestTmp : TRUE
      /\ UNCHANGED <<lastWorkspace, disk, head, gone, tally>>
  BY DEF RenameManifest, Due, memory, trees
<1>2. /\ worker[p] \in Calls /\ SerialStep /\ Careful(p) /\ Recording(p) /\ accepted \subseteq Phases
  BY <1>1, OpenRecords
<1>3. /\ w.at \in {"failed", "publish_plan"} /\ w.end = worker[p].end /\ w.manifest = worker[p].manifest
      /\ w.made = worker[p].made /\ worker'[p] = w
      /\ w.at = "failed" => w.end = "escaped"
  BY <1>1, <1>2, GoesKeeps, OpenRecords DEF After, Due
<1> HIDE DEF w
<1>4. manifestFile' = worker[p].manifest
  <2>1. manifestTmp = {worker[p].manifest}
    BY <1>1, <1>2 DEF Careful
  <2> QED BY <1>1, <2>1
<1>5. accepted' = accepted /\ \A q \in accepted : Standing(q)' = Standing(q) /\ (Copied(q)' <=> Copied(q))
  BY <1>1, <1>3, OpenRecords, StandingStays DEF tally, Copied
<1>6. OnDisk'
  BY <1>1, OnDiskStays
<1>7. Careful(p)'
  BY <1>1, <1>2, <1>3, <1>5 DEF Careful, Recorded, Unjudged, Starting
<1>8. Copied(p)' <=> Copied(p)
  BY <1>1 DEF Copied
<1>9. Recording(p)'
  <2>1. Standing(p)' = Standing(p)
    BY <1>1, <1>3, StandingStays DEF tally
  <2> QED
    BY <1>1, <1>2, <1>3, <1>4, <1>8, <2>1 DEF Recording, Checkpointed
<1> QED
  BY <1>1, <1>4, <1>6, <1>7, <1>9, OpenRecordsStep DEF tally

\* The manifest that is published is the one that was written.
LEMMA PublishRecords == ASSUME RecordStep, NEW p \in Phases, PublishWorkspace(p) PROVE RecordInv'
<1> DEFINE w == Goes(p)
<1>1. /\ worker[p].at = "publish_workspace" /\ worker' = [worker EXCEPT ![p] = w]
      /\ lastWorkspace' = worker[p].manifest
      /\ UNCHANGED <<manifestFile, disk, head, gone, tally>>
  BY DEF PublishWorkspace, Due, trees, records
<1>2. /\ worker[p] \in Calls /\ SerialStep /\ Careful(p) /\ Recording(p) /\ accepted \subseteq Phases
  BY <1>1, OpenRecords
<1>3. /\ w.at = "done" /\ w.end = worker[p].end /\ w.manifest = worker[p].manifest
      /\ w.made = worker[p].made /\ worker'[p] = w
  BY <1>1, <1>2, GoesKeeps, OpenRecords DEF After, Due
<1> HIDE DEF w
<1>4. accepted' = accepted /\ \A q \in accepted : Standing(q)' = Standing(q) /\ (Copied(q)' <=> Copied(q))
  BY <1>1, <1>3, OpenRecords, StandingStays DEF tally, Copied
<1>5. OnDisk'
  BY <1>1, OnDiskStays
<1>6. Careful(p)'
  BY <1>1, <1>2, <1>3, <1>4 DEF Careful, Recorded, Unjudged, Starting
<1>7. Copied(p)' <=> Copied(p)
  BY <1>1 DEF Copied
<1>8. Recording(p)'
  <2>1. Standing(p)' = Standing(p)
    BY <1>1, <1>3, StandingStays DEF tally
  <2> QED
    BY <1>1, <1>2, <1>3, <1>7, <2>1 DEF Recording, Checkpointed, Named
<1> QED
  BY <1>1, <1>5, <1>6, <1>8, OpenRecordsStep DEF tally

\* What becomes accepted is on disk, committed, written and published.
LEMMA HarvestRecords == ASSUME RecordStep, NEW p \in Phases, Harvest(p) PROVE RecordInv'
<1> DEFINE passes == worker[p].end = "passed"
           w == [Idle EXCEPT !.made = IF passes THEN worker[p].made ELSE {}]
<1>1. /\ worker[p].at = "done" /\ UNCHANGED <<lastWorkspace, manifestFile, disk, head, gone, replaced>>
      /\ accepted' = IF passes THEN accepted \cup {p} ELSE accepted
      /\ worker' = [worker EXCEPT ![p] = w]
  BY DEF Harvest, Due, memory, records, trees
<1>2. /\ worker \in [Phases -> Calls] /\ Recording(p) /\ OnDisk /\ Recorded(lastWorkspace) /\ Recorded(manifestFile)
      /\ \A q \in Phases : q # p => worker[q].at = "idle"
      /\ accepted \subseteq Phases /\ p \notin accepted
  BY <1>1, OpenRecords
<1>3. w.at = "idle" /\ w.end = "open" /\ (passes => w.made = worker[p].made)
  BY DEF Idle
<1> HIDE DEF w
<1>4. /\ worker'[p] = w /\ \A q \in Phases : q # p => worker'[q] = worker[q]
      /\ \A q \in Phases : worker'[q].at = "idle" /\ (Copied(q)' <=> Copied(q))
  BY <1>1, <1>2, <1>3 DEF Copied
<1>5. ASSUME NEW q \in accepted', Copied(q)'
      PROVE  /\ Standing(q)' \subseteq disk /\ Standing(q)' \subseteq head[Repo[q]]
             /\ Standing(q)' \subseteq Latest(lastWorkspace.checkpoints[Repo[q]])
             /\ Standing(q)' \subseteq Latest(manifestFile.checkpoints[Repo[q]])
  <2>1. CASE q = p
    <3>1. passes /\ Standing(q)' = Standing(p) /\ Copied(p)
      BY <1>1, <1>2, <1>3, <1>4, <1>5, <2>1, StandingStays
    <3> QED
      BY <1>1, <1>2, <2>1, <3>1 DEF Recording, Checkpointed, Named
  <2>2. CASE q # p
    <3>1. q \in accepted /\ Standing(q)' = Standing(q) /\ Copied(q)
      BY <1>1, <1>2, <1>4, <1>5, <2>2, StandingStays
    <3> QED
      BY <1>2, <3>1 DEF OnDisk, Recorded
  <2> QED
    BY <2>1, <2>2
<1>6. OnDisk' /\ Recorded(lastWorkspace)' /\ Recorded(manifestFile)'
  BY <1>1, <1>5 DEF OnDisk, Recorded
<1>7. ASSUME NEW q \in Phases
      PROVE  Careful(q)' /\ Recording(q)'
  <2>1. worker'[q].at = "idle"
    BY <1>4
  <2> QED
    BY <2>1 DEF Careful, Recording, Unjudged, Starting, Checkpointed, Named
<1> QED
  BY <1>6, <1>7 DEF RecordInv

\* Initially nothing is accepted.
LEMMA InitRecords == Init => Placed /\ RecordInv
<1> SUFFICES ASSUME Init PROVE Placed /\ RecordInv
  OBVIOUS
<1>1. Idle.at = "idle" /\ Idle.manifest = IntakeManifest
  BY DEF Idle
<1>2. Placed
  BY <1>1, IntakeLocal DEF Init, Placed
<1>3. RecordInv
  BY <1>1 DEF Init, RecordInv, OnDisk, Recorded, Careful, Recording, Unjudged, Starting, Checkpointed, Named
<1> QED
  BY <1>2, <1>3

\* Every step keeps the records of accepted work.
LEMMA StepRecords ==
  ASSUME MaxConcurrent = 1
  PROVE  RecordStep /\ [Next]_vars => RecordInv'
<1> SUFFICES ASSUME RecordStep, [Next]_vars PROVE RecordInv'
  OBVIOUS
<1>1. CASE Next
  <2>1. PICK p \in Phases :
          \/ Launch(p) \/ TakeWorkspace(p) \/ Harvest(p)
          \/ Project(p) \/ ProjectionCut(p) \/ Baseline(p) \/ AgentActs(p) \/ AgentEnds(p) \/ AgentTimesOut(p)
          \/ Inspect(p) \/ Judge(p)
          \/ Quarantine(p) \/ Rollback(p) \/ RollbackFails(p)
          \/ Checkpoint(p) \/ CommitUnrecorded(p)
          \/ WriteManifest(p) \/ RenameManifest(p)
          \/ PublishPlan(p) \/ PublishWorkspace(p)
          \/ StepFails(p)
    BY <1>1 DEF Next, AgentActs
  <2> QED
    BY <2>1, LaunchRecords, TakeWorkspaceRecords, HarvestRecords, GoesRecords, FailsRecords, BaselineRecords,
       AgentActsRecords, AgentLeavesRecords, InspectRecords, JudgeRecords, QuarantineRecords,
       RollbackRecords, CheckpointRecords, CommitUnrecordedRecords, RenameRecords, PublishRecords
<1>2. CASE UNCHANGED vars
  <2>1. UNCHANGED <<worker, lastWorkspace, manifestFile, manifestTmp, disk, head, gone, accepted, replaced>>
    BY <1>2 DEF vars, memory, records, trees, tally
  <2>2. RecordInv
    BY DEF RecordStep
  <2> QED
    BY <2>1, <2>2 DEF RecordInv, OnDisk, Recorded, Careful, Recording, Copied, Standing
<1> QED
  BY <1>1, <1>2

\* With one worker at a time, the work of an accepted phase that works in a copied folder is in
\* the commit the folder is at, and in the latest checkpoint of manifest.json and of the manifest
\* the next worker copies, until the folder is moved away or an agent changes it: no rollback,
\* quarantine or manifest of another attempt, whatever step of it fails, takes it out again.
THEOREM SerialCheckpointRecorded ==
  ASSUME MaxConcurrent = 1
  PROVE  Spec => []CheckpointRecorded
<1>1. RecordInv => CheckpointRecorded
  BY DEF RecordInv, OnDisk, Recorded, Copied, CheckpointRecorded
<1>2. TypeInv /\ SerialInv /\ Placed /\ RecordInv /\ [Next]_vars => Placed' /\ RecordInv'
  BY PlacedStays, StepRecords DEF RecordStep, SerialStep
<1> QED
  BY InitType, StepType, InitSerial, StepSerial, InitRecords, <1>1, <1>2, PTL DEF Spec

(***************************************************************************)
(* Accepted work is kept as long as the retention removes nothing.         *)
(***************************************************************************)
\* Whose attempt may still add an entry to the quarantine.
Detaining == {"workspace", "running", "baseline", "agent", "inspect", "quarantine"}

\* An attempt adds one entry at most, and only from its own launch on.
EntriesOf(p) == LET w == worker[p] entries == Len(w.manifest.quarantines) IN
  /\ entries <= launched
  /\ w.at = "workspace" => Len(lastWorkspace.quarantines) < launched
  /\ w.at \in Detaining => entries < launched
FewEntries == Len(lastWorkspace.quarantines) <= launched /\ \A p \in Phases : EntriesOf(p)

KeptInv == FewEntries /\ AcceptedWorkKept

KeptStep == RecordStep /\ RecordInv' /\ KeptInv

\* The lengths that are compared are numbers.
LEMMA EntriesType ==
  ASSUME TypeInv
  PROVE  /\ launched \in Nat /\ MaxLaunches \in Nat /\ launched <= MaxLaunches
         /\ Len(lastWorkspace.quarantines) \in Nat
         /\ \A p \in Phases : /\ worker[p].manifest.quarantines \in Seq(SUBSET Files)
                              /\ Len(worker[p].manifest.quarantines) \in Nat
<1>1. /\ launched \in 0..MaxLaunches /\ MaxLaunches \in Nat
      /\ lastWorkspace.quarantines \in Seq(SUBSET Files)
      /\ \A p \in Phases : worker[p].manifest.quarantines \in Seq(SUBSET Files)
  BY ExecutorAssumption DEF TypeInv, ExecTypeOK, Calls, Manifests
<1> QED
  BY <1>1

\* What is to be shown of a step of an open call that adds no entry.
LEMMA EntriesStay ==
  ASSUME SerialStep, FewEntries, NEW p \in Phases, worker[p].at \notin {"idle", "workspace"},
         \A q \in Phases : q # p => worker'[q] = worker[q],
         Len(worker'[p].manifest.quarantines) = Len(worker[p].manifest.quarantines),
         worker'[p].at # "workspace",
         worker'[p].at \in Detaining => worker[p].at \in Detaining,
         lastWorkspace' \in {lastWorkspace, worker[p].manifest}, launched' = launched
  PROVE  FewEntries'
<1>1. EntriesOf(p) /\ \A q \in Phases : EntriesOf(q) /\ (q # p => worker[q].at = "idle")
  BY OpenCall DEF FewEntries
<1>2. Len(lastWorkspace'.quarantines) <= launched'
  BY <1>1 DEF FewEntries, EntriesOf
<1>3. ASSUME NEW q \in Phases PROVE EntriesOf(q)'
  <2>1. CASE q = p
    BY <1>1, <2>1 DEF EntriesOf
  <2>2. CASE q # p
    BY <1>1, <2>2 DEF EntriesOf, Detaining
  <2> QED BY <2>1, <2>2
<1> QED
  BY <1>2, <1>3 DEF FewEntries

\* Steps that leave the manifest leave the number of its entries.
LEMMA KeptEntries ==
  ASSUME SerialStep, FewEntries, NEW p \in Phases,
         \/ Project(p) \/ ProjectionCut(p) \/ Baseline(p) \/ AgentActs(p) \/ AgentEnds(p) \/ AgentTimesOut(p)
         \/ Inspect(p) \/ Judge(p) \/ RollbackFails(p) \/ StepFails(p)
         \/ WriteManifest(p) \/ RenameManifest(p) \/ PublishPlan(p) \/ PublishWorkspace(p)
  PROVE  FewEntries'
<1>0. worker \in [Phases -> Calls] /\ worker[p] \in Calls
  BY DEF SerialStep, TypeInv, ExecTypeOK
<1>1. worker'[p].manifest = worker[p].manifest /\ \A q \in Phases : q # p => worker'[q] = worker[q]
  BY CallKept DEF SerialStep
<1>2. lastWorkspace' \in {lastWorkspace, worker[p].manifest} /\ launched' = launched
  BY DEF Project, ProjectionCut, Baseline, AgentActs, AgentWrites, AgentEdits,
     AgentRemoves, AgentChanges, AgentEnds, AgentTimesOut, Inspect, Judge,
     RollbackFails, StepFails, WriteManifest, RenameManifest, PublishPlan, PublishWorkspace, memory, tally
<1>3. worker[p].at \notin {"idle", "workspace"} /\ worker'[p].at # "workspace"
      /\ (worker'[p].at \in Detaining => worker[p].at \in Detaining)
  <2>1. Goes(p).at = After(p) /\ \A at, end : GoesTo(p, at, end).at = at
    BY <1>0, GoesKeeps DEF GoesTo, Calls
  <2>2. CASE Project(p)
    <3>1. PICK status \in Statuses :
            Due(p, status) /\ worker' = [worker EXCEPT ![p] = [Goes(p) EXCEPT !.plan[p] = status]]
      BY <2>2 DEF Project
    <3>2. worker'[p].at = After(p)
      BY <1>0, <2>1, <3>1, GoesKeeps DEF Calls
    <3>3. worker[p].at = status /\ status # "draft"
      BY <1>0, <3>1 DEF Due, Calls, Steps
    <3> QED
      BY <3>2, <3>3 DEF Statuses, After, Due, Detaining
  <2>3. CASE Baseline(p)
    <3>1. worker'[p].at = After(p)
      BY <1>0, <2>1, <2>3, GoesKeeps DEF Baseline, Calls
    <3> QED
      BY <2>3, <3>1 DEF Baseline, After, Due, Detaining
  <2>4. CASE RollbackFails(p) \/ WriteManifest(p) \/ RenameManifest(p) \/ PublishPlan(p) \/ PublishWorkspace(p)
    <3>1. worker'[p].at = After(p)
      BY <1>0, <2>1, <2>4 DEF RollbackFails, WriteManifest, RenameManifest, PublishPlan, PublishWorkspace
    <3> QED
      BY <2>4, <3>1 DEF RollbackFails, WriteManifest, RenameManifest, PublishPlan, PublishWorkspace,
         After, Due, Detaining
  <2>5. CASE AgentActs(p)
    <3>1. PICK new : /\ worker[p].at = "agent"
                     /\ worker' = [worker EXCEPT ![p].made = @ \cup new]
      BY <2>5 DEF AgentActs, AgentWrites, AgentEdits, AgentRemoves, AgentChanges, CanWork, Due
    <3>2. worker[p].at = "agent" /\ worker'[p].at = "agent"
      BY <1>0, <3>1 DEF Calls
    <3> QED BY <3>2
  <2>6. CASE ProjectionCut(p) \/ StepFails(p)
    BY <1>0, <2>1, <2>6 DEF ProjectionCut, StepFails, MayFail, Errs, Due, Statuses, Detaining
  <2>7. CASE AgentEnds(p) \/ AgentTimesOut(p)
    BY <1>0, <2>1, <2>7 DEF AgentEnds, AgentTimesOut, CanWork, Due, PartialRecovery, Detaining
  <2>8. CASE Inspect(p)
    <3> DEFINE v(f) == [GoesTo(p, "quarantine", "escaped") EXCEPT !.target = AtPath(f, disk)]
    <3>1. \A f : v(f).at = "quarantine"
      BY <1>0 DEF GoesTo, Calls
    <3>2. worker' = [worker EXCEPT ![p] = GoesTo(p, "verifying", "open")]
          \/ \E f : worker' = [worker EXCEPT ![p] = v(f)]
      BY <2>8 DEF Inspect
    <3>3. worker[p].at = "inspect"
      BY <2>8 DEF Inspect, Due
    <3> HIDE DEF v
    <3> QED BY <1>0, <2>1, <3>1, <3>2, <3>3 DEF Detaining
  <2>9. CASE Judge(p)
    BY <1>0, <2>1, <2>9 DEF Judge, Verdicts, Due, Detaining
  <2> QED BY <2>2, <2>3, <2>4, <2>5, <2>6, <2>7, <2>8, <2>9
<1> QED
  BY <1>1, <1>2, <1>3, EntriesStay

\* What is on disk or in quarantine stays there, unless an agent takes it away.
LEMMA NothingLost ==
  ASSUME AcceptedWorkKept, SerialStep, UNCHANGED accepted, replaced \subseteq replaced',
         \A q \in accepted : worker'[q].made = worker[q].made,
         disk \cup quarantined \subseteq disk' \cup quarantined' \cup replaced'
  PROVE  AcceptedWorkKept'
BY DEF AcceptedWorkKept, Standing

\* What was accepted is of no open call.
LEMMA AcceptedStay ==
  ASSUME SerialStep, NEW p \in Phases, p \notin accepted,
         \A q \in Phases : q # p => worker'[q] = worker[q]
  PROVE  \A q \in accepted : worker'[q].made = worker[q].made
BY DEF SerialStep, TypeInv, ExecTypeOK

\* Steps that take nothing from disk or quarantine.
LEMMA QuietKept ==
  ASSUME KeptStep, NEW p \in Phases,
         \/ Project(p) \/ ProjectionCut(p) \/ Baseline(p) \/ AgentActs(p) \/ AgentEnds(p) \/ AgentTimesOut(p)
         \/ Inspect(p) \/ Judge(p) \/ RollbackFails(p) \/ StepFails(p)
         \/ WriteManifest(p) \/ RenameManifest(p) \/ PublishPlan(p) \/ PublishWorkspace(p)
  PROVE  KeptInv'
<1>1. \A q \in Phases : q # p => worker'[q] = worker[q]
  BY CallKept DEF KeptStep, RecordStep, SerialStep
<1>2. /\ accepted' = accepted /\ replaced \subseteq replaced'
      /\ disk \cup quarantined \subseteq disk' \cup quarantined' \cup replaced'
  BY DEF Project, ProjectionCut, Baseline, AgentActs, AgentWrites, AgentEdits,
     AgentRemoves, AgentChanges, AgentEnds, AgentTimesOut, Inspect, Judge,
     RollbackFails, StepFails, WriteManifest, RenameManifest, PublishPlan, PublishWorkspace, trees, tally
<1>3. worker[p].at # "idle"
  BY DEF Project, ProjectionCut, Baseline, AgentActs, AgentWrites, AgentEdits,
     AgentRemoves, AgentChanges, AgentEnds, AgentTimesOut, Inspect, Judge, CanWork,
     RollbackFails, StepFails, MayFail, WriteManifest, RenameManifest, PublishPlan, PublishWorkspace, Due, Statuses
<1>4. SerialStep /\ FewEntries /\ AcceptedWorkKept
  BY DEF KeptStep, RecordStep, KeptInv
<1>5. p \notin accepted
  BY <1>3, <1>4, OpenCall
<1>6. FewEntries'
  BY <1>4, KeptEntries
<1>7. AcceptedWorkKept'
  BY <1>1, <1>2, <1>4, <1>5, AcceptedStay, NothingLost
<1> QED
  BY <1>6, <1>7 DEF KeptInv

\* A launch makes room for an entry.
LEMMA LaunchKept == ASSUME KeptStep, MaxConcurrent = 1, NEW p \in Phases, Launch(p) PROVE KeptInv'
<1>1. /\ SerialStep /\ FewEntries /\ AcceptedWorkKept /\ TypeInv
      /\ \A q \in Phases : worker[q].at = "idle"
  BY LaunchAlone DEF KeptStep, RecordStep, SerialStep, KeptInv
<1>2. /\ worker' = [worker EXCEPT ![p] = Call(p)] /\ p \notin accepted /\ launched' = launched + 1
      /\ UNCHANGED <<lastWorkspace, disk, quarantined, accepted, replaced>>
  BY DEF Launch, memory, trees
<1>3. worker'[p] = Call(p) /\ \A q \in Phases : q # p => worker'[q] = worker[q]
  BY <1>1, <1>2 DEF TypeInv, ExecTypeOK
<1>4. Call(p).at = "workspace" /\ Len(Call(p).manifest.quarantines) = 0
  BY DEF Call, Idle, IntakeManifest
<1>5. FewEntries'
  <2>1. Len(lastWorkspace'.quarantines) < launched' /\ 0 < launched' /\ launched <= launched'
    BY <1>1, <1>2, EntriesType DEF FewEntries
  <2>2. ASSUME NEW q \in Phases PROVE EntriesOf(q)'
    <3>1. CASE q = p
      BY <1>1, <1>2, <1>3, <1>4, <2>1, <3>1, EntriesType DEF EntriesOf
    <3>2. CASE q # p
      <4>1. Len(worker'[q].manifest.quarantines) <= launched'
        BY <1>1, <1>2, <1>3, <3>2, EntriesType DEF FewEntries, EntriesOf
      <4> QED
        BY <1>1, <1>3, <3>2, <4>1 DEF EntriesOf, Detaining
    <3> QED BY <3>1, <3>2
  <2> QED
    BY <1>1, <1>2, <2>1, <2>2, EntriesType DEF FewEntries
<1>6. AcceptedWorkKept'
  BY <1>1, <1>2, <1>3, AcceptedStay, NothingLost
<1> QED
  BY <1>5, <1>6 DEF KeptInv

\* The manifest that is copied has room for an entry.
LEMMA TakeWorkspaceKept == ASSUME KeptStep, NEW p \in Phases, TakeWorkspace(p) PROVE KeptInv'
<1> DEFINE w == [Goes(p) EXCEPT !.manifest = lastWorkspace]
<1>1. /\ SerialStep /\ FewEntries /\ AcceptedWorkKept /\ TypeInv
  BY DEF KeptStep, RecordStep, SerialStep, KeptInv
<1>2. /\ worker[p].at = "workspace" /\ worker' = [worker EXCEPT ![p] = w]
      /\ UNCHANGED <<lastWorkspace, disk, quarantined, tally>>
  BY DEF TakeWorkspace, Due, memory, trees
<1>3. w.at = "running" /\ w.manifest = lastWorkspace /\ p \notin accepted
  BY <1>1, <1>2, OpenCall, GoesKeeps DEF After, Due, Calls
<1> HIDE DEF w
<1>4. /\ worker'[p] = w /\ \A q \in Phases : q # p => worker'[q] = worker[q] /\ worker[q].at = "idle"
      /\ launched' = launched /\ accepted' = accepted /\ replaced' = replaced
  BY <1>1, <1>2, OpenCall DEF tally
<1>5. FewEntries'
  <2>1. Len(lastWorkspace'.quarantines) < launched'
    BY <1>1, <1>2, <1>4 DEF FewEntries, EntriesOf
  <2>2. ASSUME NEW q \in Phases PROVE EntriesOf(q)'
    <3>1. CASE q = p
      BY <1>1, <1>2, <1>3, <1>4, <2>1, <3>1, EntriesType DEF EntriesOf
    <3>2. CASE q # p
      BY <1>1, <1>2, <1>3, <1>4, <3>2 DEF EntriesOf, FewEntries, Detaining
    <3> QED BY <3>1, <3>2
  <2> QED
    BY <1>1, <1>2, <1>4, <2>2 DEF FewEntries
<1>6. AcceptedWorkKept'
  BY <1>1, <1>2, <1>3, <1>4, AcceptedStay, NothingLost
<1> QED
  BY <1>5, <1>6 DEF KeptInv

\* What becomes accepted is on disk.
LEMMA HarvestKept == ASSUME KeptStep, NEW p \in Phases, Harvest(p) PROVE KeptInv'
<1> DEFINE passes == worker[p].end = "passed"
           w == [Idle EXCEPT !.made = IF passes THEN worker[p].made ELSE {}]
<1>1. /\ SerialStep /\ FewEntries /\ AcceptedWorkKept /\ TypeInv
  BY DEF KeptStep, RecordStep, SerialStep, KeptInv
<1>2. /\ worker[p].at = "done" /\ UNCHANGED <<lastWorkspace, disk, quarantined, launched, replaced>>
      /\ accepted' = IF passes THEN accepted \cup {p} ELSE accepted
      /\ worker' = [worker EXCEPT ![p] = w]
  BY DEF Harvest, Due, memory, trees
<1>3. w.at = "idle" /\ Len(w.manifest.quarantines) = 0 /\ (passes => w.made = worker[p].made)
  BY DEF Idle, IntakeManifest
<1> HIDE DEF w
<1>4. /\ worker'[p] = w /\ \A q \in Phases : q # p => worker'[q] = worker[q] /\ worker[q].at = "idle"
      /\ p \notin accepted /\ accepted \subseteq Phases
  BY <1>1, <1>2, OpenCall DEF TypeInv, ExecTypeOK
<1>5. FewEntries'
  <2>2. ASSUME NEW q \in Phases PROVE EntriesOf(q)'
    <3>1. CASE q = p
      BY <1>1, <1>2, <1>3, <1>4, <3>1, EntriesType DEF EntriesOf, Detaining
    <3>2. CASE q # p
      BY <1>1, <1>2, <1>4, <3>2 DEF EntriesOf, FewEntries, Detaining
    <3> QED BY <3>1, <3>2
  <2> QED
    BY <1>1, <1>2, <2>2 DEF FewEntries
<1>6. AcceptedWorkKept'
  <2>1. Recording(p)
    BY <1>2, OpenRecords DEF KeptStep
  <2>2. passes => Standing(p) \subseteq disk
    BY <1>2, <2>1 DEF Recording
  <2>3. ASSUME NEW q \in accepted' PROVE Standing(q)' \subseteq disk' \cup quarantined'
    <3>1. CASE q = p
      BY <1>2, <1>3, <1>4, <2>2, <2>3, <3>1 DEF Standing
    <3>2. CASE q # p
      BY <1>1, <1>2, <1>4, <2>3, <3>2 DEF AcceptedWorkKept, Standing
    <3> QED BY <3>1, <3>2
  <2> QED
    BY <2>3 DEF AcceptedWorkKept
<1> QED
  BY <1>5, <1>6 DEF KeptInv

\* A quarantine within the cap removes nothing.
LEMMA QuarantineKept ==
  ASSUME KeptStep, MaxLaunches <= MaxQuarantine, NEW p \in Phases, Quarantine(p)
  PROVE  KeptInv'
<1> DEFINE whole == TargetLost(p)
           moved == IF whole THEN Tree(Repo[p]) ELSE worker[p].target
           entries == Append(worker[p].manifest.quarantines, moved)
           surplus == IF Len(entries) > MaxQuarantine THEN Len(entries) - MaxQuarantine ELSE 0
           kept == SubSeq(entries, surplus + 1, Len(entries))
           removed == UNION {entries[i] : i \in 1..surplus}
           m == [worker[p].manifest EXCEPT !.quarantines = kept]
           w == [Goes(p) EXCEPT !.manifest = m]
<1>1. /\ SerialStep /\ FewEntries /\ AcceptedWorkKept /\ TypeInv
  BY DEF KeptStep, RecordStep, SerialStep, KeptInv
<1>2. /\ worker[p].at = "quarantine"
      /\ disk' = disk \ moved
      /\ quarantined' = (quarantined \cup moved) \ removed
      /\ UNCHANGED <<lastWorkspace, tally>>
  BY DEF Quarantine, Due, memory
<1>3. worker' = [worker EXCEPT ![p] = w]
  BY <1>1, GoesKeeps DEF Quarantine
<1>4. /\ worker[p] \in Calls /\ p \notin accepted /\ worker[p].manifest \in Manifests
      /\ moved \in SUBSET Files
  BY <1>1, <1>2, OpenCall, TreeType DEF Calls
<1>5. w.at \in {"write", "failed"} /\ w.manifest = m
  BY <1>1, <1>2, GoesKeeps DEF After, Due, Calls
<1>6. /\ Len(worker[p].manifest.quarantines) \in Nat /\ Len(worker[p].manifest.quarantines) < launched
      /\ worker[p].manifest.quarantines \in Seq(SUBSET Files)
      /\ launched \in Nat /\ launched <= MaxQuarantine /\ MaxQuarantine \in Nat
  <2>1. Len(worker[p].manifest.quarantines) < launched
    BY <1>1, <1>2 DEF FewEntries, EntriesOf, Detaining
  <2> QED
    BY <1>1, <2>1, EntriesType, ExecutorAssumption
<1> HIDE DEF moved
<1>7. entries \in Seq(SUBSET Files) /\ Len(entries) = Len(worker[p].manifest.quarantines) + 1
  BY <1>4, <1>6
<1>8. surplus = 0
  BY <1>6, <1>7
<1>9. removed = {}
  BY <1>8
<1>10. Len(m.quarantines) <= launched
  <2>1. m.quarantines = kept
    BY <1>4 DEF Manifests
  <2>2. Len(kept) = Len(entries)
    <3>1. kept = SubSeq(entries, 1, Len(entries))
      BY <1>8
    <3> HIDE DEF entries, kept
    <3> QED
      BY <1>7, <1>6, <3>1
  <2> QED
    BY <1>6, <1>7, <2>1, <2>2
<1> HIDE DEF m, w, removed
<1>11. /\ worker'[p] = w /\ \A q \in Phases : q # p => worker'[q] = worker[q] /\ worker[q].at = "idle"
       /\ launched' = launched /\ accepted' = accepted /\ replaced' = replaced
  BY <1>1, <1>2, <1>3, OpenCall DEF tally
<1>12. FewEntries'
  <2>2. ASSUME NEW q \in Phases PROVE EntriesOf(q)'
    <3>1. CASE q = p
      BY <1>5, <1>10, <1>11, <3>1 DEF EntriesOf, Detaining
    <3>2. CASE q # p
      BY <1>1, <1>2, <1>11, <3>2 DEF EntriesOf, FewEntries, Detaining
    <3> QED BY <3>1, <3>2
  <2> QED
    BY <1>1, <1>2, <1>11, <2>2 DEF FewEntries
<1>13. AcceptedWorkKept'
  BY <1>1, <1>2, <1>4, <1>9, <1>11, AcceptedStay, NothingLost
<1> QED
  BY <1>12, <1>13 DEF KeptInv

\* A rollback of a clone that is there brings back what is accepted in it.
LEMMA RollbackKept == ASSUME KeptStep, NEW p \in Phases, Rollback(p) PROVE KeptInv'
<1>1. /\ SerialStep /\ FewEntries /\ AcceptedWorkKept /\ TypeInv /\ OnDisk'
  BY DEF KeptStep, RecordStep, RecordInv, SerialStep, KeptInv
<1>2. /\ worker[p].at = "rollback" /\ Repo[p] \notin gone /\ worker' = [worker EXCEPT ![p] = Goes(p)]
      /\ disk' = (disk \ Tree(Repo[p])) \cup LatestCheckpoint(p)
      /\ UNCHANGED <<lastWorkspace, gone, quarantined, tally>>
  BY DEF Rollback, Due, memory
<1>3. /\ p \notin accepted /\ Goes(p).at = "failed" /\ Goes(p).manifest = worker[p].manifest
      /\ worker'[p] = Goes(p) /\ \A q \in Phases : q # p => worker'[q] = worker[q]
      /\ accepted' = accepted /\ launched' = launched
  BY <1>1, <1>2, OpenCall, GoesKeeps DEF After, Due, tally
<1>4. FewEntries'
  BY <1>1, <1>2, <1>3, EntriesStay DEF Detaining
<1>5. \A q \in accepted : Standing(q)' = Standing(q)
  BY <1>1, <1>2, <1>3, AcceptedStay, StandingStays DEF tally
<1>6. ASSUME NEW q \in accepted, NEW f \in Standing(q) PROVE f \in disk' \cup quarantined'
  <2>1. f \in disk \cup quarantined /\ f.at = WriteRoot(q)
    BY <1>1, <1>6 DEF AcceptedWorkKept, Standing
  <2>2. CASE WriteRoot(q) = Clone(Repo[p])
    <3>1. Repo[q] \notin Worktrees /\ Repo[q] = Repo[p]
      BY <2>2 DEF WriteRoot, Clone, Worktree
    <3>2. Copied(q)'
      BY <1>2, <3>1 DEF Copied
    <3> QED
      BY <1>1, <1>3, <1>5, <1>6, <2>1, <3>2 DEF OnDisk
  <2>3. CASE WriteRoot(q) # Clone(Repo[p])
    BY <1>2, <2>1, <2>3 DEF Tree
  <2> QED BY <2>2, <2>3
<1>7. AcceptedWorkKept'
  BY <1>3, <1>5, <1>6 DEF AcceptedWorkKept
<1> QED
  BY <1>4, <1>7 DEF KeptInv

\* A checkpoint takes no file, and adds no entry.
LEMMA CheckpointKept ==
  ASSUME KeptStep, NEW p \in Phases, Checkpoint(p) \/ CommitUnrecorded(p)
  PROVE  KeptInv'
<1>1. /\ SerialStep /\ FewEntries /\ AcceptedWorkKept /\ TypeInv
  BY DEF KeptStep, RecordStep, SerialStep, KeptInv
<1>2. worker[p].at = "checkpoint" /\ UNCHANGED <<lastWorkspace, disk, quarantined, tally>>
  BY DEF Checkpoint, CommitUnrecorded, Due, memory
<1>3. p \notin accepted /\ worker[p] \in Calls /\ worker \in [Phases -> Calls]
  BY <1>1, <1>2, OpenCall
<1>4. /\ \A q \in Phases : q # p => worker'[q] = worker[q]
      /\ worker'[p].at \in {"write", "done"}
      /\ worker'[p].manifest.quarantines = worker[p].manifest.quarantines
  <2>1. CASE Checkpoint(p)
    <3> DEFINE new == Append(worker[p].manifest.checkpoints[Repo[p]], Tree(Repo[p]))
               w == [Goes(p) EXCEPT !.manifest.checkpoints[Repo[p]] = new]
    <3>1. worker' = [worker EXCEPT ![p] = w]
      BY <1>1, <2>1, GoesKeeps DEF Checkpoint
    <3>2. w.at = "write" /\ w.manifest.quarantines = worker[p].manifest.quarantines
      BY <1>1, <1>2, GoesKeeps DEF After, Due, Calls, Manifests
    <3> HIDE DEF w
    <3> QED BY <1>3, <3>1, <3>2
  <2>2. CASE CommitUnrecorded(p)
    BY <1>3, <2>2 DEF CommitUnrecorded, Errs, GoesTo, Calls
  <2> QED BY <2>1, <2>2
<1>5. FewEntries'
  BY <1>1, <1>2, <1>4, EntriesStay DEF Detaining, tally
<1>6. AcceptedWorkKept'
  BY <1>1, <1>2, <1>3, <1>4, AcceptedStay, NothingLost DEF tally
<1> QED
  BY <1>5, <1>6 DEF KeptInv

\* Initially nothing is accepted, and nothing in quarantine.
LEMMA InitKept == Init => KeptInv
<1> SUFFICES ASSUME Init PROVE KeptInv
  OBVIOUS
<1>1. Idle.at = "idle" /\ Idle.manifest = IntakeManifest /\ Len(IntakeManifest.quarantines) = 0
  BY DEF Idle, IntakeManifest
<1> QED
  BY <1>1 DEF Init, KeptInv, FewEntries, EntriesOf, Detaining, AcceptedWorkKept

\* Every step keeps accepted work, as long as an entry of every launch is within the cap.
LEMMA StepKept ==
  ASSUME MaxConcurrent = 1, MaxLaunches <= MaxQuarantine
  PROVE  KeptStep /\ [Next]_vars => KeptInv'
<1> SUFFICES ASSUME KeptStep, [Next]_vars PROVE KeptInv'
  OBVIOUS
<1>1. CASE Next
  <2>1. PICK p \in Phases :
          \/ Launch(p) \/ TakeWorkspace(p) \/ Harvest(p)
          \/ Project(p) \/ ProjectionCut(p) \/ Baseline(p) \/ AgentActs(p) \/ AgentEnds(p) \/ AgentTimesOut(p)
          \/ Inspect(p) \/ Judge(p)
          \/ Quarantine(p) \/ Rollback(p) \/ RollbackFails(p)
          \/ Checkpoint(p) \/ CommitUnrecorded(p)
          \/ WriteManifest(p) \/ RenameManifest(p)
          \/ PublishPlan(p) \/ PublishWorkspace(p)
          \/ StepFails(p)
    BY <1>1 DEF Next, AgentActs
  <2> QED
    BY <2>1, LaunchKept, TakeWorkspaceKept, HarvestKept, QuietKept, QuarantineKept, RollbackKept, CheckpointKept
<1>2. CASE UNCHANGED vars
  <2>1. UNCHANGED <<worker, lastWorkspace, disk, quarantined, accepted, launched, replaced>>
    BY <1>2 DEF vars, memory, records, trees, tally
  <2>2. KeptInv
    BY DEF KeptStep
  <2> QED
    BY <2>1, <2>2 DEF KeptInv, FewEntries, EntriesOf, AcceptedWorkKept, Standing
<1> QED
  BY <1>1, <1>2

\* With one worker at a time, and no more launches than quarantine entries are kept, what an
\* accepted attempt wrote in its write root stays on disk or in quarantine until an agent changes
\* it: a rollback goes to a checkpoint that holds it, and a quarantine moves it.
THEOREM SerialWorkKept ==
  ASSUME MaxConcurrent = 1, MaxLaunches <= MaxQuarantine
  PROVE  Spec => []AcceptedWorkKept
<1>1. KeptInv => AcceptedWorkKept
  BY DEF KeptInv
<1>2. TypeInv /\ SerialInv /\ Placed /\ RecordInv /\ KeptInv /\ [Next]_vars
        => Placed' /\ RecordInv' /\ KeptInv'
  BY PlacedStays, StepRecords, StepKept DEF KeptStep, RecordStep, SerialStep
<1> QED
  BY InitType, StepType, InitSerial, StepSerial, InitRecords, InitKept, <1>1, <1>2, PTL DEF Spec
=============================================================================
