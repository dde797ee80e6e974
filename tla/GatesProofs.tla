----------------------------- MODULE GatesProofs -----------------------------
(***************************************************************************)
(* Theorems about the way of an accepted plan, for any answers of the      *)
(* architect and any workspaces: what the verdict of the gates says of the *)
(* tests, that the search of the scheduler finds no circle in a plan the   *)
(* planner has accepted, and that the lengths it gives the phases are      *)
(* those of the longest chains.                                            *)
(***************************************************************************)
EXTENDS PlanProofs

(***************************************************************************)
(* The gates                                                               *)
(***************************************************************************)
GatesTypeInv ==
  /\ layer \in 1..4 /\ next \in Nat \ {0} /\ step \in {"spec", "first", "retry"}
  /\ baseline \in Exits \cup {"none"} /\ verdict \in {"none", "passed", "blocked", "error"}

\* Gates are run for a phase of an accepted plan.
PhaseInv ==
  /\ load # "none" => at = "accepted"
  /\ phase # 0 => load = "loaded" /\ phase \in DOMAIN plan
  /\ phase = 0 => layer = 1 /\ next = 1 /\ step = "spec" /\ evidence = {} /\ verdict = "none"

\* The test at work beyond its baseline is one that applies.
StepInv == step # "spec" => phase # 0 /\ layer \in Layers /\ next \in Executable(layer)

\* A record is of a test that applies, and its class says how it ended.
RecordTrue(e) ==
  /\ e.layer \in Layers /\ e.test \in Executable(e.layer)
  /\ e.exit \in Exits /\ (e.class \in Passing <=> e.exit = "expected")

Behind(l, k) == l < layer \/ (l = layer /\ k < next)

\* Every test that applies and is behind the one at work has a record.
EvidenceInv == phase # 0 =>
  /\ \A e \in evidence : RecordTrue(e)
  /\ \A l \in Layers : \A k \in Executable(l) : Behind(l, k) => \E e \in evidence : e.layer = l /\ e.test = k

GateInv == PlanInv /\ GatesTypeInv /\ PhaseInv /\ StepInv /\ EvidenceInv /\ VerdictMatchesRuns

\* No gates have been run.
LEMMA InitGates == GatesInit => GateInv
<1> SUFFICES ASSUME GatesInit PROVE GateInv
  OBVIOUS
<1>1. PlanInv
  BY InitPlan
<1> QED
  BY <1>1 DEF GateInv, GatesInit, LoadInit, GatesTypeInv, PhaseInv, StepInv, EvidenceInv, VerdictMatchesRuns

\* The tests of a phase of the plan are a list.
LEMMA TestsAreList ==
  ASSUME PlanOK, NEW i \in DOMAIN plan, NEW l \in Layers
  PROVE  Len(plan[i].tests[l]) \in Nat /\ DOMAIN plan[i].tests[l] = 1..Len(plan[i].tests[l])
<1>1. plan[i] \in Elements(plan)
  BY DEF Elements
<1>2. IsSequence(plan[i].tests[l])
  BY <1>1 DEF PlanOK
<1> QED
  BY <1>2, SequenceDomain

\* The planner and the search leave the gates alone: once there is a phase, the plan stays.
LEMMA BeforeGates ==
  ASSUME GateInv, PlanInv', \/ PlanNext /\ UNCHANGED <<loadVars, gateVars>>
                            \/ LoadStep /\ UNCHANGED gateVars
                            \/ UNCHANGED <<loadedVars, gateVars>>
  PROVE  GateInv'
<1>1. UNCHANGED gateVars
  BY DEF gateVars
<1>2. (at = "accepted" \/ load # "none") => UNCHANGED planVars
  <2>1. CASE PlanNext
    BY <2>1 DEF GateInv, PhaseInv, PlanNext, Compile, CheckSchema, CheckPlan, PopPhase, Verdict, BootstrapProject,
                BootstrapFails, Accept
  <2> QED
    BY <2>1, PlanLeftAlone
<1>3. (load' # "none" => at' = "accepted") /\ (load = "loaded" => load' = "loaded")
  <2>1. CASE LoadStep
    BY <1>2, <2>1 DEF GateInv, PhaseInv, LoadStep, BeginLoad, SearchFrom, Leave, LoadPhases, Follow, planVars
  <2> QED
    BY <1>2, <2>1 DEF GateInv, PhaseInv, loadVars, loadedVars, planVars
<1>4. phase # 0 => plan' = plan /\ load' = "loaded" /\ phase \in DOMAIN plan
  BY <1>2, <1>3 DEF GateInv, PhaseInv, planVars
<1>5. GatesTypeInv' /\ PhaseInv'
  BY <1>1, <1>3, <1>4 DEF GateInv, GatesTypeInv, PhaseInv, gateVars
<1>6. CASE phase = 0
  <2>1. phase' = 0 /\ step' = "spec" /\ verdict' = "none"
    BY <1>1, <1>6 DEF GateInv, PhaseInv, gateVars
  <2> QED
    BY <1>5, <2>1 DEF GateInv, StepInv, EvidenceInv, VerdictMatchesRuns
<1>7. CASE phase # 0
  <2>1. UNCHANGED <<plan, gateVars>>
    BY <1>1, <1>4, <1>7
  <2>2. \A l : Executable(l)' = Executable(l) /\ Tests(l)' = Tests(l)
    BY <2>1 DEF Executable, Tests, gateVars
  <2>3. StepInv' /\ EvidenceInv'
    BY <2>1, <2>2 DEF GateInv, StepInv, EvidenceInv, RecordTrue, Behind, gateVars
  <2>4. VerdictMatchesRuns'
    BY <2>1, <2>2 DEF GateInv, VerdictMatchesRuns, gateVars
  <2> QED
    BY <1>5, <2>3, <2>4 DEF GateInv
<1> QED
  BY <1>6, <1>7

\* The gates of a phase begin with nothing behind them.
LEMMA BeginGatesKeeps == ASSUME GateInv, PlanInv', NEW i \in DOMAIN plan, BeginGates(i) PROVE GateInv'
<1>1. /\ phase = 0 /\ layer' = 1 /\ next' = 1 /\ step' = "spec" /\ evidence' = {} /\ verdict' = "none"
      /\ UNCHANGED loadedVars /\ load = "loaded" /\ phase' = i /\ baseline' = baseline
  BY DEF BeginGates, GateInv, PhaseInv
<1>2. GatesTypeInv'
  BY <1>1 DEF GateInv, GatesTypeInv
<1>3. PhaseInv'
  BY <1>1 DEF GateInv, PhaseInv, loadedVars, loadVars, planVars
<1>4. PlanOK /\ plan' = plan
  BY <1>1 DEF GateInv, PlanInv, loadedVars, planVars
<1>5. ASSUME NEW l \in Layers, NEW k \in Executable(l)' PROVE ~Behind(l, k)'
  <2>1. k \in DOMAIN plan[i].tests[l]
    BY <1>1, <1>4 DEF Executable, Tests
  <2>2. k \in Nat /\ k > 0
    BY <1>4, <2>1, TestsAreList
  <2> QED
    BY <1>1, <2>2 DEF Behind, Layers
<1> QED
  BY <1>1, <1>2, <1>3, <1>5 DEF GateInv, StepInv, EvidenceInv, VerdictMatchesRuns

\* What stays the same under a step of the gates of one phase.
LEMMA SamePhase ==
  ASSUME GateInv, UNCHANGED <<loadedVars, phase>>, phase # 0
  PROVE  /\ plan' = plan /\ PhaseInv' /\ phase \in DOMAIN plan /\ PlanOK
         /\ \A l : Executable(l)' = Executable(l) /\ Tests(l)' = Tests(l)
BY DEF GateInv, PhaseInv, loadedVars, loadVars, planVars, Executable, Tests, PlanInv

\* Where the gates are at work, there is a phase and a test of it.
LEMMA AtWork ==
  ASSUME GateInv, NEW s, Running(s)
  PROVE  phase # 0 /\ verdict = "none" /\ layer \in Layers /\ next \in DOMAIN Tests(layer) /\ next \in Nat
BY DEF Running, GateInv, GatesTypeInv

\* The next test is due when the one at work has a record or does not apply.
LEMMA Advance ==
  ASSUME GateInv, PlanInv', UNCHANGED <<loadedVars, phase, layer, verdict>>,
         phase # 0, verdict = "none", layer \in Layers, next' = next + 1, step' = "spec", GatesTypeInv',
         evidence \subseteq evidence', \A e \in evidence' \ evidence : RecordTrue(e),
         next \in Executable(layer) => \E e \in evidence' : e.layer = layer /\ e.test = next
  PROVE  GateInv'
<1>1. /\ plan' = plan /\ PhaseInv'
      /\ \A l : Executable(l)' = Executable(l) /\ Tests(l)' = Tests(l)
  BY SamePhase
<1>2. \A e \in evidence' : RecordTrue(e)
  BY DEF GateInv, EvidenceInv
<1>3. \A e : RecordTrue(e) => RecordTrue(e)'
  BY <1>1 DEF RecordTrue
<1>4. ASSUME NEW l \in Layers, NEW k \in Executable(l), l < layer \/ (l = layer /\ k < next + 1)
      PROVE  \E e \in evidence' : e.layer = l /\ e.test = k
  <2>1. k \in Nat
    <3>1. PlanOK /\ phase \in DOMAIN plan
      BY SamePhase
    <3> QED
      BY <3>1, TestsAreList DEF Executable, Tests
  <2>2. next \in Nat
    BY DEF GateInv, GatesTypeInv
  <2>3. CASE l = layer /\ k = next
    BY <1>4, <2>3
  <2>4. CASE l < layer \/ (l = layer /\ k < next)
    BY <1>4, <2>4 DEF GateInv, EvidenceInv, Behind
  <2> QED
    BY <1>4, <2>1, <2>2, <2>3, <2>4
<1>5. EvidenceInv'
  BY <1>1, <1>2, <1>3, <1>4 DEF EvidenceInv, Behind
<1> QED
  BY <1>1, <1>5 DEF GateInv, StepInv, VerdictMatchesRuns

\* The record of a test that applies is true when its class is.
LEMMA PushKeeps ==
  ASSUME GateInv, PlanInv', phase # 0, verdict = "none", layer \in Layers, next \in Executable(layer),
         NEW exit \in Exits, NEW class \in Classes, class \in Passing <=> exit = "expected", Push(exit, class)
  PROVE  GateInv'
<1> DEFINE e == Record(exit, class)
<1>1. /\ UNCHANGED <<loadedVars, phase, layer, baseline, verdict>> /\ next' = next + 1 /\ step' = "spec"
      /\ evidence' = evidence \cup {e}
  BY DEF Push
<1>2. RecordTrue(e) /\ e.layer = layer /\ e.test = next
  BY DEF RecordTrue, Record
<1>3. GatesTypeInv'
  BY <1>1 DEF GateInv, GatesTypeInv
<1> HIDE DEF e
<1> QED
  BY <1>1, <1>2, <1>3, Advance

\* A step of the gates that changes neither the evidence nor the place in the list.
LEMMA SamePlace ==
  ASSUME GateInv, PlanInv', UNCHANGED <<loadedVars, phase, layer, next, evidence>>, phase # 0,
         GatesTypeInv', StepInv', VerdictMatchesRuns'
  PROVE  GateInv'
<1>1. /\ plan' = plan /\ PhaseInv'
      /\ \A l : Executable(l)' = Executable(l) /\ Tests(l)' = Tests(l)
  BY SamePhase
<1>2. EvidenceInv'
  BY <1>1 DEF GateInv, EvidenceInv, RecordTrue, Behind
<1> QED
  BY <1>1, <1>2 DEF GateInv

\* What does not apply needs no record.
LEMMA SkipSpecKeeps == ASSUME GateInv, PlanInv', SkipSpec PROVE GateInv'
<1>1. /\ phase # 0 /\ verdict = "none" /\ layer \in Layers /\ next \in Nat /\ next \notin Executable(layer)
      /\ UNCHANGED <<loadedVars, phase, layer, step, baseline, evidence, verdict>> /\ next' = next + 1
      /\ step' = "spec"
  BY AtWork DEF SkipSpec, Executable, ThisTest, Running
<1>2. GatesTypeInv'
  BY <1>1 DEF GateInv, GatesTypeInv
<1> QED
  BY <1>1, <1>2, Advance

\* A denied command is recorded as one that did not end as expected.
LEMMA DenySpecKeeps == ASSUME GateInv, PlanInv', DenySpec PROVE GateInv'
<1>1. phase # 0 /\ verdict = "none" /\ layer \in Layers /\ next \in Executable(layer)
  BY AtWork DEF DenySpec, Executable, ThisTest
<1>2. Push("other", "policy_denied")
  BY DEF DenySpec
<1> QED
  BY <1>1, <1>2, PushKeeps DEF Exits, Classes, Passing

\* An error is no verdict on the tests.
LEMMA GatesErrKeeps == ASSUME GateInv, PlanInv', GatesErr PROVE GateInv'
<1>1. /\ phase # 0 /\ UNCHANGED <<loadedVars, phase, layer, next, step, baseline, evidence>> /\ verdict' = "error"
  BY AtWork DEF GatesErr
<1>2. GatesTypeInv' /\ VerdictMatchesRuns'
  BY <1>1 DEF GateInv, GatesTypeInv, VerdictMatchesRuns
<1>3. StepInv'
  BY <1>1, SamePhase DEF GateInv, StepInv
<1> QED
  BY <1>1, <1>2, <1>3, SamePlace

\* The baseline is not a record.
LEMMA RunBaselineKeeps == ASSUME GateInv, PlanInv', RunBaseline PROVE GateInv'
<1>1. /\ phase # 0 /\ verdict = "none" /\ layer \in Layers /\ next \in Executable(layer)
      /\ UNCHANGED <<loadedVars, phase, layer, next, evidence, verdict>> /\ step' = "first"
      /\ baseline' \in Exits \cup {"none"}
  BY AtWork DEF RunBaseline, Executable, ThisTest
<1>2. GatesTypeInv' /\ VerdictMatchesRuns'
  BY <1>1 DEF GateInv, GatesTypeInv, VerdictMatchesRuns
<1>3. StepInv'
  BY <1>1, SamePhase DEF StepInv
<1> QED
  BY <1>1, <1>2, <1>3, SamePlace

\* The first run after the baseline is recorded, unless it is to be tried again.
LEMMA RunFirstKeeps == ASSUME GateInv, PlanInv', NEW exit \in Exits, RunFirst(exit) PROVE GateInv'
<1>1. phase # 0 /\ verdict = "none" /\ layer \in Layers /\ next \in Executable(layer)
  BY AtWork DEF RunFirst, Running, GateInv, StepInv
<1>2. CASE ClassifyBaseline(exit) # "fail" /\ Push(exit, ClassifyBaseline(exit))
  <2>1. ClassifyBaseline(exit) \in Classes /\ (ClassifyBaseline(exit) \in Passing <=> exit = "expected")
    BY DEF ClassifyBaseline, Classes, Passing, Exits
  <2> QED
    BY <1>1, <1>2, <2>1, PushKeeps
<1>3. CASE step' = "retry" /\ UNCHANGED <<loadedVars, phase, layer, next, baseline, evidence, verdict>>
  <2>1. GatesTypeInv' /\ VerdictMatchesRuns'
    BY <1>1, <1>3 DEF GateInv, GatesTypeInv, VerdictMatchesRuns
  <2>2. StepInv'
    BY <1>1, <1>3, SamePhase DEF StepInv
  <2> QED
    BY <1>1, <1>3, <2>1, <2>2, SamePlace
<1> QED
  BY <1>2, <1>3 DEF RunFirst

\* The retry is recorded as it ended.
LEMMA RetryKeeps == ASSUME GateInv, PlanInv', NEW exit \in Exits, Retry(exit) PROVE GateInv'
<1> DEFINE class == IF exit = "expected" THEN "flaky_pass" ELSE "flaky_fail"
<1>1. phase # 0 /\ verdict = "none" /\ layer \in Layers /\ next \in Executable(layer)
  BY AtWork DEF Retry, Running, GateInv, StepInv
<1>2. Push(exit, class)
  BY DEF Retry
<1>3. class \in Classes /\ (class \in Passing <=> exit = "expected")
  BY DEF Classes, Passing
<1> HIDE DEF class
<1> QED
  BY <1>1, <1>2, <1>3, PushKeeps

\* Behind the last test of a layer is every test of it.
LEMMA NextLayerKeeps == ASSUME GateInv, PlanInv', NextLayer PROVE GateInv'
<1>1. /\ phase # 0 /\ verdict = "none" /\ layer \in Layers /\ next \notin DOMAIN Tests(layer)
      /\ UNCHANGED <<loadedVars, phase, step, baseline, evidence, verdict>> /\ layer' = layer + 1 /\ next' = 1
  BY DEF NextLayer
<1>2. /\ plan' = plan /\ PhaseInv' /\ PlanOK /\ phase \in DOMAIN plan
      /\ \A l : Executable(l)' = Executable(l) /\ Tests(l)' = Tests(l)
  BY <1>1, SamePhase
<1>3. GatesTypeInv'
  BY <1>1 DEF GateInv, GatesTypeInv, Layers
<1>4. step' = "spec"
  BY <1>1 DEF GateInv, StepInv, GatesTypeInv, Executable
<1>5. ASSUME NEW l \in Layers, NEW k \in Executable(l), l < layer' \/ (l = layer' /\ k < next')
      PROVE  \E e \in evidence : e.layer = l /\ e.test = k
  <2>1. Len(Tests(l)) \in Nat /\ k \in 1..Len(Tests(l)) /\ DOMAIN Tests(l) = 1..Len(Tests(l))
    BY <1>2, TestsAreList DEF Executable, Tests
  <2>2. l < layer \/ l = layer
    BY <1>1, <1>5, <2>1 DEF Layers
  <2>3. l = layer => k < next
    BY <1>1, <2>1 DEF GateInv, GatesTypeInv
  <2> QED
    BY <1>1, <2>2, <2>3 DEF GateInv, EvidenceInv, Behind
<1>6. EvidenceInv'
  BY <1>1, <1>2, <1>5 DEF GateInv, EvidenceInv, Behind, RecordTrue
<1> QED
  BY <1>1, <1>2, <1>3, <1>4, <1>6 DEF GateInv, StepInv, VerdictMatchesRuns

\* At the end every test that applies has a record, of which the verdict is taken.
LEMMA ReportKeeps == ASSUME GateInv, PlanInv', Report PROVE GateInv'
<1>1. /\ phase # 0 /\ layer = 4 /\ UNCHANGED <<loadedVars, phase, layer, next, step, baseline, evidence>>
      /\ verdict' \in {"passed", "blocked"}
  BY DEF Report
<1>2. /\ plan' = plan /\ phase \in DOMAIN plan
      /\ \A l : Executable(l)' = Executable(l) /\ Tests(l)' = Tests(l)
  BY <1>1, SamePhase
<1>3. \A l \in Layers : \A k \in Executable(l) : \E e \in evidence : e.layer = l /\ e.test = k
  BY <1>1 DEF GateInv, EvidenceInv, Behind, Layers
<1>4. \A e \in evidence : RecordTrue(e)
  BY <1>1 DEF GateInv, EvidenceInv
<1>5. ASSUME verdict' = "passed"
      PROVE  /\ \A l \in Layers : LayerPassed(l)
             /\ \A c \in Elements(plan[phase].criteria) : Covered(c)
  BY <1>5 DEF Report
<1>6. ASSUME verdict' = "passed" PROVE \A e \in evidence : e.exit = "expected"
  <2> SUFFICES ASSUME NEW e \in evidence PROVE e.exit = "expected"
    OBVIOUS
  <2>1. e.layer \in Layers /\ e.test \in Executable(e.layer) /\ e \in Executed(e.layer)
    BY <1>4 DEF RecordTrue, Executed
  <2>2. e.class \in Passing
    BY <1>5, <1>6, <2>1 DEF LayerPassed
  <2> QED
    BY <1>4, <2>2 DEF RecordTrue
<1>7. ASSUME verdict' = "passed", NEW c \in Elements(plan[phase].criteria)
      PROVE  \E l \in Layers : \E k \in Executable(l) : c \in Tests(l)[k].covers
  <2>1. PICK e \in evidence : c \in TestOf(e).covers
    BY <1>5, <1>7 DEF Covered
  <2> QED
    BY <1>4, <2>1 DEF RecordTrue, TestOf, Tests
<1>8. ASSUME verdict' = "blocked", \A e \in evidence : e.exit # "other"
      PROVE  \E c \in Elements(plan[phase].criteria) :
               \A l \in Layers : \A k \in Executable(l) : c \notin Tests(l)[k].covers
  <2>1. \A e \in evidence : e.class \in Passing
    BY <1>4, <1>8 DEF RecordTrue, Exits
  <2>2. \A l \in Layers : LayerPassed(l)
    BY <1>3, <2>1 DEF LayerPassed, Executed
  <2>3. PICK c \in Elements(plan[phase].criteria) : ~Covered(c)
    BY <1>8, <2>2 DEF Report
  <2>4. ASSUME NEW l \in Layers, NEW k \in Executable(l) PROVE c \notin Tests(l)[k].covers
    <3>1. PICK e \in evidence : e.layer = l /\ e.test = k
      BY <1>3
    <3>2. e.class \notin Blocking
      BY <2>1 DEF Passing, Blocking
    <3> QED
      BY <2>3, <3>1, <3>2 DEF Covered, TestOf, Tests
  <2> QED
    BY <2>4
<1>9. VerdictMatchesRuns'
  BY <1>1, <1>2, <1>3, <1>4, <1>6, <1>7, <1>8 DEF VerdictMatchesRuns, RecordTrue
<1>10. GatesTypeInv' /\ StepInv'
  BY <1>1, <1>2 DEF GateInv, GatesTypeInv, StepInv
<1> QED
  BY <1>1, <1>9, <1>10, SamePlace

\* Every step of the gates, and every one before them.
LEMMA GateStep == ASSUME GateInv, [GatesNext]_<<loadedVars, gateVars>> PROVE GateInv'
<1>1. PlanInv'
  BY PlanStep DEF GateInv
<1>2. CASE PlanNext /\ UNCHANGED <<loadVars, gateVars>>
  BY <1>1, <1>2, BeforeGates
<1>3. CASE LoadStep /\ UNCHANGED gateVars
  BY <1>1, <1>3, BeforeGates
<1>4. CASE UNCHANGED <<loadedVars, gateVars>>
  BY <1>1, <1>4, BeforeGates
<1>5. CASE Gate
  BY <1>1, <1>5, BeginGatesKeeps, SkipSpecKeeps, DenySpecKeeps, GatesErrKeeps, RunBaselineKeeps, RunFirstKeeps,
     RetryKeeps, NextLayerKeeps, ReportKeeps DEF Gate
<1> QED
  BY <1>2, <1>3, <1>4, <1>5 DEF GatesNext

\* Gates that pass have run every test that applies, each ended as expected, and cover every
\* criterion; gates that block have a test that did not, or a criterion no test covers
\* (run_phase_gates of verification/runner.rs).
THEOREM VerdictIsEarned == GatesSpec => []VerdictMatchesRuns
<1>1. GateInv => VerdictMatchesRuns
  BY DEF GateInv
<1> QED
  BY <1>1, InitGates, GateStep, PTL DEF GatesSpec

(***************************************************************************)
(* The search of the scheduler.  The path is one of phases of which each   *)
(* waits for the one before it, so a phase met again would close a circle. *)
(***************************************************************************)
Calls == [node : Ids, todo : SUBSET Entries]

PathOK(p) ==
  /\ p \in Seq(Calls)
  /\ \A i \in DOMAIN p : p[i].todo \subseteq Outgoing(p[i].node)
  /\ \A i, j \in DOMAIN p : j = i + 1 => p[i].node \in Predecessors(p[j].node)

Nodes(p) == {p[i].node : i \in DOMAIN p}

NeverRefused == load # "refused"

LoadInv ==
  /\ NeverRefused
  /\ load = "none" => path = <<>> /\ visiting = {}
  /\ load # "none" => PathOK(path) /\ visiting \subseteq Nodes(path)

\* Without the call at work the path is one still.
LEMMA OuterOK ==
  ASSUME PathOK(path), path # <<>>
  PROVE  /\ Len(path) \in Nat \ {0} /\ Here \in Calls /\ Here.todo \subseteq Outgoing(Here.node)
         /\ PathOK(Outer) /\ Nodes(path) = Nodes(Outer) \cup {Here.node}
         /\ Outer # <<>> => Outer[Len(Outer)].node \in Predecessors(Here.node)
<1>1. path \in Seq(Calls) /\ Len(path) \in Nat \ {0} /\ DOMAIN path = 1..Len(path)
  BY DEF PathOK
<1>2. /\ Outer \in Seq(Calls) /\ Len(Outer) = Len(path) - 1 /\ DOMAIN Outer = 1..(Len(path) - 1)
      /\ \A i \in DOMAIN Outer : Outer[i] = path[i]
  BY <1>1 DEF Outer
<1>3. Here \in Calls /\ Here.todo \subseteq Outgoing(Here.node)
  BY <1>1 DEF Here, PathOK
<1>4. PathOK(Outer)
  <2>1. \A i \in DOMAIN Outer : i \in DOMAIN path /\ Outer[i] = path[i]
    BY <1>1, <1>2
  <2> QED
    BY <1>2, <2>1 DEF PathOK
<1>5. Nodes(path) = Nodes(Outer) \cup {Here.node}
  <2>1. \A i \in DOMAIN path : i = Len(path) \/ i \in DOMAIN Outer
    BY <1>1, <1>2
  <2>2. Len(path) \in DOMAIN path /\ \A i \in DOMAIN Outer : i \in DOMAIN path
    BY <1>1, <1>2
  <2> QED
    BY <1>2, <2>1, <2>2 DEF Nodes, Here
<1>6. Outer # <<>> => Outer[Len(Outer)].node \in Predecessors(Here.node)
  <2> SUFFICES ASSUME Outer # <<>> PROVE Outer[Len(Outer)].node \in Predecessors(Here.node)
    OBVIOUS
  <2>1. Len(path) - 1 \in DOMAIN Outer /\ Len(path) - 1 \in DOMAIN path /\ Len(path) \in DOMAIN path
    BY <1>1, <1>2
  <2>2. path[Len(path) - 1].node \in Predecessors(path[Len(path)].node)
    <3>1. Len(path) = (Len(path) - 1) + 1
      BY <1>1
    <3> QED
      BY <2>1, <3>1 DEF PathOK
  <2> QED
    BY <1>2, <2>1, <2>2 DEF Here
<1> QED
  BY <1>1, <1>3, <1>4, <1>5, <1>6

\* A call of a phase that waits for the one at work makes the path longer.
LEMMA AppendOK ==
  ASSUME NEW p, PathOK(p), NEW c \in Calls, c.todo \subseteq Outgoing(c.node),
         p # <<>> => p[Len(p)].node \in Predecessors(c.node)
  PROVE  /\ PathOK(Append(p, c)) /\ Nodes(Append(p, c)) = Nodes(p) \cup {c.node}
         /\ Append(p, c) # <<>> /\ Append(p, c)[Len(Append(p, c))] = c
<1> DEFINE q == Append(p, c)
<1>1. p \in Seq(Calls) /\ Len(p) \in Nat /\ DOMAIN p = 1..Len(p)
  BY DEF PathOK
<1>2. /\ q \in Seq(Calls) /\ Len(q) = Len(p) + 1 /\ DOMAIN q = 1..(Len(p) + 1) /\ q # <<>>
      /\ q[Len(p) + 1] = c /\ \A i \in 1..Len(p) : q[i] = p[i]
  BY <1>1
<1> HIDE DEF q
<1>3. \A i \in DOMAIN q : q[i].todo \subseteq Outgoing(q[i].node)
  BY <1>1, <1>2 DEF PathOK
<1>4. ASSUME NEW i \in DOMAIN q, NEW j \in DOMAIN q, j = i + 1 PROVE q[i].node \in Predecessors(q[j].node)
  <2>1. CASE j \in 1..Len(p)
    <3>1. i \in 1..Len(p)
      BY <1>1, <1>2, <1>4, <2>1
    <3> QED
      BY <1>1, <1>2, <1>4, <2>1, <3>1 DEF PathOK
  <2>2. CASE j = Len(p) + 1
    <3>1. i = Len(p) /\ i \in 1..Len(p)
      BY <1>1, <1>2, <1>4, <2>2
    <3>2. p # <<>>
      BY <1>1, <3>1
    <3> QED
      BY <1>2, <2>2, <3>1, <3>2
  <2> QED
    BY <1>1, <1>2, <2>1, <2>2
<1>5. PathOK(q)
  BY <1>2, <1>3, <1>4 DEF PathOK
<1>6. Nodes(q) = Nodes(p) \cup {c.node}
  <2>1. \A i \in DOMAIN q : i = Len(p) + 1 \/ i \in DOMAIN p
    BY <1>1, <1>2
  <2>2. Len(p) + 1 \in DOMAIN q /\ \A i \in DOMAIN p : i \in DOMAIN q /\ q[i] = p[i]
    BY <1>1, <1>2
  <2> QED
    BY <1>2, <2>1, <2>2 DEF Nodes
<1> QED
  BY <1>1, <1>2, <1>5, <1>6 DEF q

\* The phases from one on the path to the one at work wait for each other if it waits for the last.
LEMMA NoWayBack ==
  ASSUME PlanInv, at = "accepted", PathOK(path), path # <<>>, NEW n \in Nodes(path)
  PROVE  Here.node \notin Predecessors(n)
<1> SUFFICES ASSUME Here.node \in Predecessors(n) PROVE FALSE
  OBVIOUS
<1>1. path \in Seq(Calls) /\ Len(path) \in Nat \ {0} /\ DOMAIN path = 1..Len(path)
  BY DEF PathOK
<1>2. PICK k \in DOMAIN path : path[k].node = n
  BY DEF Nodes
<1> DEFINE S == {path[i].node : i \in k..Len(path)}
<1>3. S \in SUBSET Ids /\ n \in S
  <2>1. k \in k..Len(path)
    BY <1>1, <1>2
  <2>2. \A i \in k..Len(path) : i \in DOMAIN path
    BY <1>1, <1>2
  <2>3. ASSUME NEW i \in DOMAIN path PROVE path[i].node \in Ids
    <3>1. path[i] \in Calls
      BY <1>1
    <3>2. \A c \in Calls : c.node \in Ids
      BY DEF Calls
    <3> QED
      BY <3>1, <3>2
  <2> QED
    BY <1>2, <2>1, <2>2, <2>3
<1>4. ASSUME NEW m \in S PROVE Predecessors(m) \cap S # {}
  <2>1. PICK i \in k..Len(path) : path[i].node = m
    OBVIOUS
  <2>2. CASE i = k
    <3>1. Here.node \in S
      BY <1>1, <1>2 DEF Here
    <3> QED
      BY <1>2, <2>1, <2>2, <3>1
  <2>3. CASE i # k
    <3>1. i - 1 \in k..Len(path) /\ i - 1 \in DOMAIN path /\ i \in DOMAIN path /\ i = (i - 1) + 1
      BY <1>1, <1>2, <2>1, <2>3
    <3>2. path[i - 1].node \in Predecessors(path[i].node)
      BY <3>1 DEF PathOK
    <3>3. path[i - 1].node \in S
      BY <3>1
    <3> QED
      BY <2>1, <3>2, <3>3
  <2> QED
    BY <2>2, <2>3
<1> HIDE DEF S
<1>5. \E m \in S : Predecessors(m) \cap S = {}
  BY <1>3, DecidedIsOrdered DEF AcceptedIsOrdered, Decided
<1> QED
  BY <1>4, <1>5

\* The call of a phase that waits for the last on the path, or of any with nothing on it.
LEMMA CallKeeps ==
  ASSUME PlanInv, at = "accepted", UNCHANGED planVars, load = "search",
         NEW p, PathOK(p), visiting \subseteq Nodes(p), NEW n \in Ids \ visiting, Call(n, p),
         p # <<>> => p[Len(p)].node \in Predecessors(n)
  PROVE  LoadInv'
<1>1. plan' = plan /\ \A q : PathOK(q)' <=> PathOK(q')
  BY DEF planVars, PathOK, Calls, Ids, Entries, Outgoing, From, Predecessors
<1>2. CASE path' = p /\ UNCHANGED <<load, visiting>>
  <2>1. PathOK(path') /\ visiting' \subseteq Nodes(path')
    BY <1>2
  <2> QED
    BY <1>1, <1>2, <2>1 DEF LoadInv, NeverRefused, Nodes
<1>3. CASE path' = Append(p, [node |-> n, todo |-> Outgoing(n)]) /\ visiting' = visiting \cup {n} /\ load' = load
  <2> DEFINE c == [node |-> n, todo |-> Outgoing(n)]
  <2>1. c \in Calls /\ c.node = n /\ c.todo \subseteq Outgoing(c.node)
    BY DEF Calls, Outgoing
  <2> HIDE DEF c
  <2>2. PathOK(Append(p, c)) /\ Nodes(Append(p, c)) = Nodes(p) \cup {n}
    BY <2>1, AppendOK
  <2>3. path' = Append(p, c)
    BY <1>3 DEF c
  <2>4. PathOK(path') /\ visiting' \subseteq Nodes(path')
    BY <1>3, <2>2, <2>3
  <2> QED
    BY <1>1, <1>3, <2>4 DEF LoadInv, NeverRefused, Nodes
<1> QED
  BY <1>2, <1>3 DEF Call

\* Nothing is on the path when a phase is searched from.
LEMMA SearchFromKeeps == ASSUME GateInv, LoadInv, SearchFrom PROVE LoadInv'
<1>1. /\ PlanInv /\ at = "accepted" /\ UNCHANGED planVars /\ load = "search" /\ path = <<>>
      /\ start \in DOMAIN plan /\ Call(plan[start].id, <<>>)
  BY DEF SearchFrom, GateInv, PhaseInv
<1>2. PathOK(<<>>) /\ visiting \subseteq Nodes(<<>>)
  BY <1>1 DEF LoadInv
<1>3. plan[start].id \in Ids \ visiting
  <2>1. plan[start].id \in Ids
    BY <1>1 DEF Ids, Elements
  <2>2. Nodes(<<>>) = {}
    BY DEF Nodes
  <2> QED
    BY <1>2, <2>1, <2>2
<1> QED
  BY <1>1, <1>2, <1>3, CallKeeps

\* A phase met along an entry is not on the path.
LEMMA FollowKeeps == ASSUME GateInv, LoadInv, NEW e \in Here.todo, Follow(e) PROVE LoadInv'
<1> DEFINE c == [Here EXCEPT !.todo = @ \ {e}]
           p == Append(Outer, c)
<1>1. PlanInv /\ at = "accepted" /\ UNCHANGED planVars /\ load = "search" /\ path # <<>> /\ Call(To(e), p)
  BY DEF Follow, GateInv, PhaseInv
<1>2. PathOK(path) /\ visiting \subseteq Nodes(path)
  BY <1>1 DEF LoadInv
<1>3. /\ Here \in Calls /\ Here.todo \subseteq Outgoing(Here.node) /\ PathOK(Outer)
      /\ Nodes(path) = Nodes(Outer) \cup {Here.node}
      /\ Outer # <<>> => Outer[Len(Outer)].node \in Predecessors(Here.node)
  BY <1>1, <1>2, OuterOK
<1>4. c \in Calls /\ c.node = Here.node /\ c.todo \subseteq Outgoing(c.node)
  BY <1>3 DEF Calls
<1> HIDE DEF c
<1>5. PathOK(p) /\ Nodes(p) = Nodes(path) /\ p # <<>> /\ p[Len(p)] = c
  BY <1>3, <1>4, AppendOK
<1>6. To(e) \in Ids /\ Here.node \in Predecessors(To(e))
  <2>1. e \in Entries /\ From(e) = Here.node
    BY <1>3 DEF Outgoing
  <2> QED
    BY <2>1, EntryEnds
<1>7. To(e) \notin Nodes(path)
  BY <1>1, <1>2, <1>6, NoWayBack
<1> HIDE DEF p
<1>8. visiting \subseteq Nodes(p) /\ To(e) \in Ids \ visiting /\ p[Len(p)].node \in Predecessors(To(e))
  BY <1>2, <1>4, <1>5, <1>6, <1>7
<1> QED
  BY <1>1, <1>5, <1>8, CallKeeps

\* What is done leaves the path.
LEMMA LeaveKeeps == ASSUME GateInv, LoadInv, Leave PROVE LoadInv'
<1>1. /\ UNCHANGED <<planVars, load>> /\ load = "search" /\ path # <<>> /\ path' = Outer
      /\ visiting' = visiting \ {Here.node}
  BY DEF Leave
<1>2. PathOK(path) /\ visiting \subseteq Nodes(path)
  BY <1>1 DEF LoadInv
<1>3. PathOK(Outer) /\ Nodes(path) = Nodes(Outer) \cup {Here.node}
  BY <1>1, <1>2, OuterOK
<1>4. plan' = plan /\ \A q : PathOK(q)' <=> PathOK(q')
  BY <1>1 DEF planVars, PathOK, Calls, Ids, Entries, Outgoing, From, Predecessors
<1>5. PathOK(path') /\ visiting' \subseteq Nodes(path')
  BY <1>1, <1>2, <1>3
<1> QED
  BY <1>1, <1>4, <1>5 DEF LoadInv, NeverRefused, Nodes

\* An accepted plan depends on phases of the plan only.
LEMMA BeginLoadKeeps == ASSUME GateInv, LoadInv, BeginLoad PROVE LoadInv'
<1>1. /\ at = "accepted" /\ load = "none" /\ load' = IF UnknownDependency THEN "refused" ELSE "search"
      /\ UNCHANGED <<path, visiting>>
  BY DEF BeginLoad
<1>2. ~UnknownDependency
  BY <1>1 DEF GateInv, PlanInv, Decided
<1>3. path' = <<>> /\ visiting' = {}
  BY <1>1 DEF LoadInv
<1> QED
  BY <1>1, <1>2, <1>3 DEF LoadInv, NeverRefused, PathOK, Nodes

\* Nothing else touches the search.
LEMMA SearchLeftAlone ==
  ASSUME GateInv, LoadInv, \/ PlanNext /\ UNCHANGED <<loadVars, gateVars>>
                           \/ LoadPhases \/ Gate \/ UNCHANGED <<loadedVars, gateVars>>
  PROVE  LoadInv'
<1>1. UNCHANGED <<path, visiting>> /\ (load' = load \/ (load = "search" /\ load' = "loaded"))
  BY DEF loadVars, LoadPhases, Gate, BeginGates, SkipSpec, DenySpec, GatesErr, RunBaseline, RunFirst, Retry,
         NextLayer, Report, Push, loadedVars
<1>2. load # "none" => plan' = plan
  <2>1. CASE PlanNext
    BY <2>1 DEF GateInv, PhaseInv, PlanNext, Compile, CheckSchema, CheckPlan, PopPhase, Verdict, BootstrapProject,
                BootstrapFails, Accept
  <2>2. CASE LoadPhases \/ Gate \/ UNCHANGED <<loadedVars, gateVars>>
    <3>1. UNCHANGED planVars
      BY <2>2, PlanLeftAlone DEF LoadStep
    <3> QED
      BY <3>1 DEF planVars
  <2> QED
    BY <2>1, <2>2
<1>3. CASE load = "none"
  BY <1>1, <1>3 DEF LoadInv, NeverRefused
<1>4. CASE load # "none"
  <2>1. PathOK(path)' /\ (visiting \subseteq Nodes(path))'
    BY <1>1, <1>2, <1>4 DEF LoadInv, PathOK, Calls, Ids, Entries, Outgoing, From, Predecessors, Nodes
  <2> QED
    BY <1>1, <1>4, <2>1 DEF LoadInv, NeverRefused
<1> QED
  BY <1>3, <1>4

\* The scheduler never refuses a plan the planner has accepted, whatever the order in which its
\* search meets the phases (validate_dag of scheduler/dag.rs against the one of planner/validate.rs).
THEOREM AcceptedIsNeverRefused == GatesSpec => []NeverRefused
<1>1. GatesInit => LoadInv
  BY DEF GatesInit, LoadInit, LoadInv, NeverRefused
<1>2. ASSUME GateInv, LoadInv, [GatesNext]_<<loadedVars, gateVars>> PROVE LoadInv'
  <2>1. CASE LoadStep
    BY <1>2, <2>1, BeginLoadKeeps, SearchFromKeeps, LeaveKeeps, FollowKeeps, SearchLeftAlone DEF LoadStep
  <2> QED
    BY <1>2, <2>1, SearchLeftAlone DEF GatesNext
<1>3. LoadInv => NeverRefused
  BY DEF LoadInv
<1> QED
  BY <1>1, <1>2, <1>3, InitGates, GateStep, PTL DEF GatesSpec

(***************************************************************************)
(* The lengths of the rows.  What a phase's length is taken from is known  *)
(* when the phases are looked at from the last to the first, and a chain   *)
(* goes on from a phase with one of those that depend on it.               *)
(***************************************************************************)
Followers(n) == {To(e) : e \in Outgoing(n)}

\* No phase of a finite plan waits for itself, directly or not.
Ordered ==
  /\ IsFiniteSet(Ids) /\ \A n \in Ids : Predecessors(n) \subseteq Ids
  /\ \A S \in SUBSET Ids : S # {} => \E n \in S : Predecessors(n) \cap S = {}

\* A family of subsets of a finite set has one that lies within no other of it.
LEMMA LargestSet ==
  ASSUME NEW S, IsFiniteSet(S), NEW F, F \subseteq SUBSET S, F # {}
  PROVE  \E x \in F : \A y \in F : x \subseteq y => y = x
<1> DEFINE R == StrictSubsetOrdering(S)
           C == {S \ x : x \in F}
<1>1. C \subseteq FiniteSubsetsOf(S) /\ C # {}
  <2>1. \A x \in F : S \ x \in SUBSET S /\ S \ x \in C
    OBVIOUS
  <2>2. \A c \in C : c \in SUBSET S
    OBVIOUS
  <2> HIDE DEF C
  <2> QED
    BY <2>1, <2>2, FS_FiniteSubsetsOfFinite
<1>2. \E c \in C : \A d \in C : <<d, c>> \notin R
  <2>1. IsWellFoundedOn(R, FiniteSubsetsOf(S))
    BY FS_StrictSubsetOrderingWellFounded
  <2> HIDE DEF R, C
  <2> QED
    BY <1>1, <2>1, WFMin
<1>3. PICK x \in F : \A d \in C : <<d, S \ x>> \notin R
  BY <1>2
<1>4. ASSUME NEW y \in F, x \subseteq y PROVE y = x
  <2>1. S \ y \in C /\ S \ y \in SUBSET S /\ S \ x \in SUBSET S /\ S \ y \subseteq S \ x
    BY <1>4
  <2>2. S \ y = S \ x
    BY <1>3, <2>1 DEF StrictSubsetOrdering
  <2> QED
    BY <2>2
<1> QED
  BY <1>4

\* A finite set of numbers has a greatest one.
LEMMA MaxIs ==
  ASSUME NEW T, T \subseteq Nat, IsFiniteSet(T), T # {}
  PROVE  Max(T) \in T /\ \A m \in T : m <= Max(T)
<1> DEFINE Upto(j) == {i \in T : i <= j}
           F == {Upto(j) : j \in T}
<1>1. F \subseteq SUBSET T /\ F # {}
  OBVIOUS
<1>2. \E x \in F : \A y \in F : x \subseteq y => y = x
  <2> HIDE DEF F
  <2> QED
    BY ONLY IsFiniteSet(T), <1>1, LargestSet
<1> PICK x \in F : \A y \in F : x \subseteq y => y = x
  BY <1>2
<1>3. PICK n \in T : x = Upto(n)
  OBVIOUS
<1>4. ASSUME NEW m \in T PROVE m <= n
  <2>1. m \in Nat /\ n \in Nat
    OBVIOUS
  <2>2. CASE n < m
    <3>1. \A i \in T : i <= n => i <= m
      BY <2>2
    <3>2. Upto(n) \subseteq Upto(m)
      BY <3>1
    <3>3. m \in Upto(m) /\ m \notin Upto(n)
      BY <2>1, <2>2
    <3>4. Upto(m) \in F
      OBVIOUS
    <3> QED
      BY <1>3, <3>2, <3>3, <3>4
  <2> QED
    BY <2>1, <2>2
<1>5. \E z \in T : \A y \in T : z >= y
  BY <1>4
<1> QED
  BY <1>5 DEF Max

\* What follows a phase are the phases that depend on it.
LEMMA FollowersAre == ASSUME NEW n \in Ids PROVE Followers(n) = {m \in Ids : n \in Predecessors(m)}
<1>1. ASSUME NEW m \in Followers(n) PROVE m \in Ids /\ n \in Predecessors(m)
  <2>1. PICK e \in Entries : From(e) = n /\ To(e) = m
    BY DEF Followers, Outgoing
  <2> QED
    BY <2>1, EntryEnds
<1>2. ASSUME NEW m \in Ids, n \in Predecessors(m) PROVE m \in Followers(n)
  <2>1. PICK e \in Entries : From(e) = n /\ To(e) = m
    BY <1>2, PredecessorEntry
  <2> QED
    BY <2>1 DEF Followers, Outgoing
<1> QED
  BY <1>1, <1>2

\* Of any phases of the plan, one is followed by none of the others: of the sets that are closed
\* backwards and in which that holds, the largest is the plan.
LEMMA LastOf ==
  ASSUME Ordered, NEW S \in SUBSET Ids, S # {}
  PROVE  \E n \in S : Followers(n) \cap S = {}
<1> DEFINE Last(T) == \E n \in T : \A m \in T : n \notin Predecessors(m)
           F == {A \in SUBSET Ids : Closed(A) /\ \A T \in SUBSET A : T # {} => Last(T)}
<1>1. F \subseteq SUBSET Ids /\ F # {}
  <2>1. {} \in F
    BY DEF Closed
  <2> QED
    BY <2>1
<1>2. \E A \in F : \A B \in F : A \subseteq B => B = A
  <2> HIDE DEF F
  <2> QED
    BY <1>1, LargestSet DEF Ordered
<1>3. PICK A \in F : \A B \in F : A \subseteq B => B = A
  BY <1>2
<1>4. A = Ids
  <2> SUFFICES ASSUME A # Ids PROVE FALSE
    OBVIOUS
  <2>1. Ids \ A \in SUBSET Ids /\ Ids \ A # {}
    OBVIOUS
  <2>2. PICK n \in Ids \ A : Predecessors(n) \cap (Ids \ A) = {}
    BY <2>1 DEF Ordered
  <2>3. Predecessors(n) \subseteq A
    BY <2>2 DEF Ordered
  <2> DEFINE B == A \cup {n}
  <2>4. B \in SUBSET Ids /\ Closed(B)
    BY <2>3 DEF Closed
  <2>5. ASSUME NEW T \in SUBSET B, T # {} PROVE Last(T)
    <3>1. CASE n \in T
      <4>1. \A m \in T : n \notin Predecessors(m)
        BY <2>2, <2>3 DEF Closed
      <4> QED
        BY <3>1, <4>1
    <3>2. CASE n \notin T
      <4>1. T \in SUBSET A
        BY <3>2
      <4> QED
        BY <2>5, <4>1
    <3> QED
      BY <3>1, <3>2
  <2>6. B \in F
    BY <2>4, <2>5
  <2> QED
    BY <1>3, <2>2, <2>6
<1>5. Last(S)
  BY <1>4
<1>6. PICK n \in S : \A m \in S : n \notin Predecessors(m)
  BY <1>5
<1>7. Followers(n) \cap S = {}
  BY <1>6, FollowersAre
<1> QED
  BY <1>7

\* One more than the greatest length that follows.
Length(f, n) == IF Outgoing(n) = {} THEN 1 ELSE 1 + Max({f[m] : m \in Followers(n)})

\* ... which is a number when the lengths that follow are, and depends on nothing else.
LEMMA LengthIs ==
  ASSUME Ordered, NEW n \in Ids, NEW f, \A m \in Followers(n) : f[m] \in Nat
  PROVE  /\ Length(f, n) \in Nat
         /\ Followers(n) = {} => Length(f, n) = 1
         /\ \A m \in Followers(n) : f[m] + 1 <= Length(f, n)
         /\ Followers(n) # {} => \E m \in Followers(n) : Length(f, n) = f[m] + 1
<1> DEFINE T == {f[m] : m \in Followers(n)}
<1>1. Outgoing(n) = {} <=> Followers(n) = {}
  BY DEF Followers
<1>2. IsFiniteSet(T) /\ T \subseteq Nat
  <2>1. IsFiniteSet(Followers(n))
    <3>1. Followers(n) \in SUBSET Ids
      BY FollowersAre
    <3> QED
      BY <3>1, FS_Subset DEF Ordered
  <2>2. [m \in Followers(n) |-> f[m]] \in Surjection(Followers(n), T)
    BY DEF Surjection
  <2> QED
    BY <2>1, <2>2, FS_Surjection
<1>3. CASE Followers(n) = {}
  BY <1>1, <1>3 DEF Length
<1>4. CASE Followers(n) # {}
  <2>1. Length(f, n) = 1 + Max(T) /\ T # {}
    BY <1>1, <1>4 DEF Length
  <2>2. Max(T) \in T /\ \A m \in T : m <= Max(T)
    <3> HIDE DEF T
    <3> QED
      BY <1>2, <2>1, MaxIs
  <2>3. PICK m \in Followers(n) : Max(T) = f[m]
    BY <2>2
  <2>4. \A k \in Followers(n) : f[k] <= Max(T)
    BY <2>2
  <2> HIDE DEF T
  <2> QED
    BY <1>4, <2>1, <2>3, <2>4
<1> QED
  BY <1>3, <1>4

\* The lengths are defined: of the sets that are closed forwards and have lengths, the largest is
\* the plan.
LEMMA LongestDefined ==
  ASSUME Ordered
  PROVE  Longest \in [Ids -> Nat] /\ \A n \in Ids : Longest[n] = Length(Longest, n)
<1> DEFINE Lengths(A) == {f \in [A -> Nat] : \A n \in A : f[n] = Length(f, n)}
           F == {A \in SUBSET Ids : (\A n \in A : Followers(n) \subseteq A) /\ Lengths(A) # {}}
<1>1. F \subseteq SUBSET Ids /\ F # {}
  <2>1. [n \in {} |-> 0] \in Lengths({})
    OBVIOUS
  <2>2. {} \in F
    <3> HIDE DEF Lengths
    <3> QED
      BY <2>1
  <2> QED
    BY <2>2
<1>2. \E A \in F : \A B \in F : A \subseteq B => B = A
  <2> HIDE DEF F
  <2> QED
    BY <1>1, LargestSet DEF Ordered
<1>3. PICK A \in F : \A B \in F : A \subseteq B => B = A
  BY <1>2
<1>4. A = Ids
  <2> SUFFICES ASSUME A # Ids PROVE FALSE
    OBVIOUS
  <2>1. Ids \ A \in SUBSET Ids /\ Ids \ A # {}
    OBVIOUS
  <2>2. PICK n \in Ids \ A : Followers(n) \cap (Ids \ A) = {}
    BY <2>1, LastOf
  <2>3. Followers(n) \subseteq A
    BY <2>2, FollowersAre
  <2>4. \A m \in A : Followers(m) \subseteq A
    OBVIOUS
  <2>5. PICK f \in [A -> Nat] : \A m \in A : f[m] = Length(f, m)
    OBVIOUS
  <2> DEFINE B == A \cup {n}
             g == [m \in B |-> IF m = n THEN Length(f, n) ELSE f[m]]
  <2>6. Length(f, n) \in Nat
    BY <2>3, <2>5, LengthIs
  <2>7. g \in [B -> Nat] /\ \A m \in A : g[m] = f[m]
    BY <2>2, <2>5, <2>6
  <2>8. g[n] = Length(f, n)
    OBVIOUS
  <2> HIDE DEF g
  <2>9. ASSUME NEW m \in B PROVE g[m] = Length(g, m)
    <3>1. \A k \in Followers(m) : g[k] = f[k]
      BY <2>3, <2>4, <2>7
    <3>2. {g[k] : k \in Followers(m)} = {f[k] : k \in Followers(m)}
      BY <3>1
    <3>3. Length(g, m) = Length(f, m)
      BY <3>2 DEF Length
    <3> QED
      BY <2>5, <2>7, <2>8, <3>3
  <2>10. g \in Lengths(B)
    BY <2>7, <2>9
  <2>11. B \in F
    <3> HIDE DEF Lengths
    <3> QED
      BY <2>3, <2>4, <2>10
  <2> QED
    BY <1>3, <2>2, <2>11
<1>5. PICK f \in [Ids -> Nat] : \A n \in Ids : f[n] = Length(f, n)
  BY <1>4
<1>6. f = [n \in Ids |->
            IF Outgoing(n) = {} THEN 1 ELSE 1 + Max({f[m] : m \in {To(e) : e \in Outgoing(n)}})]
  BY <1>5 DEF Length, Followers
<1>7. Longest = [n \in Ids |->
            IF Outgoing(n) = {} THEN 1 ELSE 1 + Max({Longest[m] : m \in {To(e) : e \in Outgoing(n)}})]
  BY <1>6 DEF Longest
<1>8. \A n \in Ids : Longest[n] = Length(Longest, n)
  BY <1>7 DEF Length, Followers
<1>9. Longest \in [Ids -> Nat]
  <2> DEFINE Bad == {n \in Ids : Longest[n] \notin Nat}
  <2>1. Bad = {}
    <3> SUFFICES ASSUME Bad # {} PROVE FALSE
      OBVIOUS
    <3>1. PICK n \in Bad : Followers(n) \cap Bad = {}
      BY LastOf
    <3>2. \A m \in Followers(n) : Longest[m] \in Nat
      BY <3>1, FollowersAre
    <3>3. Length(Longest, n) \in Nat
      BY <3>2, LengthIs
    <3> QED
      BY <1>8, <3>3
  <2> QED
    BY <1>7, <2>1
<1> QED
  BY <1>8, <1>9

(***************************************************************************)
(* Chains                                                                  *)
(***************************************************************************)
\* What a phase waits for is closed, and all of it is waited for by way of the phases it depends on.
LEMMA BeforeIs ==
  ASSUME Ordered, NEW n \in Ids
  PROVE  /\ Predecessors(n) \subseteq Before(n) /\ Closed(Before(n)) /\ Before(n) \in SUBSET Ids
         /\ \A S \in SUBSET Ids : Predecessors(n) \subseteq S /\ Closed(S) => Before(n) \subseteq S
<1>1. Before(n) \in SUBSET Ids /\ Predecessors(n) \subseteq Before(n)
  BY DEF Before, Ordered
<1>2. Closed(Before(n))
  <2> SUFFICES ASSUME NEW m \in Before(n), NEW k \in Predecessors(m) PROVE k \in Before(n)
    BY DEF Closed
  <2>1. m \in Ids /\ k \in Ids
    BY <1>1 DEF Ordered
  <2>2. ASSUME NEW S \in SUBSET Ids, Predecessors(n) \subseteq S, Closed(S) PROVE k \in S
    <3>1. m \in S
      BY <2>2 DEF Before
    <3> QED
      BY <2>2, <3>1 DEF Closed
  <2> QED
    BY <2>1, <2>2 DEF Before
<1> QED
  BY <1>1, <1>2 DEF Before

\* Waiting is handed on.
LEMMA BeforeGoesOn ==
  ASSUME Ordered, NEW n \in Ids, NEW m \in Before(n)
  PROVE  Before(m) \subseteq Before(n)
<1>1. m \in Ids /\ Predecessors(m) \subseteq Before(n) /\ Closed(Before(n)) /\ Before(n) \in SUBSET Ids
  BY BeforeIs DEF Closed
<1> QED
  BY <1>1, BeforeIs

\* The last step of the way is one dependency, and so is the first.
LEMMA WayEnds ==
  ASSUME Ordered, NEW n \in Ids, NEW k \in Before(n)
  PROVE  /\ k \in Predecessors(n) \/ \E m \in Predecessors(n) : k \in Before(m)
         /\ \E m \in Followers(k) : m = n \/ m \in Before(n)
<1>1. /\ Predecessors(n) \subseteq Before(n) /\ Closed(Before(n)) /\ Before(n) \in SUBSET Ids
      /\ \A S \in SUBSET Ids : Predecessors(n) \subseteq S /\ Closed(S) => Before(n) \subseteq S
  BY BeforeIs
<1>2. k \in Predecessors(n) \/ \E m \in Predecessors(n) : k \in Before(m)
  <2> DEFINE S == {i \in Ids : i \in Predecessors(n) \/ \E m \in Predecessors(n) : i \in Before(m)}
  <2>1. Predecessors(n) \subseteq Ids
    BY DEF Ordered
  <2>2. ASSUME NEW i \in S, NEW j \in Predecessors(i) PROVE j \in S
    <3>1. j \in Ids
      BY <2>2 DEF Ordered
    <3>2. CASE i \in Predecessors(n)
      <4>1. j \in Before(i)
        BY <2>1, <2>2, <3>2, BeforeIs
      <4> QED
        BY <3>1, <3>2, <4>1
    <3>3. ASSUME NEW m \in Predecessors(n), i \in Before(m) PROVE j \in S
      <4>1. j \in Before(m)
        BY <2>1, <2>2, <3>3, BeforeIs DEF Closed
      <4> QED
        BY <3>1, <4>1
    <3> QED
      BY <2>2, <3>2, <3>3
  <2>3. Closed(S)
    BY <2>2 DEF Closed
  <2> QED
    BY <1>1, <2>1, <2>3
<1>3. \E m \in Followers(k) : m = n \/ m \in Before(n)
  <2> DEFINE S == {i \in Before(n) : \E m \in Ids : i \in Predecessors(m) /\ (m = n \/ m \in Before(n))}
  <2>1. Predecessors(n) \subseteq S
    BY <1>1
  <2>2. Closed(S)
    BY <1>1 DEF Closed
  <2>3. k \in S
    BY <1>1, <2>1, <2>2
  <2>4. PICK m \in Ids : k \in Predecessors(m) /\ (m = n \/ m \in Before(n))
    BY <2>3
  <2> QED
    BY <1>1, <2>4, FollowersAre
<1> QED
  BY <1>2, <1>3

\* Of any phases of the plan, one waits for none of the others, and none for itself.
LEMMA FirstOf ==
  ASSUME Ordered, NEW S \in SUBSET Ids, S # {}
  PROVE  \E n \in S : Before(n) \cap S = {}
<1> DEFINE U == {u \in Ids : u \in S \/ Before(u) \cap S # {}}
<1>1. PICK u \in U : Predecessors(u) \cap U = {}
  <2>1. U \in SUBSET Ids /\ U # {}
    OBVIOUS
  <2> HIDE DEF U
  <2> QED
    BY <2>1 DEF Ordered
<1>2. Before(u) \cap S = {}
  <2> SUFFICES ASSUME NEW k \in Before(u), k \in S PROVE FALSE
    OBVIOUS
  <2>1. CASE k \in Predecessors(u)
    BY <1>1, <2>1
  <2>2. ASSUME NEW m \in Predecessors(u), k \in Before(m) PROVE FALSE
    <3>1. m \in Ids
      BY DEF Ordered
    <3> QED
      BY <1>1, <2>2, <3>1
  <2> QED
    BY <2>1, <2>2, WayEnds
<1> QED
  BY <1>1, <1>2

\* Before a chain may stand what its first phase waits for.
LEMMA LongerChain ==
  ASSUME Ordered, NEW n \in Ids, NEW m \in Followers(n), NEW S \in ChainsFrom(m)
  PROVE  S \cup {n} \in ChainsFrom(n) /\ n \notin S
<1>1. m \in Ids /\ n \in Before(m) /\ S \in SUBSET Ids /\ m \in S
  BY FollowersAre, BeforeIs DEF ChainsFrom
<1>2. ASSUME NEW k \in S PROVE n \in Before(k)
  <2>1. k = m \/ m \in Before(k)
    BY DEF ChainsFrom
  <2> QED
    BY <1>1, <2>1, BeforeGoesOn
<1>3. n \notin S
  <2>1. n \notin Before(n)
    <3>1. {n} \in SUBSET Ids /\ {n} # {}
      OBVIOUS
    <3> QED
      BY <3>1, FirstOf
  <2> QED
    BY <1>2, <2>1
<1> QED
  BY <1>1, <1>2, <1>3 DEF ChainsFrom

\* A chain of more than its first phase goes on, without it, from one that follows it: with that
\* one, if it has been left out.
LEMMA ShorterChain ==
  ASSUME Ordered, NEW n \in Ids, NEW S \in ChainsFrom(n), S # {n}
  PROVE  \E m \in Followers(n) : (S \ {n}) \cup {m} \in ChainsFrom(m)
<1> DEFINE T == S \ {n}
<1>1. T \in SUBSET Ids /\ T # {} /\ n \in S /\ \A k \in T : n \in Before(k)
  BY DEF ChainsFrom
<1>2. PICK t \in T : Before(t) \cap T = {}
  <2> HIDE DEF T
  <2> QED
    BY <1>1, FirstOf
<1>3. \A k \in T : k = t \/ t \in Before(k)
  BY <1>2 DEF ChainsFrom
<1>4. PICK m \in Followers(n) : m = t \/ m \in Before(t)
  BY <1>1, <1>2, WayEnds
<1>5. m \in Ids
  BY FollowersAre
<1>6. ASSUME NEW k \in T PROVE k = m \/ m \in Before(k)
  <2>1. k \in Ids
    BY <1>1
  <2>2. k = t \/ Before(t) \subseteq Before(k)
    BY <1>3, <2>1, BeforeGoesOn
  <2> QED
    BY <1>3, <1>4, <2>2
<1>7. T \cup {m} \in ChainsFrom(m)
  BY <1>1, <1>5, <1>6 DEF ChainsFrom
<1> QED
  BY <1>7

\* The length of a phase is that of a chain from it, and none is longer: a last phase without that
\* would follow no other.
LEMMA LongestChain ==
  ASSUME Ordered, NEW n \in Ids
  PROVE  Longest[n] = Max({Cardinality(S) : S \in ChainsFrom(n)})
<1> DEFINE IsLongest(i) == /\ \E S \in ChainsFrom(i) : Longest[i] = Cardinality(S)
                           /\ \A S \in ChainsFrom(i) : Cardinality(S) <= Longest[i]
           Bad == {i \in Ids : ~IsLongest(i)}
<1>1. \A i \in Ids : \A S \in ChainsFrom(i) : IsFiniteSet(S) /\ Cardinality(S) \in Nat /\ S \in SUBSET Ids /\ i \in S
  BY FS_Subset, FS_CardinalityType DEF Ordered, ChainsFrom
<1>2. ASSUME NEW i \in Ids, \A m \in Followers(i) : IsLongest(m) PROVE IsLongest(i)
  <2>1. /\ Longest[i] \in Nat
        /\ Followers(i) = {} => Longest[i] = 1
        /\ \A m \in Followers(i) : Longest[m] + 1 <= Longest[i]
        /\ Followers(i) # {} => \E m \in Followers(i) : Longest[i] = Longest[m] + 1
    <3>1. Longest[i] = Length(Longest, i) /\ \A m \in Ids : Longest[m] \in Nat
      BY LongestDefined
    <3>2. \A m \in Followers(i) : Longest[m] \in Nat
      BY <3>1, FollowersAre
    <3> QED
      BY <3>1, <3>2, LengthIs
  <2>2. {i} \in ChainsFrom(i) /\ Cardinality({i}) = 1
    BY FS_Singleton DEF ChainsFrom
  <2>3. Followers(i) \subseteq Ids
    BY FollowersAre
  <2>4. \E S \in ChainsFrom(i) : Longest[i] = Cardinality(S)
    <3>1. CASE Followers(i) = {}
      BY <2>1, <2>2, <3>1
    <3>2. CASE Followers(i) # {}
      <4>1. PICK m \in Followers(i) : Longest[i] = Longest[m] + 1
        BY <2>1, <3>2
      <4>2. PICK S \in ChainsFrom(m) : Longest[m] = Cardinality(S)
        BY <1>2
      <4>3. S \cup {i} \in ChainsFrom(i) /\ i \notin S
        BY LongerChain
      <4>4. Cardinality(S \cup {i}) = Cardinality(S) + 1
        <5>1. IsFiniteSet(S)
          BY <1>1, <2>3
        <5> QED
          BY <4>3, <5>1, FS_AddElement
      <4> QED
        BY <4>1, <4>2, <4>3, <4>4
    <3> QED
      BY <3>1, <3>2
  <2>5. ASSUME NEW S \in ChainsFrom(i) PROVE Cardinality(S) <= Longest[i]
    <3>1. CASE S = {i}
      <4>1. CASE Followers(i) = {}
        BY <2>1, <2>2, <3>1, <4>1
      <4>2. ASSUME NEW m \in Followers(i) PROVE Cardinality(S) <= Longest[i]
        <5>1. Longest[m] \in Nat /\ Longest[m] + 1 <= Longest[i]
          BY <2>1, <2>3, LongestDefined
        <5> QED
          BY <2>1, <2>2, <3>1, <5>1
      <4> QED
        BY <4>1, <4>2
    <3>2. CASE S # {i}
      <4> DEFINE T == S \ {i}
      <4>1. PICK m \in Followers(i) : T \cup {m} \in ChainsFrom(m)
        BY <3>2, ShorterChain
      <4>2. Cardinality(T \cup {m}) <= Longest[m] /\ Longest[m] + 1 <= Longest[i] /\ Longest[m] \in Nat
        BY <1>2, <2>1, <2>3, <4>1, LongestDefined
      <4>3. IsFiniteSet(T \cup {m}) /\ Cardinality(T \cup {m}) \in Nat
        BY <1>1, <2>3, <4>1
      <4>4. IsFiniteSet(T) /\ Cardinality(T) \in Nat /\ Cardinality(T) <= Cardinality(T \cup {m})
        <5>1. T \in SUBSET (T \cup {m})
          OBVIOUS
        <5> HIDE DEF T
        <5> QED
          BY <4>3, <5>1, FS_Subset, FS_CardinalityType
      <4>5. Cardinality(S) = Cardinality(T) + 1
        <5>1. S = T \cup {i} /\ i \notin T
          BY <1>1
        <5> HIDE DEF T
        <5> QED
          BY <4>4, <5>1, FS_AddElement
      <4> HIDE DEF T
      <4> QED
        BY <2>1, <4>2, <4>3, <4>4, <4>5
    <3> QED
      BY <3>1, <3>2
  <2> QED
    BY <2>4, <2>5
<1>3. Bad = {}
  <2> SUFFICES ASSUME Bad # {} PROVE FALSE
    OBVIOUS
  <2>1. PICK i \in Bad : Followers(i) \cap Bad = {}
    BY LastOf
  <2>2. i \in Ids /\ \A m \in Followers(i) : IsLongest(m)
    BY <2>1, FollowersAre
  <2> HIDE DEF IsLongest
  <2> QED
    BY <1>2, <2>2
<1>4. IsLongest(n)
  <2> HIDE DEF IsLongest
  <2> QED
    BY <1>3
<1> DEFINE C == {Cardinality(S) : S \in ChainsFrom(n)}
<1>5. Longest[n] \in C /\ \A c \in C : c <= Longest[n]
  BY <1>4
<1>6. C \subseteq Nat /\ IsFiniteSet(C)
  <2>1. C \in SUBSET Nat /\ Longest[n] \in Nat
    BY <1>1, LongestDefined
  <2> HIDE DEF C
  <2> QED
    BY <1>5, <2>1, FS_BoundedSetOfNaturals
<1>7. Max(C) \in C /\ \A c \in C : c <= Max(C)
  <2> HIDE DEF C
  <2> QED
    BY <1>5, <1>6, MaxIs
<1> HIDE DEF C
<1>8. Longest[n] = Max(C)
  <2>1. Longest[n] \in Nat /\ Max(C) \in Nat
    BY <1>5, <1>6, <1>7
  <2>2. Longest[n] <= Max(C) /\ Max(C) <= Longest[n]
    BY <1>5, <1>7
  <2> QED
    BY <2>1, <2>2
<1> QED
  BY <1>8 DEF C

\* The scheduler takes every plan the planner has accepted, and the length it sorts a phase by is
\* that of the longest chain of phases that starts with it: for any graph of dependencies
\* (validate_dag and compute_critical_path_lengths of scheduler/dag.rs).
THEOREM AcceptedIsLoaded == GatesSpec => AcceptedLoads
<1> DEFINE Goal == load' # load =>
                     /\ load' # "refused"
                     /\ load' = "loaded" => \A n \in Ids : lengths'[n] = Max({Cardinality(S) : S \in ChainsFrom(n)})
<1>1. ASSUME GateInv, NeverRefused', [GatesNext]_<<loadedVars, gateVars>> PROVE [Goal]_loadVars
  <2> SUFFICES ASSUME load' # load, load' = "loaded", NEW n \in Ids
               PROVE  lengths'[n] = Max({Cardinality(S) : S \in ChainsFrom(n)})
    BY <1>1 DEF NeverRefused
  <2>1. LoadPhases
    BY <1>1 DEF GatesNext, LoadStep, BeginLoad, SearchFrom, Follow, Leave, Call, Gate, BeginGates, SkipSpec,
                DenySpec, GatesErr, RunBaseline, RunFirst, Retry, NextLayer, Report, Push, loadedVars, loadVars
  <2>2. lengths' = Longest /\ at = "accepted"
    BY <1>1, <2>1 DEF LoadPhases, GateInv, PhaseInv
  <2>3. Ordered
    <3>1. AcceptedIsOrdered /\ IsFiniteSet(Ids) /\ at \in Decided
      BY <1>1, <2>2, DecidedIsOrdered, IdsFinite DEF GateInv, PlanInv, Decided
    <3>2. ASSUME NEW m \in Ids, NEW k \in Predecessors(m) PROVE k \in Ids
      <4>1. PICK p \in Elements(plan) : k \in Elements(p.deps)
        BY DEF Predecessors
      <4> QED
        BY <3>1, <4>1 DEF AcceptedIsOrdered
    <3> QED
      BY <3>1, <3>2 DEF Ordered, AcceptedIsOrdered
  <2> QED
    BY <2>2, <2>3, LongestChain
<1> QED
  BY <1>1, InitGates, GateStep, AcceptedIsNeverRefused, PTL DEF GatesSpec, AcceptedLoads
=============================================================================
