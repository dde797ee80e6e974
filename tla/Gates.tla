------------------------------- MODULE Gates -------------------------------
(***************************************************************************)
(* The verdict on a phase of an accepted plan: run_phase_gates of          *)
(* verification/runner.rs, which runs the tests of the phase layer by      *)
(* layer, each of them twice or three times, and classifies what it saw.   *)
(* The executor always asks for a baseline and for one retry.              *)
(*                                                                         *)
(* A test ends with the exit code it is expected to end with, or with      *)
(* another; it may end differently every time.                             *)
(***************************************************************************)
EXTENDS PlanLoad

Exits == {"expected", "other"}
Classes == {"pass", "fail", "baseline_fail", "flaky_pass", "flaky_fail", "policy_denied"}

VARIABLES
  phase,     \* the phase under test, 0 when there is none
  layer,     \* the layer at work
  next,      \* the test at work
  step,      \* what is done with it next
  baseline,  \* how its first run ended, "none" when it could not be run
  evidence,  \* the evidence records
  verdict    \* of the gates: "none", "passed", "blocked" or "error"

gateVars == <<phase, layer, next, step, baseline, evidence, verdict>>

GatesInit ==
  /\ LoadInit
  /\ phase = 0 /\ layer = 1 /\ next = 1 /\ step = "spec" /\ baseline = "none"
  /\ evidence = {} /\ verdict = "none"

Tests(l) == plan[phase].tests[l]
TestOf(e) == plan[phase].tests[e.layer][e.test]

\* What is marked inapplicable is not run, with or without a command.
Executable(l) == {k \in DOMAIN Tests(l) : ~Tests(l)[k].reason}

Running(s) == phase # 0 /\ verdict = "none" /\ layer \in Layers /\ next \in DOMAIN Tests(layer) /\ step = s

ThisTest == Tests(layer)[next]

Record(exit, class) == [layer |-> layer, test |-> next, exit |-> exit, class |-> class]

\* The evidence is pushed, and the next test is due.
Push(exit, class) ==
  /\ evidence' = evidence \cup {Record(exit, class)}
  /\ next' = next + 1 /\ step' = "spec"
  /\ UNCHANGED <<loadedVars, phase, layer, baseline, verdict>>

BeginGates(i) ==
  /\ load = "loaded" /\ phase = 0
  /\ phase' = i
  /\ UNCHANGED <<loadedVars, layer, next, step, baseline, evidence, verdict>>

SkipSpec ==
  /\ Running("spec") /\ ThisTest.reason
  /\ next' = next + 1
  /\ UNCHANGED <<loadedVars, phase, layer, step, baseline, evidence, verdict>>

\* evaluate_command_policy_in_roots.
DenySpec ==
  /\ Running("spec") /\ ~ThisTest.reason /\ ThisTest.command = "denied"
  /\ Push("other", "policy_denied")

\* resolve_workdir, a relative directory that leaves the write root; or a command that cannot be
\* started: the gates end with an error.
GatesErr ==
  /\ \/ Running("spec") /\ ~ThisTest.reason /\ ThisTest.command = "outside"
     \/ Running("first") \/ Running("retry")
  /\ verdict' = "error"
  /\ UNCHANGED <<loadedVars, phase, layer, next, step, baseline, evidence>>

\* run_command_exit: an error is no baseline.
RunBaseline ==
  /\ Running("spec") /\ ~ThisTest.reason /\ ThisTest.command = "allowed"
  /\ baseline' \in Exits \cup {"none"}
  /\ step' = "first"
  /\ UNCHANGED <<loadedVars, phase, layer, next, evidence, verdict>>

ClassifyBaseline(exit) ==
  CASE exit = "expected" -> "pass"
    [] exit = "other" /\ baseline = "other" -> "baseline_fail"
    [] OTHER -> "fail"

\* A plain failure is tried again.
RunFirst(exit) ==
  /\ Running("first")
  /\ \/ ClassifyBaseline(exit) # "fail" /\ Push(exit, ClassifyBaseline(exit))
     \/ /\ ClassifyBaseline(exit) = "fail"
        /\ step' = "retry"
        /\ UNCHANGED <<loadedVars, phase, layer, next, baseline, evidence, verdict>>

\* classify_flaky_retry.
Retry(exit) ==
  /\ Running("retry")
  /\ Push(exit, IF exit = "expected" THEN "flaky_pass" ELSE "flaky_fail")

NextLayer ==
  /\ phase # 0 /\ verdict = "none" /\ layer \in Layers /\ next \notin DOMAIN Tests(layer)
  /\ layer' = layer + 1 /\ next' = 1
  /\ UNCHANGED <<loadedVars, phase, step, baseline, evidence, verdict>>

Passing == {"pass", "flaky_pass"}

\* classification_blocks_pass: a failing baseline does not block a criterion, it fails its layer.
Blocking == {"fail", "flaky_fail", "policy_denied"}

Executed(l) == {e \in evidence : e.layer = l}

\* Fault: what failed before does not count against its layer.
LayerForgiving(l) ==
  Executable(l) = {} \/ (Executed(l) # {} /\ \A e \in Executed(l) : e.class \notin Blocking)

\* LayerGateSummary::all_required_passed.
LayerPassed(l) ==
  Executable(l) = {} \/ (Executed(l) # {} /\ \A e \in Executed(l) : e.class \in Passing)

Covered(c) == \E e \in evidence : c \in TestOf(e).covers /\ e.class \notin Blocking

Report ==
  /\ phase # 0 /\ verdict = "none" /\ layer = 4
  /\ verdict' = IF /\ \A l \in Layers : LayerPassed(l)
                   /\ \A c \in Elements(plan[phase].criteria) : Covered(c)
                THEN "passed" ELSE "blocked"
  /\ UNCHANGED <<loadedVars, phase, layer, next, step, baseline, evidence>>

Gate ==
  \/ \E i \in DOMAIN plan : BeginGates(i)
  \/ SkipSpec \/ DenySpec \/ GatesErr \/ RunBaseline
  \/ \E exit \in Exits : RunFirst(exit) \/ Retry(exit)
  \/ NextLayer \/ Report

GatesNext ==
  \/ (PlanNext /\ UNCHANGED <<loadVars, gateVars>>)
  \/ (LoadStep /\ UNCHANGED gateVars)
  \/ Gate

GatesSpec == GatesInit /\ [][GatesNext]_<<loadedVars, gateVars>>

(***************************************************************************)
(* Properties                                                              *)
(***************************************************************************)
\* Gates that pass mean that every test that applies was run and ended as expected the last time,
\* and that every criterion is covered by such a test; gates that block have a test that ended
\* otherwise or was denied, or a criterion that no test to run covers (run_phase_gates,
\* classification_blocks_pass, classify_baseline).
VerdictMatchesRuns ==
  /\ verdict = "passed" =>
       /\ \A l \in Layers : \A k \in Executable(l) :
            \E e \in evidence : e.layer = l /\ e.test = k /\ e.exit = "expected"
       /\ \A c \in Elements(plan[phase].criteria) :
            \E l \in Layers : \E k \in Executable(l) : c \in Tests(l)[k].covers
       /\ \A e \in evidence : e.exit = "expected"
  /\ verdict = "blocked" =>
       \/ \E e \in evidence : e.exit = "other"
       \/ \E c \in Elements(plan[phase].criteria) :
            \A l \in Layers : \A k \in Executable(l) : c \notin Tests(l)[k].covers
=============================================================================
