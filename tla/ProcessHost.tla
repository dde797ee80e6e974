---------------------------- MODULE ProcessHost ----------------------------
(***************************************************************************)
(* The processes of one run: the process host (process/host.rs) that a     *)
(* worker thread calls once per agent or test command, the registry it     *)
(* writes (db/process_store.rs), and everybody who kills: the watchdog,    *)
(* Stop (orchestrator/runner.rs), the emergency abort (process/abort.rs),  *)
(* a crash, and the reconciliation of the next start                       *)
(* (process/reconcile.rs, recovery/startup.rs).                            *)
(*                                                                         *)
(* A hosted process is named by its worker and the turn of the worker.     *)
(* Its tree is the process itself and one stand-in for its descendants;    *)
(* they live in a kill-on-close Job Object of the operating system, and    *)
(* termination of a job is asynchronous: members of a doomed job die, but  *)
(* later.  A record has a pid from the second write of it on, so the pid   *)
(* is a matter of its state.                                               *)
(***************************************************************************)
EXTENDS Naturals, FiniteSets

CONSTANTS
  Workers,     \* worker threads a supervisor may have
  Turns,       \* bound on the hosted calls of one worker
  Faults,      \* what may go wrong, see FaultKinds
  MaxPresses,  \* bound on stops and presses of the abort, together
  MaxCrashes   \* bound on crashes

(* spawn: the executable does not start.  degraded: the job list attribute *)
(* is refused, the process is created suspended and assigned afterwards.   *)
(* store: a statement of the store fails.  wait: the process cannot be     *)
(* waited for.  deaf: an agent need not read its prompt.                   *)
FaultKinds == {"spawn", "degraded", "store", "wait", "deaf"}

ASSUME HostAssumption ==
  /\ Turns \in Nat /\ MaxPresses \in Nat /\ MaxCrashes \in Nat
  /\ Faults \subseteq FaultKinds

Procs == Workers \X (1..Turns)

VARIABLES
  runStatus,  \* runs.status
  sup,        \* the supervisor: in its loop, launching workers, joining them, or gone
  stopping,   \* its cancel flag
  stop,       \* a Stop between its statements
  pc,         \* where each worker is
  turn,       \* the number of hosted calls a worker has made
  lives,      \* the host's map of live processes
  cancel,     \* live processes whose cancel flag is set
  force,      \* live processes whose force flag is set
  tree,       \* the living members of each process tree
  job,        \* no job, an open one, or one terminated or closed
  record,     \* processes.state
  proof,      \* what the cleanup proofs of a process say
  latest,     \* what the latest cleanup proof of the run says
  abort,      \* an emergency abort between its statements
  presses,    \* stops and presses so far
  up,         \* the start-up scan of this program run is over
  crashes,    \* number of crashes so far
  todo,       \* active records the scan still has to look at
  hard,       \* the scan found a hard failure
  offer       \* recovery_offers.status

runVars == <<runStatus, sup, stopping, stop>>
flagVars == <<lives, cancel, force>>
osVars == <<tree, job>>
proofVars == <<proof, latest>>
bootVars == <<up, crashes, todo, hard, offer>>
abortVars == <<abort, presses>>

vars == <<runVars, pc, turn, flagVars, osVars, record, proofVars, abortVars, bootVars>>

\* completed, failed and cancelled make no difference here.
RunStates == {"executing", "cancelling", "interrupted", "ended"}

RecordStates == {"none", "registered", "spawned", "active", "graceful_stop",
                 "forced_stop", "reaped"}

(* Inside one call of run_hosted, in the order of its statements.          *)
Calling == {"spawn", "writing", "fallback", "suspended", "feeding", "spawned", "recorded",
            "active", "waiting", "grace", "reaping", "count", "prove", "close", "finish",
            "drop"}

NoAbort == [pc |-> "idle", forced |-> FALSE, locked |-> FALSE, named |-> FALSE,
            stopped |-> FALSE]

(* One conjunct per variable.                                              *)
HostTypeOK ==
  /\ runStatus \in RunStates
  /\ sup \in {"loop", "tick", "held", "join", "off"}
  /\ stopping \in BOOLEAN
  /\ stop \in {"no", "kill", "write"}
  /\ pc \in [Workers -> Calling \cup {"idle", "due"}]
  /\ turn \in [Workers -> 0..Turns]
  /\ lives \subseteq Procs /\ cancel \subseteq lives /\ force \subseteq lives
  /\ tree \in [Procs -> SUBSET {"main", "child"}]
  /\ job \in [Procs -> {"none", "open", "doomed"}]
  /\ record \in [Procs -> RecordStates]
  /\ proof \in [Procs -> {"none", "zero", "left"}]
  /\ latest \in {"none", "zero", "left"}
  /\ abort \in [pc : {"idle", "poll", "gate", "write"}, forced : BOOLEAN,
                locked : BOOLEAN, named : BOOLEAN, stopped : BOOLEAN]
  /\ presses \in 0..MaxPresses
  /\ up \in BOOLEAN
  /\ crashes \in 0..MaxCrashes
  /\ todo \subseteq Procs
  /\ hard \in BOOLEAN
  /\ offer \in {"none", "pending", "blocked", "resumed", "cancelled"}

Init ==
  /\ runStatus = "executing" /\ sup = "loop" /\ stopping = FALSE /\ stop = "no"
  /\ pc = [w \in Workers |-> "idle"]
  /\ turn = [w \in Workers |-> 0]
  /\ lives = {} /\ cancel = {} /\ force = {}
  /\ tree = [p \in Procs |-> {}]
  /\ job = [p \in Procs |-> "none"]
  /\ record = [p \in Procs |-> "none"]
  /\ proof = [p \in Procs |-> "none"] /\ latest = "none"
  /\ abort = NoAbort /\ presses = 0
  /\ up = TRUE /\ crashes = 0 /\ todo = {} /\ hard = FALSE /\ offer = "none"

-----------------------------------------------------------------------------
(* The registry.                                                           *)

HasPid(p) == record[p] \notin {"none", "registered"}

\* list_active_processes, active_process_count.
Active == {p \in Procs : record[p] \notin {"none", "reaped"}}

\* Fault: the gate looks at the proof only.
ProofOnly ==
  IF \E p \in Procs : HasPid(p) THEN latest = "zero" ELSE latest # "left"

(* assert_run_may_become_terminal: nothing active, and if a process of the *)
(* run was hosted then the latest proof of the run is there and is good.   *)
MayBecomeTerminal ==
  /\ Active = {}
  /\ IF \E p \in Procs : HasPid(p) THEN latest = "zero" ELSE latest # "left"

(* The shortcut and the tray hold the store mutex while the abort polls;   *)
(* every statement of the others takes it.                                 *)
StoreFree == ~(abort.locked /\ abort.pc # "idle")

\* A write whose error is ignored.
Upsert(p, s) ==
  /\ StoreFree
  /\ \/ record' = [record EXCEPT ![p] = s]
     \/ "store" \in Faults /\ UNCHANGED record

\* A status of the run whose write may fail without consequence.
SetStatus(s) ==
  \/ runStatus' = s
  \/ "store" \in Faults /\ UNCHANGED runStatus

-----------------------------------------------------------------------------
(* The supervisor, reduced to what it does to workers and processes.       *)

\* One round: the cancel flag is read, then the tick, held unless executing.
RoundBegins ==
  /\ sup = "loop" /\ ~stopping /\ StoreFree
  /\ sup' = IF runStatus = "executing" THEN "tick" ELSE "held"
  /\ UNCHANGED <<runStatus, stopping, stop, pc, turn, flagVars, osVars, record,
                 proofVars, abortVars, bootVars>>

Launch(w) ==
  /\ sup = "tick" /\ pc[w] = "idle"
  /\ pc' = [pc EXCEPT ![w] = "due"]
  /\ UNCHANGED <<runVars, turn, flagVars, osVars, record, proofVars, abortVars, bootVars>>

InFlight == {w \in Workers : pc[w] # "idle"}

(* The end of a round: go on, or nothing is pending and the run has ended. *)
(* No gate is asked.                                                       *)
RoundEnds ==
  /\ sup \in {"tick", "held"}
  /\ \/ sup' = "loop" /\ UNCHANGED runStatus
     \/ /\ InFlight = {} /\ StoreFree
        /\ sup' = "off" /\ runStatus' = "ended"
  /\ UNCHANGED <<stopping, stop, pc, turn, flagVars, osVars, record, proofVars,
                 abortVars, bootVars>>

CancelObserved ==
  /\ sup = "loop" /\ stopping
  /\ sup' = "join"
  /\ cancel' = lives
  /\ UNCHANGED <<runStatus, stopping, stop, pc, turn, lives, force, osVars, record,
                 proofVars, abortVars, bootVars>>

Joined ==
  /\ sup = "join" /\ InFlight = {} /\ StoreFree
  /\ sup' = "off" /\ SetStatus("ended")
  /\ UNCHANGED <<stopping, stop, pc, turn, flagVars, osVars, record, proofVars,
                 abortVars, bootVars>>

\* An error of the store ends the loop; the workers run on.
SupervisorFails ==
  /\ "store" \in Faults /\ sup \in {"loop", "tick", "held"} /\ StoreFree
  /\ sup' = "off" /\ SetStatus("ended")
  /\ UNCHANGED <<stopping, stop, pc, turn, flagVars, osVars, record, proofVars,
                 abortVars, bootVars>>

\* The executor needs no further process.
WorkerEnds(w) ==
  /\ pc[w] = "due"
  /\ pc' = [pc EXCEPT ![w] = "idle"]
  /\ UNCHANGED <<runVars, turn, flagVars, osVars, record, proofVars, abortVars, bootVars>>

Supervisor ==
  \/ RoundBegins \/ RoundEnds \/ CancelObserved \/ Joined \/ SupervisorFails
  \/ \E w \in Workers : Launch(w) \/ WorkerEnds(w)

-----------------------------------------------------------------------------
(* run_hosted, one call of worker w.  Current(w) is the process of the     *)
(* call that goes on, or of the last one.                                  *)

Current(w) == <<w, turn[w]>>

Hosting(p) == pc[p[1]] \in Calling /\ p = Current(p[1])

Goto(w, there) == pc' = [pc EXCEPT ![w] = there]

\* Fault: the handle leaks.
Leaked(jobs, p) == jobs

\* The job handle is dropped, if there is one: kill on close.
Closed(jobs, p) == [jobs EXCEPT ![p] = IF @ = "open" THEN "doomed" ELSE @]

\* TerminateJobObject on a job whose handle is held.
Doomed(jobs, P) == [p \in Procs |-> IF p \in P THEN "doomed" ELSE jobs[p]]

Register(w) ==
  /\ pc[w] = "due" /\ turn[w] < Turns /\ StoreFree
  /\ turn' = [turn EXCEPT ![w] = @ + 1]
  /\ record' = [record EXCEPT ![<<w, turn[w] + 1>>] = "registered"]
  /\ Goto(w, "spawn")
  /\ UNCHANGED <<runVars, flagVars, osVars, proofVars, abortVars, bootVars>>

\* A process is born in its job; its prompt is written before anything else.
Spawn(w) ==
  /\ pc[w] = "spawn"
  /\ tree' = [tree EXCEPT ![Current(w)] = {"main"}]
  /\ job' = [job EXCEPT ![Current(w)] = "open"]
  /\ Goto(w, "writing")
  /\ UNCHANGED <<runVars, turn, flagVars, record, proofVars, abortVars, bootVars>>

(* It dies before it has read its prompt, or its identity cannot be read:  *)
(* it is killed, and the command is started once more, the other way.      *)
FallBack(w) ==
  /\ pc[w] = "writing"
  /\ "spawn" \in Faults \/ "main" \notin tree[Current(w)]
  /\ tree' = [tree EXCEPT ![Current(w)] = {}]
  /\ job' = [job EXCEPT ![Current(w)] = "none"]
  /\ Goto(w, "fallback")
  /\ UNCHANGED <<runVars, turn, flagVars, record, proofVars, abortVars, bootVars>>

\* The other way: a suspended process, assigned to its job before it runs.
SpawnSuspended(w) ==
  /\ pc[w] = "fallback" \/ (pc[w] = "spawn" /\ "degraded" \in Faults)
  /\ tree' = [tree EXCEPT ![Current(w)] = {"main"}]
  /\ Goto(w, "suspended")
  /\ UNCHANGED <<runVars, turn, flagVars, job, record, proofVars, abortVars, bootVars>>

Assign(w) ==
  /\ pc[w] = "suspended"
  /\ job' = [job EXCEPT ![Current(w)] = "open"]
  /\ Goto(w, "feeding")
  /\ UNCHANGED <<runVars, turn, flagVars, tree, record, proofVars, abortVars, bootVars>>

(* The suspended process cannot be opened, and the call returns and leaves *)
(* it; or it cannot be assigned, and is terminated.                        *)
LeaveSuspended(w) ==
  /\ pc[w] = "suspended"
  /\ tree' \in {tree, [tree EXCEPT ![Current(w)] = {}]}
  /\ Goto(w, "due")
  /\ UNCHANGED <<runVars, turn, flagVars, job, record, proofVars, abortVars, bootVars>>

(* The call fails before the process is known: there is no executable, or  *)
(* the second way failed as well.  The record keeps its state.             *)
SpawnFails(w) ==
  /\ \/ pc[w] \in {"spawn", "fallback"} /\ "spawn" \in Faults
     \/ pc[w] = "feeding" /\ ("spawn" \in Faults \/ "main" \notin tree[Current(w)])
  /\ job' = Closed(job, Current(w))
  /\ Goto(w, "due")
  /\ UNCHANGED <<runVars, turn, flagVars, tree, record, proofVars, abortVars, bootVars>>

PromptRead(w) ==
  /\ pc[w] \in {"writing", "feeding"} /\ "main" \in tree[Current(w)]
  /\ Goto(w, "spawned")
  /\ UNCHANGED <<runVars, turn, flagVars, osVars, record, proofVars, abortVars, bootVars>>

\* The second and the third write of the record.
RecordSpawned(w) ==
  /\ pc[w] = "spawned" /\ StoreFree
  /\ record' = [record EXCEPT ![Current(w)] = "spawned"]
  /\ Goto(w, "recorded")
  /\ UNCHANGED <<runVars, turn, flagVars, osVars, proofVars, abortVars, bootVars>>

RecordActive(w) ==
  /\ pc[w] = "recorded" /\ StoreFree
  /\ record' = [record EXCEPT ![Current(w)] = "active"]
  /\ Goto(w, "active")
  /\ UNCHANGED <<runVars, turn, flagVars, osVars, proofVars, abortVars, bootVars>>

\* From here on, and not before, the process can be cancelled.
EnterLives(w) ==
  /\ pc[w] = "active"
  /\ lives' = lives \cup {Current(w)}
  /\ Goto(w, "waiting")
  /\ UNCHANGED <<runVars, turn, cancel, force, osVars, record, proofVars, abortVars, bootVars>>

(* A statement of the store fails where the code returns the error: the    *)
(* job is dropped, the record keeps its state.                             *)
HostFails(w) ==
  /\ "store" \in Faults /\ StoreFree
  /\ pc[w] \in {"spawned", "recorded", "prove", "close", "finish"}
  /\ job' = Closed(job, Current(w))
  /\ Goto(w, "due")
  /\ UNCHANGED <<runVars, turn, flagVars, tree, record, proofVars, abortVars, bootVars>>

-----------------------------------------------------------------------------
(* wait_with_watchdog.                                                     *)

SeeForce(w) ==
  /\ pc[w] = "waiting" /\ Current(w) \in force
  /\ Upsert(Current(w), "forced_stop")
  /\ job' = Doomed(job, {Current(w)})
  /\ Goto(w, "reaping")
  /\ UNCHANGED <<runVars, turn, flagVars, tree, proofVars, abortVars, bootVars>>

\* A cancel flag, or the watchdog's time: a graceful stop is recorded.
SeeCancel(w) ==
  /\ pc[w] = "waiting" /\ Current(w) \in cancel
  /\ Upsert(Current(w), "graceful_stop")
  /\ Goto(w, "grace")
  /\ UNCHANGED <<runVars, turn, flagVars, osVars, proofVars, abortVars, bootVars>>

TimeOut(w) ==
  /\ pc[w] = "waiting"
  /\ Upsert(Current(w), "graceful_stop")
  /\ Goto(w, "grace")
  /\ UNCHANGED <<runVars, turn, flagVars, osVars, proofVars, abortVars, bootVars>>

\* Fault: a heartbeat writes the record once more, as active.
SeeExitActive(w) ==
  /\ pc[w] \in {"waiting", "grace"} /\ "main" \notin tree[Current(w)]
  /\ Upsert(Current(w), "active")
  /\ Goto(w, "reaping")
  /\ UNCHANGED <<runVars, turn, flagVars, osVars, proofVars, abortVars, bootVars>>

SeeExit(w) ==
  /\ pc[w] \in {"waiting", "grace"} /\ "main" \notin tree[Current(w)]
  /\ Goto(w, "reaping")
  /\ UNCHANGED <<runVars, turn, flagVars, osVars, record, proofVars, abortVars, bootVars>>

\* Fault: the stop is recorded but the job is not terminated.
ForceByRecord(w) ==
  /\ pc[w] = "grace"
  /\ Upsert(Current(w), "forced_stop")
  /\ Goto(w, "reaping")
  /\ UNCHANGED <<runVars, turn, flagVars, osVars, proofVars, abortVars, bootVars>>

ForceAfterGrace(w) ==
  /\ pc[w] = "grace"
  /\ Upsert(Current(w), "forced_stop")
  /\ job' = Doomed(job, {Current(w)})
  /\ Goto(w, "reaping")
  /\ UNCHANGED <<runVars, turn, flagVars, tree, proofVars, abortVars, bootVars>>

\* The wait itself fails: out of the map, the job dropped, no more writes.
WaitFails(w) ==
  /\ "wait" \in Faults /\ pc[w] = "waiting"
  /\ lives' = lives \ {Current(w)}
  /\ cancel' = cancel \ {Current(w)} /\ force' = force \ {Current(w)}
  /\ job' = Closed(job, Current(w))
  /\ Goto(w, "due")
  /\ UNCHANGED <<runVars, turn, tree, record, proofVars, abortVars, bootVars>>

\* The process itself is gone: the host takes it out of its map.
LeaveLives(w) ==
  /\ pc[w] = "reaping" /\ "main" \notin tree[Current(w)]
  /\ lives' = lives \ {Current(w)}
  /\ cancel' = cancel \ {Current(w)} /\ force' = force \ {Current(w)}
  /\ Goto(w, "count")
  /\ UNCHANGED <<runVars, turn, osVars, record, proofVars, abortVars, bootVars>>

-----------------------------------------------------------------------------
(* finalize_cleanup and the last write of the record.                      *)

\* Members are counted while the handle is open; if any is left, terminate.
CountMembers(w) ==
  /\ pc[w] = "count"
  /\ job' = IF tree[Current(w)] = {} THEN job ELSE Doomed(job, {Current(w)})
  /\ Goto(w, "prove")
  /\ UNCHANGED <<runVars, turn, flagVars, tree, record, proofVars, abortVars, bootVars>>

\* Fault: only the process itself is looked at, not its descendants.
ZeroMain(p) == IF "main" \notin tree[p] THEN "zero" ELSE "left"

Zero(p) == IF tree[p] = {} THEN "zero" ELSE "left"

\* They are counted again, and the result is the first proof.
Prove(w) ==
  /\ pc[w] = "prove" /\ StoreFree
  /\ proof' = [proof EXCEPT ![Current(w)] = Zero(Current(w))]
  /\ latest' = Zero(Current(w))
  /\ Goto(w, "close")
  /\ UNCHANGED <<runVars, turn, flagVars, osVars, record, abortVars, bootVars>>

\* The second proof repeats the result after the process handle is closed.
ProveClosed(w) ==
  /\ pc[w] = "close" /\ StoreFree
  /\ latest' = proof[Current(w)]
  /\ Goto(w, "finish")
  /\ UNCHANGED <<runVars, turn, flagVars, osVars, record, proof, abortVars, bootVars>>

\* The record is reaped, also when the proof says that something is left.
RecordReaped(w) ==
  /\ pc[w] = "finish" /\ StoreFree
  /\ record' = [record EXCEPT ![Current(w)] = "reaped"]
  /\ Goto(w, "drop")
  /\ UNCHANGED <<runVars, turn, flagVars, osVars, proofVars, abortVars, bootVars>>

DropJob(w) ==
  /\ pc[w] = "drop"
  /\ job' = Closed(job, Current(w))
  /\ Goto(w, "due")
  /\ UNCHANGED <<runVars, turn, flagVars, tree, record, proofVars, abortVars, bootVars>>

Host ==
  \E w \in Workers :
    \/ Register(w) \/ Spawn(w) \/ FallBack(w) \/ SpawnSuspended(w) \/ Assign(w)
    \/ LeaveSuspended(w) \/ SpawnFails(w) \/ PromptRead(w) \/ RecordSpawned(w) \/ RecordActive(w)
    \/ EnterLives(w) \/ HostFails(w)
    \/ SeeForce(w) \/ SeeCancel(w) \/ TimeOut(w) \/ SeeExit(w) \/ ForceAfterGrace(w)
    \/ WaitFails(w) \/ LeaveLives(w)
    \/ CountMembers(w) \/ Prove(w) \/ ProveClosed(w) \/ RecordReaped(w) \/ DropJob(w)

-----------------------------------------------------------------------------
(* The operating system.  A suspended process does nothing.                *)

Fork(p) ==
  /\ job[p] = "open" /\ "main" \in tree[p]
  /\ tree' = [tree EXCEPT ![p] = @ \cup {"child"}]
  /\ UNCHANGED <<runVars, pc, turn, flagVars, job, record, proofVars, abortVars, bootVars>>

\* A member ends, by itself or because its job is doomed.
Exit(p, m) ==
  /\ job[p] \in {"open", "doomed"} /\ m \in tree[p]
  /\ tree' = [tree EXCEPT ![p] = @ \ {m}]
  /\ UNCHANGED <<runVars, pc, turn, flagVars, job, record, proofVars, abortVars, bootVars>>

System == \E p \in Procs : Fork(p) \/ \E m \in {"main", "child"} : Exit(p, m)

-----------------------------------------------------------------------------
(* Stop: the flag, the kill, and after both the status.                    *)

RequestStop ==
  /\ up /\ crashes = 0 /\ stop = "no" /\ presses < MaxPresses
  /\ stopping' = TRUE /\ stop' = "kill"
  /\ presses' = presses + 1
  /\ UNCHANGED <<runStatus, sup, pc, turn, flagVars, osVars, record, proofVars, abort, bootVars>>

\* cancel_all with force.
ForceAll ==
  /\ force' = lives /\ cancel' = lives
  /\ job' = Doomed(job, lives)

StopKills ==
  /\ stop = "kill"
  /\ stop' = "write"
  /\ ForceAll
  /\ UNCHANGED <<runStatus, sup, stopping, pc, turn, lives, tree, record, proofVars,
                 abortVars, bootVars>>

\* Fault: the run gets a status that only attempts have.
StopWritesStopping ==
  /\ stop = "write" /\ StoreFree
  /\ stop' = "no" /\ runStatus' = "stopping"
  /\ UNCHANGED <<sup, stopping, pc, turn, flagVars, osVars, record, proofVars,
                 abortVars, bootVars>>

StopWrites ==
  /\ stop = "write" /\ StoreFree
  /\ stop' = "no" /\ SetStatus("cancelling")
  /\ UNCHANGED <<sup, stopping, pc, turn, flagVars, osVars, record, proofVars,
                 abortVars, bootVars>>

-----------------------------------------------------------------------------
(* The emergency abort, by its three ways in: the command (with a store of *)
(* its own), the shortcut and the tray (which hold the mutex).             *)

ActiveRun(via) ==
  CASE via = "command"  -> runStatus # "ended"
    [] via = "shortcut" -> runStatus # "ended" \/ lives # {}
    [] via = "tray"     -> lives # {}

\* The shortcut names the run only when it has not ended.
Named(via) == via # "shortcut" \/ runStatus # "ended"

(* A press that is not forced and finds no active run only asks.  The      *)
(* shortcut and the tray force by being pressed twice.                     *)
Press(via, forced) ==
  /\ up /\ abort.pc = "idle" /\ presses < MaxPresses
  /\ forced /\ via # "command" => presses > 0
  /\ presses' = presses + 1
  /\ IF forced \/ ActiveRun(via)
     THEN /\ abort' = [pc |-> "poll", forced |-> forced, locked |-> via # "command",
                       named |-> Named(via), stopped |-> ~forced /\ lives # {}]
          /\ IF forced THEN ForceAll ELSE cancel' = lives /\ UNCHANGED <<force, job>>
     ELSE UNCHANGED <<abort, cancel, force, job>>
  /\ UNCHANGED <<runVars, pc, turn, lives, tree, record, proofVars, bootVars>>

AbortGoto(there) == abort' = IF there = "idle" THEN NoAbort ELSE [abort EXCEPT !.pc = there]

(* The registry is polled until it is empty or the time is over.  A forced *)
(* abort over a registry that is not empty is an error.                    *)
PollEnds ==
  /\ abort.pc = "poll"
  /\ \/ AbortGoto(IF ~abort.named THEN "idle"
                  ELSE IF abort.forced THEN (IF Active = {} THEN "gate" ELSE "idle")
                  ELSE IF abort.stopped \/ Active # {} THEN "write" ELSE "idle")
     \/ "store" \in Faults /\ AbortGoto("idle")
  /\ UNCHANGED <<runVars, pc, turn, flagVars, osVars, record, proofVars, presses, bootVars>>

AbortGate ==
  /\ abort.pc = "gate"
  /\ AbortGoto(IF MayBecomeTerminal THEN "write" ELSE "idle")
  /\ UNCHANGED <<runVars, pc, turn, flagVars, osVars, record, proofVars, presses, bootVars>>

AbortWrites ==
  /\ abort.pc = "write"
  /\ SetStatus(IF abort.forced THEN "ended" ELSE "cancelling")
  /\ AbortGoto("idle")
  /\ UNCHANGED <<sup, stopping, stop, pc, turn, flagVars, osVars, record, proofVars,
                 presses, bootVars>>

User ==
  \/ RequestStop \/ StopKills \/ StopWrites
  \/ \E via \in {"command", "shortcut", "tray"}, forced \in BOOLEAN : Press(via, forced)
  \/ PollEnds \/ AbortGate \/ AbortWrites

-----------------------------------------------------------------------------
(* A crash closes every job handle.  The next start looks at every record  *)
(* that is active.                                                         *)

Crash ==
  /\ crashes < MaxCrashes
  /\ crashes' = crashes + 1
  /\ up' = FALSE /\ todo' = Active /\ hard' = FALSE
  /\ sup' = "off" /\ stopping' = FALSE /\ stop' = "no"
  /\ pc' = [w \in Workers |-> "idle"]
  /\ lives' = {} /\ cancel' = {} /\ force' = {}
  /\ job' = [p \in Procs |-> IF job[p] = "open" THEN "doomed" ELSE job[p]]
  /\ abort' = NoAbort
  /\ UNCHANGED <<runStatus, turn, tree, record, proofVars, presses, offer>>

\* Fault: the last record looked at decides.
ReconcileForgetful(p) ==
  /\ ~up /\ p \in todo
  /\ todo' = todo \ {p}
  /\ \/ /\ HasPid(p)
        /\ record' = [record EXCEPT ![p] = "reaped"]
        /\ hard' = FALSE
     \/ /\ ~HasPid(p) \/ "main" \in tree[p]
        /\ hard' = TRUE
        /\ UNCHANGED record
  /\ UNCHANGED <<runVars, pc, turn, flagVars, osVars, proofVars, abortVars, up, crashes, offer>>

(* One record of reconcile_owned_processes.  Without a pid it cannot be    *)
(* verified; a process that is gone, or cannot be queried, is recorded as  *)
(* reaped; a living one is killed, which may fail.                         *)
Reconcile(p) ==
  /\ ~up /\ p \in todo
  /\ todo' = todo \ {p}
  /\ \/ /\ HasPid(p)
        /\ record' = [record EXCEPT ![p] = "reaped"]
        /\ UNCHANGED hard
     \/ /\ ~HasPid(p) \/ "main" \in tree[p]
        /\ hard' = TRUE
        /\ UNCHANGED record
  /\ UNCHANGED <<runVars, pc, turn, flagVars, osVars, proofVars, abortVars, up, crashes, offer>>

\* A reconciliation that cannot write is a hard failure.
ReconcileFails ==
  /\ "store" \in Faults /\ ~up /\ todo # {}
  /\ todo' = {} /\ hard' = TRUE
  /\ UNCHANGED <<runVars, pc, turn, flagVars, osVars, record, proofVars, abortVars,
                 up, crashes, offer>>

Recoverable == {"executing", "interrupted"}

(* The end of the scan.  A run that is not recoverable is offered when an  *)
(* attempt of it was interrupted; attempts are not part of this module, so *)
(* that is open here.                                                      *)
ScanEnds ==
  /\ ~up /\ todo = {}
  /\ up' = TRUE
  /\ \/ /\ offer' = IF hard THEN "blocked" ELSE "pending"
        /\ IF runStatus = "ended" THEN UNCHANGED runStatus ELSE SetStatus("interrupted")
     \/ /\ ~hard /\ runStatus \notin Recoverable
        /\ UNCHANGED <<offer, runStatus>>
  /\ UNCHANGED <<sup, stopping, stop, pc, turn, flagVars, osVars, record, proofVars,
                 abortVars, crashes, todo, hard>>

ResolveResume ==
  /\ up /\ offer \in {"pending", "resumed"} /\ StoreFree
  /\ offer' = "resumed" /\ SetStatus("executing")
  /\ UNCHANGED <<sup, stopping, stop, pc, turn, flagVars, osVars, record, proofVars,
                 abortVars, up, crashes, todo, hard>>

ResolveCancel ==
  /\ up /\ offer # "none" /\ MayBecomeTerminal /\ StoreFree
  /\ offer' = "cancelled" /\ SetStatus("ended")
  /\ UNCHANGED <<sup, stopping, stop, pc, turn, flagVars, osVars, record, proofVars,
                 abortVars, up, crashes, todo, hard>>

Recovery ==
  \/ Crash \/ ReconcileFails \/ ScanEnds \/ ResolveResume \/ ResolveCancel
  \/ \E p \in Procs : Reconcile(p)

Next == Supervisor \/ Host \/ System \/ User \/ Recovery

Spec == Init /\ [][Next]_vars

-----------------------------------------------------------------------------
(* Fairness: threads and the operating system go on; the watchdog's time   *)
(* passes; an agent reads its prompt, unless it may be deaf.  Nothing is   *)
(* asked of users, of processes that could end by themselves, or of faults.*)

Progress(w) ==
  \/ Register(w) \/ WorkerEnds(w)
  \/ Spawn(w) \/ Assign(w) \/ RecordSpawned(w) \/ RecordActive(w) \/ EnterLives(w)
  \/ "deaf" \notin Faults /\ PromptRead(w)
  \/ pc[w] \in {"writing", "feeding"} /\ "main" \notin tree[Current(w)]
       /\ (FallBack(w) \/ SpawnFails(w))
  \/ pc[w] = "fallback" /\ SpawnSuspended(w)
  \/ SeeForce(w) \/ SeeCancel(w) \/ TimeOut(w) \/ SeeExit(w) \/ ForceAfterGrace(w)
  \/ LeaveLives(w)
  \/ CountMembers(w) \/ Prove(w) \/ ProveClosed(w) \/ RecordReaped(w) \/ DropJob(w)

Fairness ==
  /\ \A w \in Workers : WF_vars(Progress(w))
  /\ \A p \in Procs : WF_vars(job[p] = "doomed" /\ \E m \in {"main", "child"} : Exit(p, m))
  /\ WF_vars(PollEnds \/ AbortGate \/ AbortWrites)
  /\ WF_vars(RoundEnds \/ CancelObserved \/ Joined)

FairSpec == Spec /\ Fairness

-----------------------------------------------------------------------------
(* Properties.                                                             *)

(* No process escapes: what lives is doomed, or in the job of a hosted     *)
(* call that goes on, or was left suspended outside any job and then its   *)
(* record stays registered, where the next start finds it.                 *)
NothingEscapes ==
  \A p \in Procs : tree[p] # {} =>
    \/ job[p] = "doomed"
    \/ job[p] = "open" /\ Hosting(p)
    \/ job[p] = "none" /\ record[p] = "registered"

(* A cleanup proof that says zero is true from then on: no member of the   *)
(* tree lives, descendants included (finalize_cleanup observes while the   *)
(* job handle is open).                                                    *)
ProofMeansDead == \A p \in Procs : proof[p] = "zero" => tree[p] = {}

(* registered, spawned, active, graceful_stop, forced_stop, reaped: a      *)
(* record never moves back, whoever writes it, and reaped is final         *)
(* (MASTER-PLAN.md, 8.4).                                                  *)
Place == [s \in RecordStates |->
            CASE s = "none" -> 0 [] s = "registered" -> 1 [] s = "spawned" -> 2
              [] s = "active" -> 3 [] s = "graceful_stop" -> 4
              [] s = "forced_stop" -> 5 [] s = "reaped" -> 6]

RecordMovesForward == [][\A p \in Procs : Place[record[p]] <= Place[record'[p]]]_vars

(* A run is only offered for Resume, and only resumed, when no record of a *)
(* process is active: the next start has accounted for each of them.       *)
ResumeOnlyWhenClean == offer \in {"pending", "resumed"} /\ up => Active = {}

(* A run cancelled by the user's answer has no active record and proof of  *)
(* the cleanup of its last hosted process (resolve_cancel, "fail closed    *)
(* before any write that would mark the run terminal").                    *)
RecoveredCancelIsClean ==
  offer = "cancelled" =>
    /\ Active = {}
    /\ \A p \in Procs : tree[p] # {} => job[p] = "doomed"

(* Every hosted call returns: the watchdog, a kill or the exit ends it.    *)
HostCallEnds == \A w \in Workers : []<>(pc[w] \notin Calling)

(* A Stop is answered, also when its kill comes before a process can be    *)
(* cancelled or between two processes of a worker: the supervisor ends and *)
(* no process that was ever in a job lives.                                *)
StopClears ==
  []<>(stopping => sup = "off" /\ \A p \in Procs : tree[p] = {} \/ job[p] = "none")
=============================================================================
