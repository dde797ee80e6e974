------------------------------- MODULE Ledger -------------------------------
(***************************************************************************)
(* The ledger of side effects: execute_idempotent and                      *)
(* reconcile_side_effect of recovery/ledger.rs, what startup recovery does *)
(* with it, and the faults of recovery/fault.rs.  Its calls hold the mutex *)
(* of the event log's main connection, and every write is a commit that an *)
(* abort's transaction may have to give way to.                            *)
(*                                                                         *)
(* An effect stands for its key, which is made of kind, run and scope.     *)
(***************************************************************************)
EXTENDS Journal

CONSTANTS
  Effects,   \* the side effects
  Exits,     \* those of kind process_exit, which has no fault point after the operation
  MaxWork    \* bound: events and calls of execute_idempotent together

ASSUME LedgerAssumption == Exits \subseteq Effects /\ MaxWork \in Nat

VARIABLES
  record,  \* table side_effects: the state of each, or "none"
  call,    \* the call of execute_idempotent under way
  calls,
  ran,     \* how often the operation of each succeeded
  cut      \* how often a call ended between that and the last write

ledgerVars == <<record, call, calls, ran, cut>>
storeLogVars == <<journalVars, ledgerVars>>

NoCall == [at |-> "none", effect |-> "none"]

LedgerInit ==
  /\ record = [e \in Effects |-> "none"] /\ call = NoCall /\ calls = 0
  /\ ran = [e \in Effects |-> 0] /\ cut = [e \in Effects |-> 0]

\* The call under way goes on to a step, under the mutex, or ends and gives it back.
GoOn(to) == call' = [call EXCEPT !.at = to] /\ mutex' = "ledger"
Return == call' = NoCall /\ mutex' = "none"

\* upsert_side_effect: a statement of its own.
Upsert(e, state) ==
  /\ lock = "none"
  /\ record' = [record EXCEPT ![e] = state]
  /\ Commits
  /\ UNCHANGED <<log, lock, writer, answered, crashes, frontVars>>

NoUpsert == UNCHANGED <<record, log, stale, lock, writer, answered, crashes, frontVars>>

(***************************************************************************)
(* execute_idempotent                                                      *)
(***************************************************************************)
\* A reconciled effect is returned as it is; any other state starts again from prepared.
Prepare(e) ==
  /\ call = NoCall /\ mutex = "none"
  /\ record[e] # "reconciled"
  /\ calls' = calls + 1
  /\ call' = [at |-> "prepared", effect |-> e] /\ mutex' = "ledger"
  /\ Upsert(e, "prepared")
  /\ UNCHANGED <<ran, cut>>

\* check_fault before the operation: a rule of either action ends the call.
FaultBefore ==
  /\ call.at = "prepared"
  /\ Return /\ NoUpsert
  /\ UNCHANGED <<calls, ran, cut>>

Execute ==
  /\ call.at = "prepared"
  /\ GoOn("executing") /\ Upsert(call.effect, "executing")
  /\ UNCHANGED <<calls, ran, cut>>

\* The operation: an error of it ends the call.
Operation ==
  /\ call.at = "executing" /\ NoUpsert
  /\ \/ GoOn("ran") /\ ran' = [ran EXCEPT ![call.effect] = @ + 1]
     \/ Return /\ UNCHANGED ran
  /\ UNCHANGED <<calls, cut>>

Observe ==
  /\ call.at = "ran"
  /\ GoOn("observed") /\ Upsert(call.effect, "observed")
  /\ UNCHANGED <<calls, ran, cut>>

\* check_fault after the operation: the effect is left observed.
FaultAfter ==
  /\ call.at = "observed" /\ call.effect \notin Exits
  /\ Return /\ NoUpsert
  /\ cut' = [cut EXCEPT ![call.effect] = @ + 1]
  /\ UNCHANGED <<calls, ran>>

Reconcile ==
  /\ call.at = "observed"
  /\ Return /\ Upsert(call.effect, "reconciled")
  /\ UNCHANGED <<calls, ran, cut>>

(***************************************************************************)
(* Startup recovery                                                        *)
(***************************************************************************)
\* Fault: list_unreconciled_side_effects returns every effect of the table.
CollapsedAll == [e \in Effects |-> IF record[e] = "none" THEN "none" ELSE "prepared"]

\* reconcile_side_effect with external_succeeded = false, for list_unreconciled_side_effects.
Collapsed == [e \in Effects |-> IF record[e] \in {"executing", "observed"} THEN "prepared" ELSE record[e]]

\* The command run_startup_recovery, between two calls.
Recover ==
  /\ call = NoCall /\ mutex = "none" /\ lock = "none"
  /\ record' = Collapsed /\ record' # record /\ Commits
  /\ UNCHANGED <<log, lock, mutex, writer, answered, crashes, frontVars, call, calls, ran, cut>>

\* The process ends, and the next one begins with startup recovery.
Restart ==
  /\ Crash
  /\ record' = Collapsed /\ call' = NoCall
  /\ cut' = IF call.at \in {"ran", "observed"} THEN [cut EXCEPT ![call.effect] = @ + 1] ELSE cut
  /\ UNCHANGED <<calls, ran>>

LedgerStep ==
  \/ (\E e \in Effects : Prepare(e)) \/ FaultBefore \/ Execute \/ Operation \/ Observe
  \/ FaultAfter \/ Reconcile \/ Recover

StoreLogInit == JournalInit /\ LedgerInit
StoreLogNext ==
  /\ (JournalStep /\ UNCHANGED ledgerVars) \/ LedgerStep \/ Restart
  /\ Begun' + calls' <= MaxWork
StoreLogSpec == StoreLogInit /\ [][StoreLogNext]_storeLogVars

(***************************************************************************)
(* Properties                                                              *)
(***************************************************************************)
\* An effect the ledger calls reconciled has happened, and an operation runs again only for a call
\* that was cut off after it and before the last write: not for one that was completed, nor after
\* recovery has gone over the ledger (execute_idempotent, reconcile_side_effect, startup.rs:213).
EffectsRunOnce ==
  \A e \in Effects :
    /\ record[e] = "reconciled" => ran[e] > 0
    /\ ran[e] <= cut[e] + (IF record[e] = "reconciled" \/ (call.effect = e /\ call.at \in {"ran", "observed"})
                           THEN 1 ELSE 0)
=============================================================================
