------------------------------ MODULE Journal ------------------------------
(***************************************************************************)
(* The event log of the runs: append_event_atomic of db/store.rs, the      *)
(* functions that call it, and the front end (src/lib/tauri/bridge.ts,     *)
(* src/features/shell/Shell.tsx), which shows what it replays from the log *)
(* and what it hears of live.                                              *)
(*                                                                         *)
(* There are two connections to the database: the one of AppState, which a *)
(* mutex guards, and the sidecar of an abort.  A transaction is deferred:  *)
(* its first SELECT takes a snapshot, and its first write asks for the     *)
(* write lock.  SQLite refuses that at once, whatever busy_timeout says,   *)
(* when the other connection holds the lock or has committed since the     *)
(* snapshot.  A statement of its own, outside a transaction that has read, *)
(* waits.                                                                  *)
(*                                                                         *)
(* An event is <<writer, n>>, the n-th of its writer: its event_id.        *)
(***************************************************************************)
EXTENDS Integers, Sequences, FiniteSets

CONSTANTS
  Runs,        \* the runs in the order they were created: 1..n
  Tries,       \* attempts of with_busy_retry, 8 in the code
  MaxCrashes,  \* bound: restarts of the application
  MarkFails    \* whether mark_outbox_delivered may fail

ASSUME JournalAssumption ==
  /\ IsFiniteSet(Runs) /\ Runs # {} /\ Runs = 1..Cardinality(Runs)
  /\ Tries \in Nat \ {0} /\ MaxCrashes \in Nat
  /\ MarkFails \in BOOLEAN

\* emit_run_event, emit_process_event, the scheduler's events, and the event of an abort.
Writers == {"supervisor", "host", "scheduler", "abort"}
Connection(w) == IF w = "abort" THEN "sidecar" ELSE "main"

VARIABLES
  log,       \* table events: per run its rows, in the order of the commits
  stale,     \* writers whose snapshot a commit has overtaken
  lock,      \* the writer or connection that holds the write lock, or "none"
  mutex,     \* the writer that holds AppState.store, or "none"
  writer,    \* writers: what they do next, for which run, how often they tried, the number they read
  answered,  \* answers to the writers: <<event, "ok" or "error">>
  crashes,
  channel,   \* emitted, on the way to the listener
  front,     \* the front end: what it waits for, the reply under way, whether it listens
  view       \* the events it shows, in the order they came

storeVars == <<log, stale, lock, mutex>>
frontVars == <<channel, front, view>>
journalVars == <<storeVars, writer, answered, crashes, frontVars>>

Idle == [at |-> "idle", run |-> 1, event |-> <<>>, try |-> 1, sequence |-> 0]
Closed == [at |-> "off", reply |-> <<>>, listens |-> FALSE]

JournalInit ==
  /\ log = [r \in Runs |-> <<>>] /\ stale = {} /\ lock = "none" /\ mutex = "none" /\ crashes = 0
  /\ writer = [w \in Writers |-> Idle] /\ answered = {}
  /\ channel = <<>> /\ front = Closed /\ view = <<>>

(***************************************************************************)
(* Helpers                                                                 *)
(***************************************************************************)
EventIds(r) == [i \in DOMAIN log[r] |-> log[r][i].event]
Known(s) == {s[i] : i \in DOMAIN s}
Logged == UNION {Known(EventIds(r)) : r \in Runs}

\* COALESCE(MAX(sequence), 0) + 1.
NextSequence(r) == IF log[r] = <<>> THEN 1 ELSE log[r][Len(log[r])].sequence + 1

Written(w) == Cardinality({a \in answered : a[1][1] = w})
Begun == Cardinality(answered) + Cardinality({w \in Writers : writer[w].at # "idle"})

HasMutex(w) == Connection(w) = "sidecar" \/ mutex = w
MayLock(w) == Connection(w) = "sidecar" \/ mutex = "none"
Locked(w) == IF Connection(w) = "sidecar" THEN mutex ELSE w
Unlocked(w) == IF Connection(w) = "sidecar" THEN mutex ELSE "none"

\* A commit overtakes the snapshots of the transactions that have only read.
Commits == stale' = {w \in Writers : writer[w].at = "read"}

Answer(w, a) == answered' = answered \cup {<<writer[w].event, a>>}

(***************************************************************************)
(* append_event_atomic                                                     *)
(***************************************************************************)
\* The mutex, the transaction and its SELECTs; again with the same event after a busy error.
Read(w) == \E r \in Runs :
  /\ MayLock(w)
  /\ \/ writer[w].at = "idle"
     \/ writer[w].at = "again" /\ r = writer[w].run
  /\ mutex' = Locked(w) /\ stale' = stale \ {w}
  /\ writer' = [writer EXCEPT ![w] =
       [at |-> "read", run |-> r, try |-> IF @.at = "again" THEN @.try + 1 ELSE 1,
        event |-> IF @.at = "again" THEN @.event ELSE <<w, Written(w) + 1>>, sequence |-> NextSequence(r)]]
  /\ UNCHANGED <<log, lock, answered, crashes, frontVars>>

\* The first write is refused.
Busy(w) == writer[w].at = "read" /\ (lock # "none" \/ w \in stale)

\* An UPDATE of the status, or the INSERT.
Write(w) ==
  /\ writer[w].at = "read" /\ lock = "none" /\ ~Busy(w)
  /\ lock' = w
  /\ writer' = [writer EXCEPT ![w].at = "write"]
  /\ UNCHANGED <<log, stale, mutex, answered, crashes, frontVars>>

\* with_busy_retry in emit_run_event; the others give up, and the scheduler and the abort do not
\* look at the error.
Refused(w) ==
  /\ Busy(w)
  /\ mutex' = Unlocked(w)
  /\ \/ /\ w = "supervisor" /\ writer[w].try < Tries
        /\ writer' = [writer EXCEPT ![w].at = "again"]
        /\ UNCHANGED answered
     \/ /\ w # "supervisor" \/ writer[w].try = Tries
        /\ writer' = [writer EXCEPT ![w].at = "idle"]
        /\ Answer(w, "error")
  /\ UNCHANGED <<log, stale, lock, crashes, frontVars>>

\* UNIQUE on event_id and on run and sequence: nothing is written.
Duplicate(w) ==
  \/ writer[w].event \in Logged
  \/ \E i \in DOMAIN log[writer[w].run] : log[writer[w].run][i].sequence = writer[w].sequence

\* INSERT into events and event_outbox, and COMMIT.
Commit(w) ==
  /\ writer[w].at = "write" /\ lock' = "none"
  /\ IF Duplicate(w)
     THEN /\ writer' = [writer EXCEPT ![w].at = "idle"] /\ mutex' = Unlocked(w)
          /\ Answer(w, "error")
          /\ UNCHANGED <<log, stale>>
     ELSE /\ log' = [log EXCEPT ![writer[w].run] =
               Append(@, [sequence |-> writer[w].sequence, event |-> writer[w].event])]
          /\ Commits
          /\ writer' = [writer EXCEPT ![w].at = IF w \in {"supervisor", "host"} THEN "mark" ELSE "idle"]
          /\ mutex' = IF w = "supervisor" THEN mutex ELSE Unlocked(w)
          /\ IF w \in {"supervisor", "host"} THEN UNCHANGED answered ELSE Answer(w, "ok")
  /\ UNCHANGED <<crashes, frontVars>>

(***************************************************************************)
(* Callers                                                                 *)
(***************************************************************************)
\* Fault: an error of mark_outbox_delivered ends the attempt like one of the append.
MarkOrRetry(w) ==
  /\ writer[w].at = "mark" /\ lock = "none"
  /\ HasMutex(w) \/ MayLock(w)
  /\ mutex' = "none"
  /\ \/ Commits /\ writer' = [writer EXCEPT ![w].at = "emit"]
     \/ MarkFails /\ stale' = stale /\ writer' = [writer EXCEPT ![w].at = "again"]
  /\ UNCHANGED <<log, lock, answered, crashes, frontVars>>

\* mark_outbox_delivered, in emit_run_event under the same hold of the mutex, in
\* emit_process_event under another; both ignore its error.
Mark(w) ==
  /\ writer[w].at = "mark" /\ lock = "none"
  /\ HasMutex(w) \/ MayLock(w)
  /\ mutex' = "none"
  /\ Commits \/ (MarkFails /\ UNCHANGED stale)
  /\ writer' = [writer EXCEPT ![w].at = "emit"]
  /\ UNCHANGED <<log, lock, answered, crashes, frontVars>>

\* app.emit, after the mutex was given back; who does not listen yet does not hear it.
Emit(w) ==
  /\ writer[w].at = "emit"
  /\ channel' = IF front.listens THEN Append(channel, writer[w].event) ELSE channel
  /\ writer' = [writer EXCEPT ![w].at = "idle"]
  /\ Answer(w, "ok")
  /\ UNCHANGED <<storeVars, crashes, front, view>>

(***************************************************************************)
(* The front end.  A command answers it on the main thread, and the answer *)
(* comes back by way of its event loop, as do the events it hears.         *)
(***************************************************************************)
\* connectEventBridge: ensureDemoRun names the first run of the list; its replayEvents.
Connect ==
  /\ front.at = "off" /\ mutex = "none"
  /\ front' = [front EXCEPT !.at = "replayed", !.reply = EventIds(1)]
  /\ UNCHANGED <<storeVars, writer, answered, crashes, channel, view>>

\* Fault: what comes is shown, also when it is shown already.
ShowAll(s) == view \o s

\* The callback of Shell: one after the other the events of a batch that are not shown yet.
Show(s) ==
  LET merged[n \in 0..Len(s)] ==
        IF n = 0 THEN view
        ELSE IF s[n] \in Known(merged[n - 1]) THEN merged[n - 1] ELSE Append(merged[n - 1], s[n])
  IN merged[Len(s)]

ShowReplayed ==
  /\ front.at = "replayed"
  /\ view' = Show(front.reply)
  /\ front' = [front EXCEPT !.at = "subscribing", !.reply = <<>>]
  /\ UNCHANGED <<storeVars, writer, answered, crashes, channel>>

Listen ==
  /\ front.at = "subscribing"
  /\ front' = [front EXCEPT !.at = "connected", !.listens = TRUE]
  /\ UNCHANGED <<storeVars, writer, answered, crashes, channel, view>>

Hear ==
  /\ channel # <<>>
  /\ view' = Show(<<Head(channel)>>) /\ channel' = Tail(channel)
  /\ UNCHANGED <<storeVars, writer, answered, crashes, front>>

\* onStart, after start_run: replayEvents of the new run, and setEvents, which forgets the rest.
ReplayStarted(r) ==
  /\ front.at = "connected" /\ mutex = "none" /\ r # 1
  /\ front' = [front EXCEPT !.at = "started", !.reply = EventIds(r)]
  /\ UNCHANGED <<storeVars, writer, answered, crashes, channel, view>>

SetEvents ==
  /\ front.at = "started"
  /\ view' = front.reply
  /\ front' = [front EXCEPT !.at = "connected", !.reply = <<>>]
  /\ UNCHANGED <<storeVars, writer, answered, crashes, channel>>

\* The process ends; what was not committed is gone, and nobody gets an answer any more.
Crash ==
  /\ crashes < MaxCrashes
  /\ crashes' = crashes + 1
  /\ lock' = "none" /\ mutex' = "none" /\ stale' = {}
  /\ writer' = [w \in Writers |-> Idle]
  /\ answered' = answered \cup {<<writer[w].event, "lost">> : w \in {v \in Writers : writer[v].at # "idle"}}
  /\ channel' = <<>> /\ front' = Closed /\ view' = <<>>
  /\ UNCHANGED log

JournalStep ==
  \/ \E w \in Writers : Read(w) \/ Write(w) \/ Refused(w) \/ Commit(w) \/ Mark(w) \/ Emit(w)
  \/ Connect \/ ShowReplayed \/ Listen \/ Hear \/ (\E r \in Runs : ReplayStarted(r)) \/ SetEvents

(***************************************************************************)
(* Properties                                                              *)
(***************************************************************************)
\* The log is what the writers were told: the events of a run are numbered from 1 without a gap in
\* the order they were committed, although two connections take the numbers from snapshots; who was
\* told of success has its event there, and who was told of an error has not, so that a caller that
\* repeats it does not write it twice (append_event_atomic, with_busy_retry, emit_run_event).
LogIsTrue ==
  /\ \A r \in Runs : \A i \in DOMAIN log[r] : log[r][i].sequence = i
  /\ \A r, q \in Runs : \A i \in DOMAIN log[r], j \in DOMAIN log[q] :
       log[r][i].event = log[q][j].event => r = q /\ i = j
  /\ \A a \in answered :
       /\ a[2] = "ok" => a[1] \in Logged
       /\ a[2] = "error" => a[1] \notin Logged

\* The front end shows only events that are in the log, and none twice, whatever it replays and
\* hears at the same time (connectEventBridge, Shell, Emit after Commit; MASTER-PLAN.md:1005).
ShownOnce ==
  /\ Known(view) \cup Known(channel) \cup Known(front.reply) \subseteq Logged
  /\ \A i, j \in DOMAIN view : view[i] = view[j] => i = j
=============================================================================
