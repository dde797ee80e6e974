--------------------------- MODULE StoreLogProofs ---------------------------
(***************************************************************************)
(* What the runs check of the event log, the front end and the ledger, for *)
(* every number of runs, every set of effects and every bound.             *)
(***************************************************************************)
EXTENDS Ledger, FiniteSetTheorems, TLAPS

(***************************************************************************)
(* The ledger.  A call leaves its step in the table before it goes on, so  *)
(* the state of an effect in work is the step of its call: it is not       *)
(* reconciled, and its operation has run where the step says so.           *)
(***************************************************************************)
RecordStates == {"none", "prepared", "executing", "observed", "reconciled"}

\* Every variable of the ledger keeps its type.
LedgerTypeOK ==
  /\ record \in [Effects -> RecordStates]
  /\ ran \in [Effects -> Nat] /\ cut \in [Effects -> Nat]
  /\ \/ call = NoCall
     \/ call \in [at : {"prepared", "executing", "ran", "observed"}, effect : Effects]

\* What the table says of the effect in work.
InWork ==
  /\ call.at = "prepared" => record[call.effect] = "prepared"
  /\ call.at \in {"executing", "ran"} => record[call.effect] = "executing"
  /\ call.at = "observed" => record[call.effect] = "observed"
  /\ call.at \in {"ran", "observed"} => ran[call.effect] > 0

LedgerInv == LedgerTypeOK /\ InWork /\ EffectsRunOnce

\* Before the first call no effect is in the table, and no operation has run.
LEMMA LedgerInvInit == StoreLogInit => LedgerInv
  BY DEF StoreLogInit, LedgerInit, LedgerInv, LedgerTypeOK, RecordStates, NoCall, InWork, EffectsRunOnce

\* Recovery gives up the effects that were executing or observed, and leaves the reconciled ones
\* (reconcile_side_effect).
LEMMA CollapsedKeeps ==
  ASSUME LedgerTypeOK
  PROVE  /\ Collapsed \in [Effects -> RecordStates]
         /\ \A e \in Effects : Collapsed[e] = "reconciled" <=> record[e] = "reconciled"
  BY DEF LedgerTypeOK, RecordStates, Collapsed

\* Every step of a call, recovery and a restart keep the invariant (execute_idempotent).
LEMMA LedgerInvNext == LedgerInv /\ [StoreLogNext]_storeLogVars => LedgerInv'
<1> SUFFICES ASSUME LedgerInv, [StoreLogNext]_storeLogVars
             PROVE  LedgerInv'
  OBVIOUS
<1> USE DEF LedgerInv, LedgerTypeOK, InWork, EffectsRunOnce, NoCall
<1>1. CASE UNCHANGED ledgerVars
  BY <1>1 DEF ledgerVars
<1>2. ASSUME NEW e \in Effects, Prepare(e)
      PROVE  LedgerInv'
  BY <1>2 DEF Prepare, Upsert, RecordStates
<1>3. CASE FaultBefore
  BY <1>3 DEF FaultBefore, Return, NoUpsert
<1>4. CASE Execute
  BY <1>4 DEF Execute, GoOn, Upsert, RecordStates
<1>5. CASE Operation
  <2>1. CASE GoOn("ran") /\ ran' = [ran EXCEPT ![call.effect] = @ + 1]
    BY <1>5, <2>1 DEF Operation, GoOn, NoUpsert
  <2>2. CASE Return /\ UNCHANGED ran
    BY <1>5, <2>2 DEF Operation, Return, NoUpsert
  <2> QED
    BY <1>5, <2>1, <2>2 DEF Operation
<1>6. CASE Observe
  BY <1>6 DEF Observe, GoOn, Upsert, RecordStates
<1>7. CASE FaultAfter
  BY <1>7 DEF FaultAfter, Return, NoUpsert
<1>8. CASE Reconcile
  BY <1>8 DEF Reconcile, Return, Upsert, RecordStates
<1>9. CASE Recover
  BY <1>9, CollapsedKeeps DEF Recover
<1>10. CASE Restart
  BY <1>10, CollapsedKeeps DEF Restart
<1> QED
  BY <1>1, <1>2, <1>3, <1>4, <1>5, <1>6, <1>7, <1>8, <1>9, <1>10
     DEF StoreLogNext, LedgerStep, storeLogVars

\* An effect the ledger calls reconciled has happened, and an operation runs again only for a call
\* that was cut off between it and the last write: whatever the bounds, also when recovery is run
\* between two calls and the application restarts within one (execute_idempotent,
\* reconcile_side_effect).
THEOREM OperationsRunOnce == StoreLogSpec => []EffectsRunOnce
<1>1. LedgerInv => EffectsRunOnce
  BY DEF LedgerInv
<1> QED
  BY LedgerInvInit, LedgerInvNext, <1>1, PTL DEF StoreLogSpec

(***************************************************************************)
(* The event log.  A commit marks the snapshots it overtakes as stale, and *)
(* a writer takes the lock only on one that is not: so the number it read  *)
(* is still the next one when it inserts.  An event is numbered when its   *)
(* writer begins with it, and counted when the writer is answered: so it   *)
(* is in the log exactly if the answer says so.                            *)
(***************************************************************************)
\* The n-th event of a writer, a row of the table, and what a writer does next.
Events == Writers \X Nat
Rows == [sequence : Nat, event : Events]
WriterSteps == {"idle", "again", "read", "write", "mark", "emit"}

\* Every variable of the log keeps its type.
JournalTypeOK ==
  /\ log \in [Runs -> Seq(Rows)]
  /\ stale \subseteq Writers /\ lock \in Writers \cup {"none"}
  /\ writer \in [Writers -> [at : WriterSteps, run : Runs, event : Events \cup {<<>>},
                             try : Nat, sequence : Nat]]
  /\ answered \subseteq Events \X {"ok", "error", "lost"} /\ IsFiniteSet(answered)

\* The write lock is held by the writer that writes.
LockHeld == \A w \in Writers : writer[w].at = "write" <=> lock = w

\* The events of a writer are numbered in the order it was answered; the one it works on is the next.
Numbered ==
  /\ \A a \in answered : a[1][2] <= Written(a[1][1])
  /\ \A w \in Writers : writer[w].at # "idle" => writer[w].event = <<w, Written(w) + 1>>

\* In the log are events that were answered, or that their writer still has to tell of.
LoggedByNow ==
  /\ \A e \in Logged : \/ e[2] <= Written(e[1])
                       \/ writer[e[1]].at \in {"mark", "emit"} /\ e = writer[e[1]].event
  /\ \A w \in Writers : writer[w].at \in {"mark", "emit"} => writer[w].event \in Logged

\* A snapshot that no commit has overtaken names the next number of its run.
Snapshots ==
  \A w \in Writers :
    writer[w].at = "write" \/ (writer[w].at = "read" /\ w \notin stale)
      => writer[w].sequence = Len(log[writer[w].run]) + 1

\* The invariant of the log.
JournalInv == JournalTypeOK /\ LockHeld /\ Numbered /\ LoggedByNow /\ Snapshots /\ LogIsTrue

\* The first run is there.
LEMMA FirstRun == 1 \in Runs
<1>1. Cardinality(Runs) \in Nat
  BY JournalAssumption, FS_CardinalityType
<1> QED
  BY <1>1, JournalAssumption

\* An event is logged when some row of some run holds it.
LEMMA LoggedIs ==
  ASSUME NEW e
  PROVE  e \in Logged <=> \E r \in Runs : \E i \in DOMAIN log[r] : log[r][i].event = e
<1>1. ASSUME NEW r \in Runs
      PROVE  e \in Known(EventIds(r)) <=> \E i \in DOMAIN log[r] : log[r][i].event = e
  BY DEF Known, EventIds
<1>2. e \in Logged <=> \E r \in Runs : e \in Known(EventIds(r))
  BY DEF Logged
<1> QED
  BY <1>1, <1>2

\* The same after a step.
LEMMA LoggedIsNext ==
  ASSUME NEW e
  PROVE  e \in Logged' <=> \E r \in Runs : \E i \in DOMAIN log'[r] : log'[r][i].event = e
<1>1. ASSUME NEW r \in Runs
      PROVE  e \in Known(EventIds(r))' <=> \E i \in DOMAIN log'[r] : log'[r][i].event = e
  BY DEF Known, EventIds
<1>2. e \in Logged' <=> \E r \in Runs : e \in Known(EventIds(r))'
  BY DEF Logged
<1> QED
  BY <1>1, <1>2

\* As long as no row comes, the same events are logged.
LEMMA SameLog == UNCHANGED log => Logged' = Logged
  BY DEF Logged, Known, EventIds

\* As long as nobody is answered, the numbers of the events go on from the same.
LEMMA SameAnswers ==
  ASSUME UNCHANGED answered, NEW w
  PROVE  Written(w)' = Written(w)
  BY DEF Written

\* What is logged are events.
LEMMA LoggedAreEvents == JournalTypeOK => Logged \subseteq Events
<1> SUFFICES ASSUME JournalTypeOK, NEW e \in Logged
             PROVE  e \in Events
  OBVIOUS
<1>1. PICK r \in Runs : \E i \in DOMAIN log[r] : log[r][i].event = e
  BY LoggedIs
<1>2. log[r] \in Seq(Rows)
  BY DEF JournalTypeOK
<1>3. \A i \in DOMAIN log[r] : log[r][i] \in Rows
  BY <1>2
<1> QED
  BY <1>1, <1>3 DEF Rows

\* What each writer was answered is finite, and so is its number.
LEMMA WrittenIsNat ==
  ASSUME JournalTypeOK, NEW w \in Writers
  PROVE  Written(w) \in Nat
  BY FS_Subset, FS_CardinalityType DEF JournalTypeOK, Written

\* An answer counts once, for its writer.
LEMMA AnswerCounts ==
  ASSUME JournalTypeOK, Numbered, NEW w \in Writers, writer[w].at # "idle",
         NEW verdict \in {"ok", "error", "lost"}, Answer(w, verdict)
  PROVE  /\ answered' \subseteq Events \X {"ok", "error", "lost"} /\ IsFiniteSet(answered')
         /\ Written(w)' = Written(w) + 1
         /\ \A v \in Writers \ {w} : Written(v)' = Written(v)
<1> DEFINE Of(v) == {a \in answered : a[1][1] = v}
           new == <<writer[w].event, verdict>>
<1>0. writer[w].event = <<w, Written(w) + 1>> /\ Written(w) \in Nat
  BY WrittenIsNat DEF Numbered
<1>1. new \in Events \X {"ok", "error", "lost"} /\ new[1] = <<w, Written(w) + 1>>
  BY <1>0 DEF Events
<1>2. answered' = answered \cup {new}
  BY DEF Answer
<1>3. IsFiniteSet(answered')
  BY <1>2, FS_AddElement DEF JournalTypeOK
<1>4. new \notin answered
  BY <1>0, <1>1 DEF Numbered
<1>5. IsFiniteSet(Of(w)) /\ new \notin Of(w)
  BY <1>4, FS_Subset DEF JournalTypeOK
<1>6. Cardinality(Of(w) \cup {new}) = Cardinality(Of(w)) + 1
  <2> HIDE DEF Of, new
  <2> QED BY <1>5, FS_AddElement
<1>7. {a \in answered' : a[1][1] = w} = Of(w) \cup {new}
  BY <1>1, <1>2
<1>8. \A v \in Writers \ {w} : {a \in answered' : a[1][1] = v} = Of(v)
  BY <1>1, <1>2
<1> QED
  BY <1>1, <1>2, <1>3, <1>6, <1>7, <1>8 DEF Written, JournalTypeOK

\* At first nothing is logged, and nobody writes.
LEMMA JournalInvInit == StoreLogInit => JournalInv
<1> SUFFICES ASSUME JournalInit
             PROVE  JournalInv
  BY DEF StoreLogInit
<1>1. JournalTypeOK
  BY FirstRun, FS_EmptySet DEF JournalInit, JournalTypeOK, Idle, WriterSteps
<1>2. Logged = {}
  BY LoggedIs, FirstRun DEF JournalInit
<1>3. LockHeld /\ Numbered /\ LoggedByNow /\ Snapshots
  BY <1>2 DEF JournalInit, LockHeld, Numbered, LoggedByNow, Snapshots, Idle, Writers
<1>4. LogIsTrue
  BY DEF JournalInit, LogIsTrue
<1> QED
  BY <1>1, <1>3, <1>4 DEF JournalInv

\* Commits of other tables only overtake snapshots.
LEMMA QuietKeepsJournal ==
  ASSUME JournalInv, UNCHANGED <<log, lock, writer, answered>>,
         UNCHANGED stale \/ Commits
  PROVE  JournalInv'
<1>1. stale' \subseteq Writers
  BY DEF Commits, JournalInv, JournalTypeOK
<1>2. \A w \in Writers : writer[w].at = "read" /\ w \notin stale' => w \notin stale
  BY DEF Commits, JournalInv, JournalTypeOK
<1>3. JournalTypeOK' /\ LockHeld' /\ LogIsTrue'
  BY <1>1, SameLog DEF JournalInv, JournalTypeOK, LockHeld, LogIsTrue
<1>4. Numbered' /\ LoggedByNow'
  BY SameLog, SameAnswers DEF JournalInv, Numbered, LoggedByNow
<1>5. Snapshots'
  BY <1>2 DEF JournalInv, Snapshots
<1> QED
  BY <1>3, <1>4, <1>5 DEF JournalInv

\* The number a writer reads is the next one of its run.
LEMMA NextSequenceIsNext ==
  ASSUME JournalInv, NEW r \in Runs
  PROVE  NextSequence(r) = Len(log[r]) + 1
<1>1. log[r] \in Seq(Rows) /\ \A i \in DOMAIN log[r] : log[r][i].sequence = i
  BY DEF JournalInv, JournalTypeOK, LogIsTrue
<1>2. CASE log[r] = <<>>
  BY <1>2 DEF NextSequence
<1>3. CASE log[r] # <<>>
  <2>1. Len(log[r]) \in DOMAIN log[r]
    BY <1>1, <1>3
  <2> QED BY <1>1, <1>3, <2>1 DEF NextSequence
<1> QED
  BY <1>2, <1>3

\* A writer reads the number of its event (append_event_atomic).
LEMMA ReadKeepsJournal ==
  ASSUME JournalInv, NEW w \in Writers, Read(w)
  PROVE  JournalInv'
<1> USE DEF JournalInv
<1>1. PICK r \in Runs :
        /\ writer[w].at = "idle" \/ (writer[w].at = "again" /\ r = writer[w].run)
        /\ stale' = stale \ {w}
        /\ writer' = [writer EXCEPT ![w] =
             [at |-> "read", run |-> r, try |-> IF @.at = "again" THEN @.try + 1 ELSE 1,
              event |-> IF @.at = "again" THEN @.event ELSE <<w, Written(w) + 1>>,
              sequence |-> NextSequence(r)]]
  BY DEF Read
<1>2. UNCHANGED <<log, lock, answered>>
  BY DEF Read
<1>3. NextSequence(r) = Len(log[r]) + 1 /\ Len(log[r]) \in Nat
  BY NextSequenceIsNext DEF JournalTypeOK
<1>4. /\ writer'[w].at = "read" /\ writer'[w].event = <<w, Written(w) + 1>>
      /\ writer'[w].run = r /\ writer'[w].sequence = Len(log[r]) + 1
      /\ \A v \in Writers \ {w} : writer'[v] = writer[v]
  BY <1>1, <1>3 DEF JournalTypeOK, Numbered
<1>5. JournalTypeOK'
  <2>1. Written(w) \in Nat
    BY WrittenIsNat
  <2>2. writer'[w] \in [at : WriterSteps, run : Runs, event : Events \cup {<<>>},
                        try : Nat, sequence : Nat]
    BY <1>1, <1>3, <2>1 DEF JournalTypeOK, Events, WriterSteps
  <2> QED BY <1>1, <1>2, <1>4, <2>2 DEF JournalTypeOK
<1>6. LockHeld'
  BY <1>1, <1>2, <1>4 DEF LockHeld
<1>7. Numbered' /\ LoggedByNow'
  BY <1>1, <1>2, <1>4, SameLog, SameAnswers DEF Numbered, LoggedByNow, Events, JournalTypeOK
<1>8. Snapshots'
  BY <1>1, <1>2, <1>4 DEF Snapshots
<1>9. LogIsTrue'
  BY <1>2, SameLog DEF LogIsTrue
<1> QED
  BY <1>5, <1>6, <1>7, <1>8, <1>9

\* What a writer has not committed yet is not logged.
LEMMA NotLoggedYet ==
  ASSUME JournalInv, NEW w \in Writers, writer[w].at \in {"again", "read", "write"}
  PROVE  writer[w].event \notin Logged
<1>1. writer[w].event = <<w, Written(w) + 1>> /\ Written(w) \in Nat
  BY WrittenIsNat DEF JournalInv, Numbered
<1> QED
  BY <1>1 DEF JournalInv, LoggedByNow

\* A writer that is told what is true of the log becomes idle.
LEMMA AnswerKeepsJournal ==
  ASSUME JournalInv, NEW w \in Writers, writer[w].at # "idle",
         writer' = [writer EXCEPT ![w].at = "idle"], UNCHANGED <<log, stale>>,
         lock' \in Writers \cup {"none"}, LockHeld',
         NEW verdict \in {"ok", "error"}, Answer(w, verdict),
         verdict = "ok" <=> writer[w].event \in Logged
  PROVE  JournalInv'
<1> USE DEF JournalInv
<1>1. /\ answered' \subseteq Events \X {"ok", "error", "lost"} /\ IsFiniteSet(answered')
      /\ Written(w)' = Written(w) + 1 /\ \A v \in Writers \ {w} : Written(v)' = Written(v)
  BY AnswerCounts
<1>2. answered' = answered \cup {<<writer[w].event, verdict>>}
  BY DEF Answer
<1>3. \A v \in Writers : Written(v) \in Nat
  BY WrittenIsNat
<1>4. /\ writer'[w] = [writer[w] EXCEPT !.at = "idle"]
      /\ \A v \in Writers \ {w} : writer'[v] = writer[v]
  BY DEF JournalTypeOK
<1>5. JournalTypeOK'
  <2>1. writer'[w] \in [at : WriterSteps, run : Runs, event : Events \cup {<<>>},
                        try : Nat, sequence : Nat]
    BY <1>4 DEF JournalTypeOK, WriterSteps
  <2> QED BY <1>1, <1>4, <2>1 DEF JournalTypeOK
<1>6. writer[w].event = <<w, Written(w) + 1>>
  BY DEF Numbered
<1>7. Numbered'
  <2>1. ASSUME NEW a \in answered'
        PROVE  a[1][2] <= Written(a[1][1])'
    <3>1. CASE a \in answered
      <4>1. a[1] \in Events /\ a[1][1] \in Writers /\ a[1][2] \in Nat
        BY <3>1 DEF JournalTypeOK, Events
      <4>2. a[1][2] <= Written(a[1][1])
        BY <3>1 DEF Numbered
      <4> QED BY <1>1, <1>3, <4>1, <4>2
    <3>2. CASE a = <<writer[w].event, verdict>>
      BY <1>1, <1>3, <1>6, <3>2
    <3> QED BY <1>2, <3>1, <3>2
  <2>2. ASSUME NEW v \in Writers, writer'[v].at # "idle"
        PROVE  writer'[v].event = <<v, Written(v)' + 1>>
    <3>1. v # w
      BY <1>4, <2>2 DEF JournalTypeOK
    <3> QED BY <1>1, <1>4, <2>2, <3>1 DEF Numbered
  <2> QED BY <2>1, <2>2 DEF Numbered
<1>8. LoggedByNow'
  <2>1. ASSUME NEW e \in Logged
        PROVE  \/ e[2] <= Written(e[1])'
               \/ writer'[e[1]].at \in {"mark", "emit"} /\ e = writer'[e[1]].event
    <3>1. e \in Events
      BY LoggedAreEvents
    <3>2. CASE e[2] <= Written(e[1])
      BY <1>1, <1>3, <3>1, <3>2 DEF Events
    <3>3. CASE writer[e[1]].at \in {"mark", "emit"} /\ e = writer[e[1]].event
      BY <1>1, <1>3, <1>4, <1>6, <3>1, <3>3 DEF Events
    <3> QED BY <3>2, <3>3 DEF LoggedByNow
  <2>2. \A v \in Writers : writer'[v].at \in {"mark", "emit"} => writer'[v].event \in Logged
    BY <1>4 DEF LoggedByNow, JournalTypeOK
  <2> QED BY <2>1, <2>2, SameLog DEF LoggedByNow
<1>9. Snapshots'
  BY <1>4 DEF Snapshots, JournalTypeOK
<1>10. LogIsTrue'
  BY <1>2, SameLog DEF LogIsTrue
<1> QED
  BY <1>5, <1>7, <1>8, <1>9, <1>10

\* The first write of a transaction takes the lock, on a snapshot that is still good.
LEMMA WriteKeepsJournal ==
  ASSUME JournalInv, NEW w \in Writers, Write(w)
  PROVE  JournalInv'
<1> USE DEF JournalInv
<1>1. /\ writer[w].at = "read" /\ lock = "none" /\ w \notin stale /\ lock' = w
      /\ writer' = [writer EXCEPT ![w].at = "write"]
      /\ UNCHANGED <<log, stale, answered>>
  BY DEF Write, Busy
<1>2. /\ writer'[w] = [writer[w] EXCEPT !.at = "write"]
      /\ \A v \in Writers \ {w} : writer'[v] = writer[v]
  BY <1>1 DEF JournalTypeOK
<1>3. JournalTypeOK'
  <2>1. writer'[w] \in [at : WriterSteps, run : Runs, event : Events \cup {<<>>},
                        try : Nat, sequence : Nat]
    BY <1>2 DEF JournalTypeOK, WriterSteps
  <2> QED BY <1>1, <1>2, <2>1 DEF JournalTypeOK
<1>4. LockHeld'
  BY <1>1, <1>2 DEF LockHeld, JournalTypeOK, Writers
<1>5. Numbered'
  BY <1>1, <1>2, SameAnswers DEF Numbered, JournalTypeOK
<1>8. LoggedByNow'
  <2>1. \A e \in Logged : e[1] \in Writers
    BY LoggedAreEvents DEF Events
  <2> QED BY <1>1, <1>2, <2>1, SameLog, SameAnswers DEF LoggedByNow, JournalTypeOK
<1>6. Snapshots'
  BY <1>1, <1>2 DEF Snapshots, JournalTypeOK
<1>7. LogIsTrue'
  BY <1>1, SameLog DEF LogIsTrue
<1> QED
  BY <1>3, <1>4, <1>5, <1>6, <1>7, <1>8

\* A refused transaction is begun again with the same event, or given up: it is not in the log
\* (with_busy_retry).
LEMMA RefusedKeepsJournal ==
  ASSUME JournalInv, NEW w \in Writers, Refused(w)
  PROVE  JournalInv'
<1> USE DEF JournalInv
<1>1. writer[w].at = "read" /\ UNCHANGED <<log, stale, lock>>
  BY DEF Refused, Busy
<1>2. CASE writer' = [writer EXCEPT ![w].at = "again"] /\ UNCHANGED answered
  <2>2. /\ writer'[w] = [writer[w] EXCEPT !.at = "again"]
        /\ \A v \in Writers \ {w} : writer'[v] = writer[v]
    BY <1>2 DEF JournalTypeOK
  <2>3. JournalTypeOK'
    <3>1. writer'[w] \in [at : WriterSteps, run : Runs, event : Events \cup {<<>>},
                          try : Nat, sequence : Nat]
      BY <2>2 DEF JournalTypeOK, WriterSteps
    <3> QED BY <1>1, <1>2, <2>2, <3>1 DEF JournalTypeOK
  <2>4. LockHeld'
    BY <1>1, <2>2 DEF LockHeld, JournalTypeOK
  <2>5. Numbered' /\ LoggedByNow'
    BY <1>1, <1>2, <2>2, SameLog, SameAnswers, LoggedAreEvents DEF Numbered, LoggedByNow, JournalTypeOK, Events
  <2>6. Snapshots'
    <3> SUFFICES ASSUME NEW v \in Writers,
                        writer'[v].at = "write" \/ (writer'[v].at = "read" /\ v \notin stale')
                 PROVE  writer'[v].sequence = Len(log'[writer'[v].run]) + 1
      BY DEF Snapshots
    <3>1. v # w
      BY <2>2 DEF JournalTypeOK
    <3> QED BY <1>1, <2>2, <3>1 DEF Snapshots
  <2>7. LogIsTrue'
    BY <1>1, <1>2, SameLog DEF LogIsTrue
  <2> QED
    BY <2>3, <2>4, <2>5, <2>6, <2>7
<1>3. CASE writer' = [writer EXCEPT ![w].at = "idle"] /\ Answer(w, "error")
  <2>1. LockHeld' /\ lock' \in Writers \cup {"none"}
    BY <1>1, <1>3 DEF LockHeld, JournalTypeOK
  <2> QED BY <1>1, <1>3, <2>1, NotLoggedYet, AnswerKeepsJournal
<1> QED
  BY <1>2, <1>3 DEF Refused

\* An append: the row has the number that follows the last one of its run, and its event is new;
\* the snapshots it overtakes are stale.
LEMMA AppendKeepsJournal ==
  ASSUME JournalInv, NEW w \in Writers, writer[w].at = "write",
         NEW to \in {"mark", "idle"}, writer' = [writer EXCEPT ![w].at = to],
         log' = [log EXCEPT ![writer[w].run] =
                   Append(@, [sequence |-> writer[w].sequence, event |-> writer[w].event])],
         lock' = "none", Commits,
         IF to = "mark" THEN UNCHANGED answered ELSE Answer(w, "ok")
  PROVE  JournalInv' /\ Logged \subseteq Logged'
<1> USE DEF JournalInv
<1> DEFINE r == writer[w].run
           row == [sequence |-> writer[w].sequence, event |-> writer[w].event]
<1>1. writer[w].event = <<w, Written(w) + 1>> /\ \A v \in Writers : Written(v) \in Nat
  BY WrittenIsNat DEF Numbered
<1>2. /\ r \in Runs /\ row \in Rows /\ log[r] \in Seq(Rows)
      /\ writer[w].event \in Events /\ writer[w].sequence = Len(log[r]) + 1
  BY <1>1 DEF JournalTypeOK, Rows, Events, Snapshots
<1>3. /\ log' \in [Runs -> Seq(Rows)]
      /\ \A q \in Runs \ {r} : log'[q] = log[q]
      /\ Len(log'[r]) = Len(log[r]) + 1 /\ log'[r][Len(log[r]) + 1] = row
      /\ \A i \in 1..Len(log[r]) : log'[r][i] = log[r][i]
  BY <1>2 DEF JournalTypeOK
<1>4. \A e : e \in Logged' <=> e \in Logged \/ e = writer[w].event
  <2> SUFFICES ASSUME NEW e
               PROVE  e \in Logged' <=> e \in Logged \/ e = writer[w].event
    OBVIOUS
  <2>1. \A q \in Runs : log[q] \in Seq(Rows) /\ log'[q] \in Seq(Rows)
    BY <1>3 DEF JournalTypeOK
  <2>2. ASSUME e \in Logged
        PROVE  e \in Logged'
    <3>1. PICK q \in Runs : \E i \in DOMAIN log[q] : log[q][i].event = e
      BY <2>2, LoggedIs
    <3>2. \E i \in DOMAIN log'[q] : log'[q][i].event = e
      <4>1. CASE q = r
        <5>1. PICK i \in DOMAIN log[r] : log[r][i].event = e
          BY <3>1, <4>1
        <5>2. i \in 1..Len(log[r]) /\ i \in DOMAIN log'[r]
          BY <1>2, <1>3, <2>1
        <5>3. log'[r][i].event = e
          BY <1>3, <5>1, <5>2
        <5> QED BY <4>1, <5>2, <5>3
      <4>2. CASE q # r
        BY <1>3, <3>1, <4>2
      <4> QED BY <4>1, <4>2
    <3> QED BY <3>2, LoggedIsNext
  <2>3. writer[w].event \in Logged'
    <3>1. Len(log[r]) + 1 \in DOMAIN log'[r]
      BY <1>2, <1>3, <2>1
    <3>2. log'[r][Len(log[r]) + 1].event = writer[w].event
      BY <1>3
    <3> QED BY <1>2, <3>1, <3>2, LoggedIsNext
  <2>4. ASSUME e \in Logged'
        PROVE  e \in Logged \/ e = writer[w].event
    <3>1. PICK q \in Runs : \E i \in DOMAIN log'[q] : log'[q][i].event = e
      BY <2>4, LoggedIsNext
    <3>2. CASE q # r
      BY <1>3, <3>1, <3>2, LoggedIs
    <3>3. CASE q = r
      <4>1. PICK i \in DOMAIN log'[r] : log'[r][i].event = e
        BY <3>1, <3>3
      <4>2. i \in 1..(Len(log[r]) + 1)
        BY <1>2, <1>3, <2>1
      <4>3. CASE i = Len(log[r]) + 1
        BY <1>3, <4>1, <4>3
      <4>4. CASE i # Len(log[r]) + 1
        <5>1. i \in 1..Len(log[r]) /\ i \in DOMAIN log[r]
          BY <1>2, <4>2, <4>4
        <5>2. log[r][i].event = e
          BY <1>3, <4>1, <5>1
        <5> QED BY <1>2, <5>1, <5>2, LoggedIs
      <4> QED BY <4>3, <4>4
    <3> QED BY <3>2, <3>3
  <2> QED BY <2>2, <2>3, <2>4
<1> HIDE DEF row
<1>5. /\ writer'[w] = [writer[w] EXCEPT !.at = to]
      /\ \A v \in Writers \ {w} : writer'[v] = writer[v]
  BY DEF JournalTypeOK
<1>6. writer[w].event \notin Logged
  BY NotLoggedYet
<1>7. /\ answered' \subseteq Events \X {"ok", "error", "lost"} /\ IsFiniteSet(answered')
      /\ Written(w)' = IF to = "mark" THEN Written(w) ELSE Written(w) + 1
      /\ \A v \in Writers \ {w} : Written(v)' = Written(v)
  <2>1. CASE to = "mark"
    BY <2>1, SameAnswers DEF JournalTypeOK
  <2>2. CASE to # "mark"
    BY <2>2, AnswerCounts
  <2> QED BY <2>1, <2>2
<1>8. JournalTypeOK'
  <2>1. writer'[w] \in [at : WriterSteps, run : Runs, event : Events \cup {<<>>},
                        try : Nat, sequence : Nat]
    BY <1>5 DEF JournalTypeOK, WriterSteps
  <2>2. stale' \subseteq Writers
    BY DEF Commits
  <2> QED BY <1>3, <1>5, <1>7, <2>1, <2>2 DEF JournalTypeOK
<1>9. LockHeld'
  BY <1>5 DEF LockHeld, JournalTypeOK, Writers
<1>10. \A a \in answered' : a \in answered \/ (to = "idle" /\ a = <<writer[w].event, "ok">>)
  BY DEF Answer
<1>11. Numbered'
  <2>1. ASSUME NEW a \in answered'
        PROVE  a[1][2] <= Written(a[1][1])'
    <3>1. CASE a \in answered
      <4>1. a[1] \in Events /\ a[1][1] \in Writers /\ a[1][2] \in Nat
        BY <3>1 DEF JournalTypeOK, Events
      <4>2. a[1][2] <= Written(a[1][1])
        BY <3>1 DEF Numbered
      <4> QED BY <1>1, <1>7, <4>1, <4>2
    <3>2. CASE to = "idle" /\ a = <<writer[w].event, "ok">>
      BY <1>1, <1>7, <3>2
    <3> QED BY <1>10, <3>1, <3>2
  <2>2. ASSUME NEW v \in Writers, writer'[v].at # "idle"
        PROVE  writer'[v].event = <<v, Written(v)' + 1>>
    <3>1. CASE v = w
      <4>1. to = "mark" /\ writer'[w].event = writer[w].event
        BY <1>5, <2>2, <3>1 DEF JournalTypeOK
      <4> QED BY <1>1, <1>7, <3>1, <4>1
    <3>2. CASE v # w
      BY <1>5, <1>7, <2>2, <3>2 DEF Numbered
    <3> QED BY <3>1, <3>2
  <2> QED BY <2>1, <2>2 DEF Numbered
<1>12. LoggedByNow'
  <2>1. ASSUME NEW e \in Logged'
        PROVE  \/ e[2] <= Written(e[1])'
               \/ writer'[e[1]].at \in {"mark", "emit"} /\ e = writer'[e[1]].event
    <3>1. CASE e = writer[w].event
      BY <1>1, <1>5, <1>7, <3>1 DEF JournalTypeOK
    <3>2. CASE e \in Logged /\ e # writer[w].event
      <4>1. e \in Events /\ e[1] \in Writers /\ e[2] \in Nat
        BY <3>2, LoggedAreEvents DEF Events
      <4>2. CASE e[2] <= Written(e[1])
        BY <1>1, <1>7, <4>1, <4>2
      <4>3. CASE writer[e[1]].at \in {"mark", "emit"} /\ e = writer[e[1]].event
        <5>1. e[1] # w
          BY <4>3
        <5> QED BY <1>5, <4>1, <4>3, <5>1
      <4> QED BY <3>2, <4>2, <4>3 DEF LoggedByNow
    <3> QED BY <1>4, <3>1, <3>2
  <2>2. \A v \in Writers : writer'[v].at \in {"mark", "emit"} => writer'[v].event \in Logged'
    <3>1. writer'[w].event = writer[w].event
      BY <1>5 DEF JournalTypeOK
    <3> QED BY <1>4, <1>5, <3>1 DEF LoggedByNow
  <2> QED BY <2>1, <2>2 DEF LoggedByNow
<1>13. Snapshots'
  <2> SUFFICES ASSUME NEW v \in Writers,
                      writer'[v].at = "write" \/ (writer'[v].at = "read" /\ v \notin stale')
               PROVE  FALSE
    BY DEF Snapshots
  <2>1. v # w
    BY <1>5 DEF JournalTypeOK
  <2>2. writer'[v] = writer[v]
    BY <1>5, <2>1
  <2> QED BY <2>1, <2>2 DEF Commits, LockHeld
<1>14. LogIsTrue'
  <2>1. \A q \in Runs : \A i \in DOMAIN log'[q] : log'[q][i].sequence = i
    BY <1>2, <1>3 DEF LogIsTrue, row, JournalTypeOK
  <2>2. \A q \in Runs : \A i \in DOMAIN log'[q] :
          \/ i \in DOMAIN log[q] /\ log'[q][i] = log[q][i] /\ log[q][i].event # writer[w].event
          \/ q = r /\ i = Len(log[r]) + 1 /\ log'[q][i].event = writer[w].event
    <3> SUFFICES ASSUME NEW q \in Runs, NEW i \in DOMAIN log'[q]
                 PROVE  \/ i \in DOMAIN log[q] /\ log'[q][i] = log[q][i] /\ log[q][i].event # writer[w].event
                        \/ q = r /\ i = Len(log[r]) + 1 /\ log'[q][i].event = writer[w].event
      OBVIOUS
    <3>1. CASE i \in DOMAIN log[q] /\ log'[q][i] = log[q][i]
      BY <1>6, <3>1, LoggedIs
    <3>2. CASE q = r /\ i = Len(log[r]) + 1
      BY <1>3, <3>2 DEF row
    <3>3. \/ i \in DOMAIN log[q] /\ log'[q][i] = log[q][i]
          \/ q = r /\ i = Len(log[r]) + 1
      <4>1. CASE q # r
        BY <1>3, <4>1
      <4>2. CASE q = r
        <5>1. log'[r] \in Seq(Rows) /\ Len(log[r]) \in Nat /\ DOMAIN log[r] = 1..Len(log[r])
          BY <1>2, <1>3
        <5>2. i \in 1..(Len(log[r]) + 1)
          BY <1>3, <4>2, <5>1
        <5> QED BY <1>3, <4>2, <5>1, <5>2
      <4> QED BY <4>1, <4>2
    <3> QED BY <3>1, <3>2, <3>3
  <2>3. \A p, q \in Runs : \A i \in DOMAIN log'[p], j \in DOMAIN log'[q] :
          log'[p][i].event = log'[q][j].event => p = q /\ i = j
    BY <2>2 DEF LogIsTrue
  <2>4. ASSUME NEW a \in answered'
        PROVE  (a[2] = "ok" => a[1] \in Logged') /\ (a[2] = "error" => a[1] \notin Logged')
    <3>1. CASE a \in answered
      <4>1. a[1][2] <= Written(a[1][1])
        BY <3>1 DEF Numbered
      <4>2. a[1] # writer[w].event
        BY <1>1, <4>1
      <4> QED BY <1>4, <3>1, <4>2 DEF LogIsTrue
    <3>2. CASE a = <<writer[w].event, "ok">>
      BY <1>4, <3>2
    <3> QED BY <1>10, <3>1, <3>2
  <2> QED BY <2>1, <2>3, <2>4 DEF LogIsTrue
<1> QED
  BY <1>4, <1>8, <1>9, <1>11, <1>12, <1>13, <1>14

\* The insert is in the log or is refused as a duplicate, and the caller is told which
\* (append_event_atomic).
LEMMA CommitKeepsJournal ==
  ASSUME JournalInv, NEW w \in Writers, Commit(w)
  PROVE  JournalInv' /\ Logged \subseteq Logged'
<1> USE DEF JournalInv
<1>1. writer[w].at = "write" /\ lock' = "none"
  BY DEF Commit
<1>2. CASE Duplicate(w)
  <2>1. /\ writer' = [writer EXCEPT ![w].at = "idle"] /\ Answer(w, "error")
        /\ UNCHANGED <<log, stale>>
    BY <1>2 DEF Commit
  <2>2. LockHeld'
    BY <1>1, <2>1 DEF LockHeld, JournalTypeOK, Writers
  <2> QED BY <1>1, <2>1, <2>2, NotLoggedYet, AnswerKeepsJournal, SameLog
<1>3. CASE ~Duplicate(w)
  <2> DEFINE to == IF w \in {"supervisor", "host"} THEN "mark" ELSE "idle"
  <2>1. /\ log' = [log EXCEPT ![writer[w].run] =
                     Append(@, [sequence |-> writer[w].sequence, event |-> writer[w].event])]
        /\ Commits
        /\ writer' = [writer EXCEPT ![w].at = to]
        /\ IF w \in {"supervisor", "host"} THEN UNCHANGED answered ELSE Answer(w, "ok")
    BY <1>3 DEF Commit
  <2>2. to \in {"mark", "idle"} /\ IF to = "mark" THEN UNCHANGED answered ELSE Answer(w, "ok")
    BY <2>1
  <2> HIDE DEF to
  <2> QED BY <1>1, <2>1, <2>2, AppendKeepsJournal
<1> QED
  BY <1>2, <1>3

\* Marking the outbox changes nothing a writer relies on.
LEMMA MarkKeepsJournal ==
  ASSUME JournalInv, NEW w \in Writers, Mark(w)
  PROVE  JournalInv'
<1> USE DEF JournalInv
<1>1. /\ writer[w].at = "mark" /\ lock = "none" /\ writer' = [writer EXCEPT ![w].at = "emit"]
      /\ UNCHANGED <<log, lock, answered>>
  BY DEF Mark
<1>2. stale' \subseteq Writers /\ \A v \in Writers : writer[v].at = "read" /\ v \notin stale' => v \notin stale
  BY DEF Mark, Commits, JournalTypeOK
<1>3. /\ writer'[w] = [writer[w] EXCEPT !.at = "emit"]
      /\ \A v \in Writers \ {w} : writer'[v] = writer[v]
  BY <1>1 DEF JournalTypeOK
<1>4. JournalTypeOK'
  <2>1. writer'[w] \in [at : WriterSteps, run : Runs, event : Events \cup {<<>>},
                        try : Nat, sequence : Nat]
    BY <1>3 DEF JournalTypeOK, WriterSteps
  <2> QED BY <1>1, <1>2, <1>3, <2>1 DEF JournalTypeOK
<1>5. LockHeld'
  BY <1>1, <1>3 DEF LockHeld, JournalTypeOK
<1>6. Numbered'
  BY <1>1, <1>3, SameAnswers DEF Numbered, JournalTypeOK
<1>7. LoggedByNow'
  <2>1. \A e \in Logged : e[1] \in Writers
    BY LoggedAreEvents DEF Events
  <2>2. writer'[w].event = writer[w].event /\ writer'[w].at = "emit"
    BY <1>3 DEF JournalTypeOK
  <2> QED BY <1>1, <1>3, <2>1, <2>2, SameLog, SameAnswers DEF LoggedByNow
<1>8. Snapshots'
  <2> SUFFICES ASSUME NEW v \in Writers,
                      writer'[v].at = "write" \/ (writer'[v].at = "read" /\ v \notin stale')
               PROVE  writer'[v].sequence = Len(log'[writer'[v].run]) + 1
    BY DEF Snapshots
  <2>1. v # w
    BY <1>3 DEF JournalTypeOK
  <2> QED BY <1>1, <1>2, <1>3, <2>1 DEF Snapshots
<1>9. LogIsTrue'
  BY <1>1, SameLog DEF LogIsTrue
<1> QED
  BY <1>4, <1>5, <1>6, <1>7, <1>8, <1>9

\* Who has told of an event is told of success: it is logged.
LEMMA EmitKeepsJournal ==
  ASSUME JournalInv, NEW w \in Writers, Emit(w)
  PROVE  JournalInv'
<1>1. /\ writer[w].at = "emit" /\ writer' = [writer EXCEPT ![w].at = "idle"]
      /\ UNCHANGED <<log, stale, lock>> /\ Answer(w, "ok")
  BY DEF Emit, storeVars
<1>2. LockHeld' /\ lock' \in Writers \cup {"none"}
  BY <1>1 DEF JournalInv, LockHeld, JournalTypeOK
<1>3. writer[w].event \in Logged
  BY <1>1 DEF JournalInv, LoggedByNow
<1> QED
  BY <1>1, <1>2, <1>3, AnswerKeepsJournal

\* A restart leaves the log, and whoever was at work is never answered.
LEMMA CrashKeepsJournal ==
  ASSUME JournalInv, Crash
  PROVE  JournalInv'
<1> USE DEF JournalInv
<1> DEFINE Active == {v \in Writers : writer[v].at # "idle"}
           Lost == {<<writer[w].event, "lost">> : w \in Active}
<1>1. /\ lock' = "none" /\ stale' = {} /\ writer' = [w \in Writers |-> Idle]
      /\ answered' = answered \cup Lost /\ UNCHANGED log
  BY DEF Crash
<1>2. \A w \in Writers : Written(w) \in Nat
  BY WrittenIsNat
<1>3. ASSUME NEW w \in Active
      PROVE  writer[w].event = <<w, Written(w) + 1>> /\ writer[w].event \in Events
  <2>1. w \in Writers /\ Written(w) \in Nat
    BY <1>2
  <2>2. writer[w].event = <<w, Written(w) + 1>>
    BY DEF Numbered
  <2> QED BY <2>1, <2>2 DEF Events
<1>4. Lost \subseteq Events \X {"ok", "error", "lost"} /\ IsFiniteSet(Lost)
  <2>1. IsFiniteSet(Writers)
    <3>1. Writers = {"supervisor"} \cup {"host"} \cup {"scheduler"} \cup {"abort"}
      BY DEF Writers
    <3> QED BY <3>1, FS_Singleton, FS_Union
  <2>2. IsFiniteSet(Active)
    BY <2>1, FS_Subset
  <2>3. IsFiniteSet(Lost)
    <3> DEFINE lost == [w \in Active |-> <<writer[w].event, "lost">>]
    <3>1. lost \in [Active -> Lost] /\ \A x \in Lost : \E w \in Active : lost[w] = x
      OBVIOUS
    <3>2. lost \in Surjection(Active, Lost)
      <4> HIDE DEF lost, Active, Lost
      <4> QED BY <3>1 DEF Surjection
    <3> HIDE DEF lost, Active, Lost
    <3> QED BY <2>2, <3>2, FS_Surjection
  <2> QED BY <1>3, <2>3
<1>5. answered' \subseteq Events \X {"ok", "error", "lost"} /\ IsFiniteSet(answered')
  BY <1>1, <1>4, FS_Union DEF JournalTypeOK
<1>6. ASSUME NEW w \in Writers
      PROVE  Written(w)' = IF w \in Active THEN Written(w) + 1 ELSE Written(w)
  <2> DEFINE Of(A) == {a \in A : a[1][1] = w}
             new == <<writer[w].event, "lost">>
  <2>1. CASE w \notin Active
    <3>1. Of(answered') = Of(answered)
      BY <1>1, <1>3, <2>1
    <3> QED BY <2>1, <3>1 DEF Written
  <2>2. CASE w \in Active
    <3>1. Of(answered') = Of(answered) \cup {new}
      BY <1>1, <1>3, <2>2
    <3>2. new \notin Of(answered)
      BY <1>2, <1>3, <2>2 DEF Numbered
    <3>3. IsFiniteSet(Of(answered))
      BY FS_Subset DEF JournalTypeOK
    <3>4. Cardinality(Of(answered) \cup {new}) = Cardinality(Of(answered)) + 1
      <4> HIDE DEF Of, new
      <4> QED BY <3>2, <3>3, FS_AddElement
    <3> QED BY <2>2, <3>1, <3>4 DEF Written
  <2> QED BY <2>1, <2>2
<1>7. JournalTypeOK'
  BY <1>1, <1>5, FirstRun DEF JournalTypeOK, Idle, WriterSteps
<1>8. LockHeld' /\ Snapshots'
  BY <1>1 DEF LockHeld, Snapshots, Idle, Writers
<1>9. Numbered'
  <2>1. ASSUME NEW a \in answered'
        PROVE  a[1][2] <= Written(a[1][1])'
    <3>1. CASE a \in answered
      <4>1. a[1] \in Events /\ a[1][1] \in Writers /\ a[1][2] \in Nat
        BY <3>1 DEF JournalTypeOK, Events
      <4>2. a[1][2] <= Written(a[1][1])
        BY <3>1 DEF Numbered
      <4> QED BY <1>2, <1>6, <4>1, <4>2
    <3>2. CASE a \in Lost
      BY <1>2, <1>3, <1>6, <3>2
    <3> QED BY <1>1, <3>1, <3>2
  <2> QED BY <1>1, <2>1 DEF Numbered, Idle
<1>10. LoggedByNow'
  <2>1. ASSUME NEW e \in Logged
        PROVE  e[2] <= Written(e[1])'
    <3>1. e[1] \in Writers /\ e[2] \in Nat
      BY LoggedAreEvents DEF Events
    <3>2. CASE e[2] <= Written(e[1])
      BY <1>2, <1>6, <3>1, <3>2
    <3>3. CASE writer[e[1]].at \in {"mark", "emit"} /\ e = writer[e[1]].event
      <4>1. e[1] \in Active
        BY <3>1, <3>3
      <4>2. e = <<e[1], Written(e[1]) + 1>>
        BY <1>3, <3>3, <4>1
      <4> QED BY <1>2, <1>6, <3>1, <4>1, <4>2
    <3> QED BY <3>2, <3>3 DEF LoggedByNow
  <2> QED BY <1>1, <2>1, SameLog DEF LoggedByNow, Idle
<1>11. LogIsTrue'
  <2>1. \A a \in Lost : a[2] = "lost"
    OBVIOUS
  <2> QED BY <1>1, <2>1, SameLog DEF LogIsTrue
<1> QED
  BY <1>7, <1>8, <1>9, <1>10, <1>11

(***************************************************************************)
(* Merging a batch into what is shown is a recursion over the batch.       *)
(***************************************************************************)
\* A family of subsets of a finite set has one that no other of it lies within.
LEMMA SmallestSet ==
  ASSUME NEW S, IsFiniteSet(S), NEW F, F \subseteq SUBSET S, F # {}
  PROVE  \E x \in F : \A y \in F : ~(y \subseteq x /\ y # x)
<1> DEFINE R == StrictSubsetOrdering(S)
<1>1. F \subseteq FiniteSubsetsOf(S)
  BY FS_FiniteSubsetsOfFinite
<1>2. \E x \in F : \A y \in F : <<y, x>> \notin R
  <2>1. IsWellFoundedOn(R, FiniteSubsetsOf(S))
    BY FS_StrictSubsetOrderingWellFounded
  <2> HIDE DEF R
  <2> QED BY <1>1, <2>1, WFMin
<1> QED
  BY <1>2 DEF StrictSubsetOrdering

\* A set of numbers has a least one: of the intervals that end in it, the smallest.
LEMMA LeastNat ==
  ASSUME NEW T, T \subseteq Nat, T # {}
  PROVE  \E n \in T : \A m \in T : n <= m
<1> PICK k \in T : TRUE
  OBVIOUS
<1> DEFINE S == 0..k
           F == {0..j : j \in {i \in T : i <= k}}
<1>1. IsFiniteSet(S)
  BY FS_Interval
<1>2. F \subseteq SUBSET S /\ F # {}
  OBVIOUS
<1>3. \E x \in F : \A y \in F : ~(y \subseteq x /\ y # x)
  <2> HIDE DEF F, S
  <2> QED BY ONLY <1>1, <1>2, SmallestSet
<1> PICK x \in F : \A y \in F : ~(y \subseteq x /\ y # x)
  BY <1>3
<1>4. PICK n \in T : n <= k /\ x = 0..n
  OBVIOUS
<1>5. ASSUME NEW m \in T, m < n
      PROVE  FALSE
  <2>1. 0..m \in F
    BY <1>4, <1>5
  <2>2. 0..m \subseteq 0..n /\ n \in 0..n /\ n \notin 0..m
    BY <1>4, <1>5
  <2> QED BY <1>3, <1>4, <2>1, <2>2
<1> QED
  BY <1>5

\* g is what N steps of G make of v0.
Iterates(g, N, V, v0, G) ==
  /\ g \in [0..N -> V] /\ g[0] = v0
  /\ \A i \in 1..N : g[i] = G[i][g[i - 1]]

\* Such a g exists: a least number of steps without one would have a predecessor with one.
LEMMA Recursion ==
  ASSUME NEW N \in Nat, NEW V, NEW v0 \in V, NEW G \in [1..N -> [V -> V]]
  PROVE  \E g : Iterates(g, N, V, v0, G)
<1> DEFINE Upto(n) == \E g \in [0..n -> V] : g[0] = v0 /\ \A i \in 1..n : g[i] = G[i][g[i - 1]]
           Missing == {n \in 0..N : ~Upto(n)}
<1>1. Upto(0)
  <2> DEFINE g == [i \in 0..0 |-> v0]
  <2> g \in [0..0 -> V] /\ g[0] = v0 /\ \A i \in 1..0 : g[i] = G[i][g[i - 1]]
    OBVIOUS
  <2> QED OBVIOUS
<1>2. ASSUME NEW n \in 1..N, Upto(n - 1) PROVE Upto(n)
  <2>1. PICK g \in [0..(n - 1) -> V] : g[0] = v0 /\ \A i \in 1..(n - 1) : g[i] = G[i][g[i - 1]]
    BY <1>2
  <2> DEFINE h == [i \in 0..n |-> IF i = n THEN G[n][g[n - 1]] ELSE g[i]]
  <2>2. G[n][g[n - 1]] \in V
    OBVIOUS
  <2>3. h \in [0..n -> V]
    BY <2>2
  <2>4. h[0] = v0
    BY <2>1
  <2>5. ASSUME NEW i \in 1..n PROVE h[i] = G[i][h[i - 1]]
    <3>1. h[i - 1] = g[i - 1]
      OBVIOUS
    <3>2. CASE i = n
      BY <3>1, <3>2
    <3>3. CASE i # n
      BY <3>1, <3>3, <2>1
    <3> QED BY <3>2, <3>3
  <2> HIDE DEF h
  <2> QED BY <2>3, <2>4, <2>5
<1>3. Missing = {}
  <2> SUFFICES ASSUME Missing # {} PROVE FALSE
    OBVIOUS
  <2>1. Missing \subseteq Nat
    OBVIOUS
  <2> HIDE DEF Upto
  <2>2. \E n \in Missing : \A m \in Missing : n <= m
    <3> HIDE DEF Missing
    <3> QED BY <2>1, LeastNat
  <2>3. PICK n \in Missing : \A m \in Missing : n <= m
    BY <2>2
  <2>4. n \in 1..N
    BY <1>1
  <2>5. n - 1 \notin Missing
    BY <2>3, <2>4
  <2> QED BY <1>2, <2>4, <2>5
<1>4. Upto(N)
  <2> HIDE DEF Upto
  <2> QED BY <1>3
<1> QED BY <1>4 DEF Iterates

\* A batch is merged into what is shown without a repetition, and nothing else is (setEvents).
LEMMA ShowIsOnce ==
  ASSUME NEW X, view \in Seq(X), NEW s \in Seq(X),
         \A i, j \in DOMAIN view : view[i] = view[j] => i = j
  PROVE  /\ Show(s) \in Seq(X)
         /\ Known(Show(s)) \subseteq Known(view) \cup Known(s)
         /\ \A i, j \in DOMAIN Show(s) : Show(s)[i] = Show(s)[j] => i = j
<1> DEFINE Once(v) == \A i, j \in DOMAIN v : v[i] = v[j] => i = j
           V == {v \in Seq(X) : Known(v) \subseteq Known(view) \cup Known(s) /\ Once(v)}
           Merge(v, n) == IF s[n] \in Known(v) THEN v ELSE Append(v, s[n])
           N == Len(s)
           Is(g) == g = [n \in 0..N |-> IF n = 0 THEN view ELSE Merge(g[n - 1], n)]
<1>1. ASSUME NEW v \in V, NEW n \in 1..N
      PROVE  Merge(v, n) \in V
  <2>1. CASE s[n] \in Known(v)
    BY <2>1
  <2>2. CASE s[n] \notin Known(v)
    <3> DEFINE w == Append(v, s[n])
    <3>1. w \in Seq(X) /\ Len(w) = Len(v) + 1 /\ w[Len(v) + 1] = s[n] /\ \A i \in 1..Len(v) : w[i] = v[i]
      OBVIOUS
    <3>2. Known(w) \subseteq Known(view) \cup Known(s)
      <4>1. s[n] \in Known(s)
        BY DEF Known
      <4>2. \A i \in 1..Len(v) : v[i] \in Known(v)
        BY DEF Known
      <4>3. \A i \in DOMAIN w : w[i] = s[n] \/ \E j \in 1..Len(v) : w[i] = v[j]
        BY <3>1
      <4>4. \A i \in DOMAIN w : w[i] \in Known(v) \cup Known(s)
        BY <4>1, <4>2, <4>3
      <4> HIDE DEF w
      <4> QED BY <4>4 DEF Known
    <3>3. \A i \in 1..Len(v) : v[i] # s[n]
      BY <2>2 DEF Known
    <3>4. Once(w)
      BY <3>1, <3>3
    <3> QED BY <2>2, <3>1, <3>2, <3>4
  <2> QED BY <2>1, <2>2
<1>2. view \in V
  OBVIOUS
<1>3. \E g : Is(g)
  <2> DEFINE G == [n \in 1..N |-> [v \in V |-> Merge(v, n)]]
  <2>1. G \in [1..N -> [V -> V]]
    <3> HIDE DEF V, Merge, N
    <3> QED BY <1>1
  <2>2. N \in Nat
    OBVIOUS
  <2>3. \E g : Iterates(g, N, V, view, G)
    <3> HIDE DEF V, G, N
    <3> QED BY <2>1, <2>2, <1>2, Recursion
  <2>4. PICK g \in [0..N -> V] : g[0] = view /\ \A i \in 1..N : g[i] = G[i][g[i - 1]]
    BY <2>3 DEF Iterates
  <2>5. ASSUME NEW i \in 0..N PROVE g[i] = IF i = 0 THEN view ELSE Merge(g[i - 1], i)
    <3> HIDE DEF V, Merge, N
    <3>1. CASE i = 0
      BY <2>4, <3>1
    <3>2. CASE i # 0
      <4>1. i \in 1..N /\ i - 1 \in 0..N
        BY <3>2, <2>2
      <4>2. g[i - 1] \in V
        BY <4>1
      <4>3. g[i] = G[i][g[i - 1]]
        BY <4>1, <2>4
      <4> QED BY <4>1, <4>2, <4>3, <3>2
    <3> QED BY <3>1, <3>2
  <2>6. Is(g)
    <3> HIDE DEF V, Merge, N
    <3> QED BY <2>4, <2>5
  <2> QED BY <2>6
<1> DEFINE merged == CHOOSE g : Is(g)
<1>4. Is(merged)
  <2> HIDE DEF Is
  <2> QED BY <1>3
<1>5. Show(s) = merged[N]
  BY Zenon DEF Show
<1>6. \A n \in 0..N : merged[n] \in V
  <2> DEFINE Bad == {n \in 0..N : merged[n] \notin V}
  <2> SUFFICES ASSUME Bad # {} PROVE FALSE
    OBVIOUS
  <2> HIDE DEF merged, V, Merge
  <2>0. N \in Nat
    OBVIOUS
  <2>1. Bad \subseteq Nat
    OBVIOUS
  <2>2. \E n \in Bad : \A m \in Bad : n <= m
    <3> HIDE DEF Bad
    <3> QED BY <2>1, LeastNat
  <2>3. PICK n \in Bad : \A m \in Bad : n <= m
    BY <2>2
  <2> HIDE DEF N
  <2>4. n \in 1..N
    BY <1>2, <1>4, <2>0
  <2>5. merged[n - 1] \in V
    BY <2>3, <2>4, <2>0
  <2>6. merged[n] = Merge(merged[n - 1], n)
    BY <1>4, <2>4, <2>0
  <2> QED BY <1>1, <2>4, <2>5, <2>6
<1> QED
  <2>1. N \in 0..N
    OBVIOUS
  <2> HIDE DEF merged
  <2> QED BY <1>5, <1>6, <2>1

(***************************************************************************)
(* The front end                                                           *)
(***************************************************************************)
\* No event twice.
Once(s) == \A i, j \in DOMAIN s : s[i] = s[j] => i = j

FrontSteps == {"off", "replayed", "subscribing", "connected", "started"}

\* Every variable of the front end keeps its type, and a reply has no event twice.
FrontTypeOK ==
  /\ channel \in Seq(Events) /\ view \in Seq(Events)
  /\ front \in [at : FrontSteps, reply : Seq(Events), listens : BOOLEAN]

\* The invariant of the front end.
FrontInv == FrontTypeOK /\ ShownOnce /\ Once(front.reply)

\* The front end starts with nothing.
LEMMA FrontInvInit == StoreLogInit => FrontInv
  BY DEF StoreLogInit, JournalInit, FrontInv, FrontTypeOK, FrontSteps, ShownOnce, Closed, Once, Known

\* What is shown stays logged.
LEMMA LogGrows ==
  ASSUME FrontInv, UNCHANGED frontVars, Logged \subseteq Logged'
  PROVE  FrontInv'
  BY DEF FrontInv, FrontTypeOK, ShownOnce, Once, Known, frontVars

\* What a run is replayed is the log of it: events, none twice.
LEMMA ReplyIsLogged ==
  ASSUME JournalInv, NEW r \in Runs
  PROVE  EventIds(r) \in Seq(Events) /\ Known(EventIds(r)) \subseteq Logged /\ Once(EventIds(r))
<1>1. log[r] \in Seq(Rows)
  BY DEF JournalInv, JournalTypeOK
<1>2. EventIds(r) \in Seq(Events)
  <2>1. EventIds(r) = [i \in 1..Len(log[r]) |-> log[r][i].event] /\ Len(log[r]) \in Nat
    BY <1>1 DEF EventIds
  <2>2. \A i \in 1..Len(log[r]) : log[r][i].event \in Events
    <3>1. \A i \in 1..Len(log[r]) : log[r][i] \in Rows
      BY <1>1
    <3> QED BY <3>1 DEF Rows
  <2> QED BY <2>1, <2>2
<1>3. Known(EventIds(r)) \subseteq Logged
  BY DEF Logged
<1>4. Once(EventIds(r))
  BY DEF JournalInv, LogIsTrue, EventIds, Once
<1> QED
  BY <1>2, <1>3, <1>4

\* The callback shows what it gets once.
LEMMA ShowKeepsFront ==
  ASSUME FrontInv, UNCHANGED log, NEW s \in Seq(Events), Known(s) \subseteq Logged,
         view' = Show(s), channel' \in Seq(Events), Known(channel)' \subseteq Known(channel),
         front' \in [at : FrontSteps, reply : Seq(Events), listens : BOOLEAN],
         Known(front.reply)' \subseteq Known(front.reply), Once(front.reply)'
  PROVE  FrontInv'
<1>1. /\ Show(s) \in Seq(Events) /\ Known(Show(s)) \subseteq Known(view) \cup Known(s)
      /\ \A i, j \in DOMAIN Show(s) : Show(s)[i] = Show(s)[j] => i = j
  BY ShowIsOnce DEF FrontInv, FrontTypeOK, ShownOnce
<1>2. Known(view)' \subseteq Known(view) \cup Known(s)
  BY <1>1 DEF Known
<1>3. ShownOnce'
  BY <1>1, <1>2, SameLog DEF FrontInv, ShownOnce
<1> QED
  BY <1>1, <1>3 DEF FrontInv, FrontTypeOK

\* A reply comes from the log.
LEMMA ReplyKeepsFront ==
  ASSUME FrontInv, JournalInv, UNCHANGED <<log, channel, view>>, NEW r \in Runs,
         NEW at \in FrontSteps, front' = [front EXCEPT !.at = at, !.reply = EventIds(r)]
  PROVE  FrontInv'
<1>1. front' \in [at : FrontSteps, reply : Seq(Events), listens : BOOLEAN] /\ front'.reply = EventIds(r)
  BY ReplyIsLogged DEF FrontInv, FrontTypeOK
<1>2. Known(front.reply)' \subseteq Logged /\ Once(front.reply)'
  BY <1>1, ReplyIsLogged DEF Known, Once
<1>3. Known(view)' = Known(view) /\ Known(channel)' = Known(channel)
  BY DEF Known
<1>4. ShownOnce'
  BY <1>2, <1>3, SameLog DEF FrontInv, ShownOnce
<1> QED
  BY <1>1, <1>2, <1>4 DEF FrontInv, FrontTypeOK

\* The steps of the front end, and an emit, keep its invariant.
LEMMA FrontStepKeeps ==
  ASSUME FrontInv, JournalInv,
         \/ \E w \in Writers : Emit(w)
         \/ Connect \/ ShowReplayed \/ Listen \/ Hear \/ (\E r \in Runs : ReplayStarted(r)) \/ SetEvents
  PROVE  FrontInv'
<1>1. ASSUME NEW w \in Writers, Emit(w)
      PROVE  FrontInv'
  <2>1. writer[w].event \in Logged /\ writer[w].event \in Events
    BY <1>1, LoggedAreEvents DEF Emit, JournalInv, LoggedByNow
  <2>2. /\ channel' = IF front.listens THEN Append(channel, writer[w].event) ELSE channel
        /\ UNCHANGED <<front, view, log>>
    BY <1>1 DEF Emit, storeVars
  <2>3. channel' \in Seq(Events) /\ Known(channel)' \subseteq Known(channel) \cup {writer[w].event}
    <3>1. channel \in Seq(Events)
      BY DEF FrontInv, FrontTypeOK
    <3>2. CASE channel' = channel
      BY <3>1, <3>2 DEF Known
    <3>3. CASE channel' = Append(channel, writer[w].event)
      <4>1. channel' \in Seq(Events)
        BY <2>1, <3>1, <3>3
      <4>2. \A i \in DOMAIN channel' : channel'[i] = writer[w].event
                                      \/ \E j \in DOMAIN channel : channel'[i] = channel[j]
        BY <2>1, <3>1, <3>3
      <4> QED BY <4>1, <4>2 DEF Known
    <3> QED BY <2>2, <3>2, <3>3
  <2>4. Known(view)' = Known(view) /\ Known(front.reply)' = Known(front.reply)
    BY <2>2 DEF Known
  <2>5. ShownOnce'
    BY <2>1, <2>2, <2>3, <2>4, SameLog DEF FrontInv, ShownOnce
  <2> QED BY <2>2, <2>3, <2>5 DEF FrontInv, FrontTypeOK, Once
<1>2. CASE Connect
  BY <1>2, FirstRun, ReplyKeepsFront DEF Connect, storeVars, FrontSteps
<1>3. CASE ShowReplayed
  <2>1. /\ front' = [front EXCEPT !.at = "subscribing", !.reply = <<>>]
        /\ view' = Show(front.reply) /\ UNCHANGED <<log, channel>>
    BY <1>3 DEF ShowReplayed, storeVars
  <2>2. /\ front' \in [at : FrontSteps, reply : Seq(Events), listens : BOOLEAN] /\ front'.reply = <<>>
        /\ front.reply \in Seq(Events) /\ channel \in Seq(Events)
    <3>1. <<>> \in Seq(Events)
      OBVIOUS
    <3> QED BY <2>1, <3>1 DEF FrontInv, FrontTypeOK, FrontSteps
  <2>3. Known(front.reply)' \subseteq Known(front.reply) /\ Once(front.reply)' /\ Known(channel)' = Known(channel)
    BY <2>1, <2>2 DEF Known, Once
  <2>4. Known(front.reply) \subseteq Logged
    BY DEF FrontInv, ShownOnce
  <2> QED BY <2>1, <2>2, <2>3, <2>4, ShowKeepsFront
<1>4. CASE Listen
  <2>1. front' = [front EXCEPT !.at = "connected", !.listens = TRUE] /\ UNCHANGED <<log, channel, view>>
    BY <1>4 DEF Listen, storeVars
  <2>2. /\ front' \in [at : FrontSteps, reply : Seq(Events), listens : BOOLEAN]
        /\ front'.reply = front.reply
    BY <2>1 DEF FrontInv, FrontTypeOK, FrontSteps
  <2>3. ShownOnce' /\ Once(front.reply)'
    BY <2>1, <2>2, SameLog DEF FrontInv, ShownOnce, Known, Once
  <2> QED BY <2>1, <2>2, <2>3 DEF FrontInv, FrontTypeOK
<1>5. CASE Hear
  <2>1. /\ channel # <<>> /\ view' = Show(<<Head(channel)>>) /\ channel' = Tail(channel)
        /\ UNCHANGED <<log, front>>
    BY <1>5 DEF Hear, storeVars
  <2>2. /\ channel \in Seq(Events) /\ Head(channel) = channel[1] /\ 1 \in DOMAIN channel
        /\ Tail(channel) \in Seq(Events)
        /\ \A i \in DOMAIN Tail(channel) : i + 1 \in DOMAIN channel /\ Tail(channel)[i] = channel[i + 1]
    BY <2>1 DEF FrontInv, FrontTypeOK
  <2>3. Known(channel)' \subseteq Known(channel) /\ Head(channel) \in Known(channel)
    BY <2>1, <2>2 DEF Known
  <2>4. <<Head(channel)>> \in Seq(Events) /\ Known(<<Head(channel)>>) \subseteq Logged
    <3>1. Head(channel) \in Logged
      BY <2>3 DEF FrontInv, ShownOnce
    <3>2. Head(channel) \in Events
      BY <2>2
    <3> QED BY <3>1, <3>2 DEF Known
  <2>5. Known(front.reply)' = Known(front.reply) /\ Once(front.reply)'
    BY <2>1 DEF FrontInv, Once, Known
  <2>6. channel' \in Seq(Events) /\ front' \in [at : FrontSteps, reply : Seq(Events), listens : BOOLEAN]
    BY <2>1, <2>2 DEF FrontInv, FrontTypeOK
  <2> QED BY <2>1, <2>3, <2>4, <2>5, <2>6, ShowKeepsFront
<1>6. ASSUME NEW r \in Runs, ReplayStarted(r)
      PROVE  FrontInv'
  BY <1>6, ReplyKeepsFront DEF ReplayStarted, storeVars, FrontSteps
<1>7. CASE SetEvents
  <2>1. /\ front' = [front EXCEPT !.at = "connected", !.reply = <<>>] /\ view' = front.reply
        /\ UNCHANGED <<log, channel>>
    BY <1>7 DEF SetEvents, storeVars
  <2>2. /\ front' \in [at : FrontSteps, reply : Seq(Events), listens : BOOLEAN] /\ front'.reply = <<>>
        /\ front.reply \in Seq(Events)
    <3>1. <<>> \in Seq(Events)
      OBVIOUS
    <3> QED BY <2>1, <3>1 DEF FrontInv, FrontTypeOK, FrontSteps
  <2>3. /\ Known(front.reply)' = {} /\ Once(front.reply)' /\ Known(channel)' = Known(channel)
        /\ Known(view)' = Known(front.reply)
    BY <2>1, <2>2 DEF Known, Once
  <2>4. ShownOnce'
    BY <2>1, <2>3, SameLog DEF FrontInv, ShownOnce, Once
  <2> QED BY <2>1, <2>2, <2>3, <2>4 DEF FrontInv, FrontTypeOK
<1> QED
  BY <1>1, <1>2, <1>3, <1>4, <1>5, <1>6, <1>7

\* A restart shows nothing.
LEMMA CrashKeepsFront ==
  ASSUME FrontInv, Crash
  PROVE  FrontInv'
  BY DEF Crash, FrontInv, FrontTypeOK, FrontSteps, ShownOnce, Closed, Once, Known

\* Both invariants: what is shown stays logged because the log only grows.
StoreInv == JournalInv /\ FrontInv

\* Every step of the writers, the front end and the ledger, and every restart, keep both.
LEMMA StoreInvNext == StoreInv /\ [StoreLogNext]_storeLogVars => StoreInv'
<1> SUFFICES ASSUME StoreInv, [StoreLogNext]_storeLogVars
             PROVE  StoreInv'
  OBVIOUS
<1> USE DEF StoreInv
<1>1. ASSUME UNCHANGED <<log, lock, writer, answered, frontVars>>, UNCHANGED stale \/ Commits
      PROVE  StoreInv'
  BY <1>1, QuietKeepsJournal, LogGrows, SameLog
<1>2. CASE UNCHANGED storeLogVars
  BY <1>1, <1>2 DEF storeLogVars, journalVars, storeVars
<1>3. ASSUME NEW w \in Writers, Read(w) \/ Write(w) \/ Refused(w) \/ Mark(w)
      PROVE  StoreInv'
  <2>1. UNCHANGED <<log, frontVars>>
    BY <1>3 DEF Read, Write, Refused, Mark
  <2> QED BY <1>3, <2>1, ReadKeepsJournal, WriteKeepsJournal, RefusedKeepsJournal, MarkKeepsJournal,
             LogGrows, SameLog
<1>4. ASSUME NEW w \in Writers, Commit(w)
      PROVE  StoreInv'
  BY <1>4, CommitKeepsJournal, LogGrows DEF Commit
<1>5. ASSUME NEW w \in Writers, Emit(w)
      PROVE  StoreInv'
  BY <1>5, EmitKeepsJournal, FrontStepKeeps
<1>6. CASE Connect \/ ShowReplayed \/ Listen \/ Hear \/ (\E r \in Runs : ReplayStarted(r)) \/ SetEvents
  <2>1. UNCHANGED <<log, lock, writer, answered, stale>>
    BY <1>6 DEF Connect, ShowReplayed, Listen, Hear, ReplayStarted, SetEvents, storeVars
  <2> QED BY <1>6, <2>1, QuietKeepsJournal, FrontStepKeeps
<1>7. CASE LedgerStep
  <2>1. UNCHANGED <<log, lock, writer, answered, frontVars>> /\ (UNCHANGED stale \/ Commits)
    BY <1>7 DEF LedgerStep, Prepare, FaultBefore, Execute, Operation, Observe, FaultAfter, Reconcile,
                Recover, Upsert, NoUpsert
  <2> QED BY <1>1, <2>1
<1>8. CASE Restart
  BY <1>8, CrashKeepsJournal, CrashKeepsFront DEF Restart
<1> QED
  BY <1>2, <1>3, <1>4, <1>5, <1>6, <1>7, <1>8 DEF StoreLogNext, JournalStep

\* The events of a run are numbered without a gap in the order of the commits, none is in the log
\* twice, and every writer was told the truth about its own, whatever two connections, refused
\* transactions, their repetition and restarts do (append_event_atomic, with_busy_retry).
THEOREM LogTellsTheTruth == StoreLogSpec => []LogIsTrue
<1>1. StoreLogInit => StoreInv
  BY JournalInvInit, FrontInvInit DEF StoreInv
<1>2. StoreInv => LogIsTrue
  BY DEF StoreInv, JournalInv
<1> QED
  BY <1>1, <1>2, StoreInvNext, PTL DEF StoreLogSpec

\* The front end shows only what is logged, and nothing twice, although it replays and listens at
\* the same time (connectEventBridge, Shell, emit_run_event).
THEOREM NothingShownTwice == StoreLogSpec => []ShownOnce
<1>1. StoreLogInit => StoreInv
  BY JournalInvInit, FrontInvInit DEF StoreInv
<1>2. StoreInv => ShownOnce
  BY DEF StoreInv, FrontInv
<1> QED
  BY <1>1, <1>2, StoreInvNext, PTL DEF StoreLogSpec
=============================================================================
