--------------------------- MODULE TaskStoreProofs ---------------------------
(***************************************************************************)
(* Theorems about the task store, for any number of processes, threads,    *)
(* clock readings and failures.  Four inductive invariants: who holds the  *)
(* lock and what each operation carries (Ordered); what a prepared         *)
(* transaction means (Meaning); who works on a task (Working); what the    *)
(* journal tells (Told).  Each rests on those before it that it needs.     *)
(***************************************************************************)
EXTENDS TaskStore, TLAPS

(* A reducer keeps the snapshot's shape and moves its revision and clock.  *)
Moved(s, n, now) ==
    n \in Snapshot /\ n.snapshot_revision = s.snapshot_revision + 1 /\ n.updated_at = now

(* Every reducer is Reduce with a status to start from and one to end in.  *)
LEMMA ReduceFacts ==
    ASSUME NEW s \in Snapshot, NEW now \in Times, NEW from,
           NEW status \in TaskStatus, NEW payload \in BOOLEAN,
           NEW n \in Reduce(s, from, now, status, payload)
    PROVE  Moved(s, n, now) /\ n.status = status /\ s.status \in from
<1>1. s.status \in from /\ n = [s EXCEPT !.status = status, !.pending_payload = payload,
                                     !.snapshot_revision = @ + 1, !.updated_at = now]
  BY DEF Reduce
<1>2. s = [store_schema_version |-> s.store_schema_version,
           snapshot_revision |-> s.snapshot_revision, status |-> s.status,
           run_contract |-> s.run_contract, pending_payload |-> s.pending_payload,
           updated_at |-> s.updated_at]
  BY DEF Snapshot
<1>3. n = [store_schema_version |-> s.store_schema_version,
           snapshot_revision |-> s.snapshot_revision + 1, status |-> status,
           run_contract |-> s.run_contract, pending_payload |-> payload, updated_at |-> now]
  BY <1>1, <1>2
<1>4. /\ s.store_schema_version \in Schemas /\ s.snapshot_revision \in Nat
      /\ s.run_contract \in BOOLEAN
  BY DEF Snapshot
<1> QED BY <1>1, <1>3, <1>4 DEF Snapshot, Moved

(* What any reducer does to a snapshot.                                    *)
LEMMA ReducerFacts ==
    ASSUME NEW s \in Snapshot, NEW now \in Times, NEW n \in Reducers(s, now)
    PROVE  /\ n \in Snapshot
           /\ n.snapshot_revision = s.snapshot_revision + 1
           /\ n.updated_at = now
           /\ s.status \notin Terminal
           /\ s.status \notin {"Created", "Running"} => n.status \notin {"Created", "Running"}
           /\ n.status # "Created"
           /\ n \in WorkReducers(s, now) => n.status # "Interrupted"
<1>s. /\ "Running" \in TaskStatus /\ "ReadyForReview" \in TaskStatus
      /\ "Applying" \in TaskStatus /\ "Completed" \in TaskStatus
      /\ "Rejected" \in TaskStatus /\ "Stale" \in TaskStatus
      /\ "Interrupted" \in TaskStatus /\ Failures \subseteq TaskStatus
      /\ s.pending_payload \in BOOLEAN /\ FALSE \in BOOLEAN /\ TRUE \in BOOLEAN
  BY DEF TaskStatus, Terminal, Failures, Interruptible, Snapshot
<1>2. ASSUME NEW m \in StartAttempt(s, now)
      PROVE  Moved(s, m, now) /\ m.status = "Running" /\ s.status \in {"Created"}
  BY ReduceFacts, <1>s, Zenon DEF StartAttempt
<1>3. ASSUME NEW m \in BindRunContract(s, now)
      PROVE  Moved(s, m, now) /\ m.status = "Running" /\ s.status \in {"Running"}
  <2>1. PICK r \in Reduce(s, {"Running"}, now, "Running", FALSE) :
              m = [r EXCEPT !.run_contract = TRUE]
    BY DEF BindRunContract
  <2>2. Moved(s, r, now) /\ r.status = "Running" /\ s.status \in {"Running"}
    BY ReduceFacts, <1>s, Zenon
  <2> QED BY <2>1, <2>2 DEF Snapshot, Moved
<1>4. ASSUME NEW m \in RecordReadyForReview(s, now)
      PROVE  Moved(s, m, now) /\ m.status = "ReadyForReview" /\ s.status \in {"Running"}
  <2>1. m \in Reduce(s, {"Running"}, now, "ReadyForReview", TRUE)
    BY DEF RecordReadyForReview
  <2> QED BY ReduceFacts, <1>s, <2>1, Zenon
<1>5. ASSUME NEW m \in RecordTerminal(s, now)
      PROVE  Moved(s, m, now) /\ m.status \in Failures /\ s.status \in {"Running"}
  <2>1. PICK status \in Failures : m \in Reduce(s, {"Running"}, now, status, FALSE)
    BY DEF RecordTerminal
  <2>2. status \in TaskStatus /\ FALSE \in BOOLEAN
    BY <1>s
  <2>3. Moved(s, m, now) /\ m.status = status /\ s.status \in {"Running"}
    BY ReduceFacts, <2>1, <2>2, Zenon
  <2> QED BY <2>3
<1>6. ASSUME NEW m \in BeginApply(s, now)
      PROVE  Moved(s, m, now) /\ m.status = "Applying" /\ s.status \in {"ReadyForReview"}
  BY ReduceFacts, <1>s, Zenon DEF BeginApply
<1>7. ASSUME NEW m \in CompleteApply(s, now)
      PROVE  Moved(s, m, now) /\ m.status = "Completed" /\ s.status \in {"Applying"}
  BY ReduceFacts, <1>s, Zenon DEF CompleteApply
<1>8. ASSUME NEW m \in Reject(s, now)
      PROVE  Moved(s, m, now) /\ m.status = "Rejected" /\ s.status \in {"ReadyForReview", "Applying"}
  BY ReduceFacts, <1>s, Zenon DEF Reject
<1>9. ASSUME NEW m \in MarkStale(s, now)
      PROVE  Moved(s, m, now) /\ m.status = "Stale" /\ s.status \in {"ReadyForReview"}
  BY ReduceFacts, <1>s, Zenon DEF MarkStale
<1>10. ASSUME NEW m \in ReconcileInterrupted(s, now)
       PROVE  Moved(s, m, now) /\ m.status = "Interrupted" /\ s.status \in Interruptible
  BY ReduceFacts, <1>s DEF ReconcileInterrupted
<1>11. /\ Moved(s, n, now)
       /\ s.status \in {"Created", "Running", "ReadyForReview", "Applying"}
       /\ n.status = "Running" => s.status \in {"Created", "Running"}
       /\ n.status \in {"Running", "ReadyForReview", "Applying", "Interrupted",
                       "Completed", "Rejected", "Stale"} \cup Failures
       /\ n \in WorkReducers(s, now) => n.status # "Interrupted"
  BY <1>2, <1>3, <1>4, <1>5, <1>6, <1>7, <1>8, <1>9, <1>10
     DEF Reducers, WorkReducers, Interruptible, Failures
<1> QED BY <1>11 DEF Moved, Terminal, Failures

LEMMA NewFacts ==
    ASSUME NEW schema \in Schemas, NEW now \in Times
    PROVE  /\ New(schema, now) \in Snapshot
           /\ New(schema, now).status = "Created"
           /\ New(schema, now).snapshot_revision = 0
  BY DEF New, Snapshot, TaskStatus, Interruptible

-----------------------------------------------------------------------------
(* Who holds the lock, and what each operation carries.                    *)
Locked == {"reconciled", "prepared", "live", "visible", "failed"}

Follows(old, n) ==
    \/ old = {} /\ \E schema \in Schemas, now \in Times : n = New(schema, now)
    \/ \E s \in old, now \in Times : n \in Reducers(s, now)

LockHolder == \A a \in Actors : pc[a] \in Locked <=> a \in lock

DownIsIdle ==
    \A a \in Actors : process[ProcessOf[a]] = "down" => pc[a] = "idle" /\ mem[a] = {}

OpFits ==
    \A a \in Actors :
        /\ pc[a] \in Locked \cup {"requested"} => \E n \in op[a].new : Follows(op[a].old, n)
        /\ pc[a] \in {"restoring", "pruning", "probing"} => op[a].old # {}
        /\ pc[a] \in {"idle", "opening", "reconciled journals", "sweeping"} => op[a] = NoOp
        /\ pc[a] = "live" => op[a].old = {}

Control ==
    /\ process \in [Processes -> {"down", "opening", "up"}]
    /\ Optional(lock, Actors)
    /\ pc \in [Actors -> Steps]
    /\ op \in [Actors -> [old : SUBSET Snapshot, new : SUBSET Snapshot]]
    /\ \A a \in Actors : Single(op[a].old) /\ Single(op[a].new)
    /\ LockHolder /\ DownIsIdle /\ OpFits

Data ==
    /\ Optional(task, Snapshot)
    /\ Optional(pending, [expected_revision : Nat, replacement_receipt : Receipts])
    /\ committed \in Seq(Receipts)
    /\ live_tasks \subseteq Processes
    /\ mem \in [Actors -> SUBSET Snapshot]
    /\ \A a \in Actors : Single(mem[a])
    /\ minted \in BOOLEAN /\ faults \in Nat

Ordered == Control /\ Data

LEMMA OrderedIsTyped == Ordered <=> StoreTypeOK /\ LockHolder /\ DownIsIdle /\ OpFits
  BY DEF Ordered, Control, Data, StoreTypeOK

LEMMA ReturnKeeps ==
    ASSUME Control, NEW a \in Actors, Return(a), lock' = lock \ {a},
           mem \in [Actors -> SUBSET Snapshot], mem' \in [Actors -> SUBSET Snapshot],
           \A b \in Actors : b # a => mem'[b] = mem[b]
    PROVE  Control'
<1> USE StoreAssumption DEF Control, Return
<1>1. /\ process' \in [Processes -> {"down", "opening", "up"}]
      /\ pc' \in [Actors -> Steps]
      /\ Optional(lock, Actors)'
  BY DEF Steps, Optional, Single
<1>2. /\ op' \in [Actors -> [old : SUBSET Snapshot, new : SUBSET Snapshot]]
      /\ (\A b \in Actors : Single(op[b].old) /\ Single(op[b].new))'
  BY DEF NoOp, Single
<1>3. LockHolder'
  BY DEF LockHolder, Locked
<1>4. DownIsIdle'
  BY DEF DownIsIdle
<1>5. OpFits'
  BY DEF OpFits, Locked
<1> QED BY <1>1, <1>2, <1>3, <1>4, <1>5

LEMMA ProceedKeeps ==
    ASSUME Control, NEW a \in Actors, NEW step \in Steps, Proceed(a, step), mem' = mem,
           pc[a] # "idle", step # "idle",
           lock' = IF step \in Locked THEN {a} ELSE lock \ {a},
           step \in Locked => /\ lock \subseteq {a}
                             /\ pc[a] \in Locked \cup {"requested"},
           step # "requested",
           step \in {"restoring", "pruning", "probing"} => op[a].old # {},
           step \in {"opening", "reconciled journals", "sweeping"} => op[a] = NoOp,
           step = "live" => op[a].old = {}
    PROVE  Control'
<1> USE StoreAssumption DEF Control, Proceed
<1>1. pc' \in [Actors -> Steps] /\ Optional(lock, Actors)'
  BY DEF Optional, Single
<1>2. LockHolder'
  BY DEF LockHolder, Locked, Optional
<1>3. DownIsIdle'
  BY DEF DownIsIdle
<1>4. OpFits'
  BY DEF OpFits, Locked
<1> QED BY <1>1, <1>2, <1>3, <1>4

LEMMA RequestKeeps ==
    ASSUME Control, NEW a \in Actors, NEW old \in SUBSET Snapshot, NEW n \in Snapshot,
           Request(a, old, n), Single(old), Follows(old, n), mem' = mem, lock' = lock,
           process[ProcessOf[a]] # "down", pc[a] \notin Locked
    PROVE  Control'
<1> USE StoreAssumption DEF Control, Request
<1>1. pc' \in [Actors -> Steps]
  BY DEF Steps
<1>2. /\ op' \in [Actors -> [old : SUBSET Snapshot, new : SUBSET Snapshot]]
      /\ (\A b \in Actors : Single(op[b].old) /\ Single(op[b].new))'
  BY DEF Single
<1>3. LockHolder'
  BY DEF LockHolder, Locked
<1>4. DownIsIdle'
  BY DEF DownIsIdle
<1>5. OpFits'
  BY DEF OpFits, Locked
<1> QED BY <1>1, <1>2, <1>3, <1>4, <1>5

(* The journal and the failure count keep their types, whatever is         *)
(* appended.                                                               *)
Transactions == [expected_revision : Nat, replacement_receipt : Receipts]

JournalTypes ==
    Optional(pending, Transactions) /\ committed \in Seq(Receipts) /\ faults \in Nat

LEMMA ReceiptType == ASSUME NEW s \in Snapshot PROVE Receipt(s) \in Receipts
  BY DEF Receipt, Receipts, Snapshot

LEMMA TransactionType ==
    ASSUME NEW old \in SUBSET Snapshot, NEW n \in Snapshot, Follows(old, n)
    PROVE  Transaction(old, n) \in Transactions
<1>1. n.snapshot_revision \in Nat
  BY DEF Snapshot
<1>2. CASE old = {}
  BY <1>1, <1>2, ReceiptType DEF Transaction, Transactions
<1>3. CASE old # {}
  <2>1. PICK s \in old, now \in Times : n \in Reducers(s, now)
    BY <1>3 DEF Follows
  <2>2. s.snapshot_revision \in Nat /\ n.snapshot_revision = s.snapshot_revision + 1
    BY <2>1, ReducerFacts DEF Snapshot
  <2> QED BY <1>3, <2>2, ReceiptType DEF Transaction, Transactions
<1> QED BY <1>2, <1>3

LEMMA AppendTypes ==
    ASSUME JournalTypes, NEW r \in Appends, Charge(r),
           \/ UNCHANGED journal
           \/ Aborted(r)
           \/ \E t \in pending : Committed(t, r)
    PROVE  JournalTypes'
<1>1. faults' \in Nat
  BY DEF Charge, Fault, JournalTypes
<1>2. ASSUME NEW t \in pending PROVE Append(committed, t.replacement_receipt) \in Seq(Receipts)
  BY DEF JournalTypes, Optional, Transactions
<1>3. Optional(pending, Transactions)' /\ committed' \in Seq(Receipts)
  BY <1>2 DEF JournalTypes, Optional, Single, Aborted, Committed, journal
<1> QED BY <1>1, <1>3 DEF JournalTypes

LEMMA ReconcileTypes ==
    ASSUME JournalTypes, NEW r \in Appends, ReconcileTaskAudit(r)
    PROVE  JournalTypes'
  BY AppendTypes DEF ReconcileTaskAudit

LEMMA FailureTypes ==
    ASSUME JournalTypes, ReconcileFails \/ Fault \/ UNCHANGED faults, UNCHANGED journal
    PROVE  JournalTypes'
  BY DEF JournalTypes, ReconcileFails, Fault, Optional, Single, journal

(* What an operation that holds or wants the lock carries.                 *)
LEMMA Carried ==
    ASSUME Control, NEW a \in Actors, pc[a] \in Locked \cup {"requested"}, NEW n \in op[a].new
    PROVE  /\ n \in Snapshot /\ op[a].new = {n}
           /\ op[a].old \in SUBSET Snapshot /\ Single(op[a].old)
           /\ Follows(op[a].old, n)
           /\ Transaction(op[a].old, n) \in Transactions
<1>1. /\ op[a].old \in SUBSET Snapshot /\ op[a].new \in SUBSET Snapshot
      /\ Single(op[a].old) /\ Single(op[a].new)
  BY DEF Control
<1>2. op[a].new = {n} /\ n \in Snapshot
  BY <1>1 DEF Single
<1>3. Follows(op[a].old, n)
  BY <1>2 DEF Control, OpFits
<1> QED BY <1>1, <1>2, <1>3, TransactionType

LEMMA Holder ==
    ASSUME Control, NEW a \in Actors, pc[a] \in Locked
    PROVE  lock = {a} /\ \A b \in Actors : pc[b] \in Locked => b = a
  BY DEF Control, LockHolder, Optional, Single

(* A reader remembers what it has read.                                    *)
LEMMA ReadKeeps ==
    ASSUME Control, NEW a \in Actors, NEW step \in {"restoring", "probing"},
           Optional(task, Snapshot), task # {}, mem' = mem, lock' = lock, process' = process,
           process[ProcessOf[a]] # "down", pc[a] \notin Locked,
           pc' = [pc EXCEPT ![a] = step],
           op' = [op EXCEPT ![a] = [old |-> task, new |-> {}]]
    PROVE  Control'
<1> USE StoreAssumption DEF Control
<1>1. pc' \in [Actors -> Steps] /\ Optional(lock, Actors)'
  BY DEF Steps
<1>2. /\ op' \in [Actors -> [old : SUBSET Snapshot, new : SUBSET Snapshot]]
      /\ (\A b \in Actors : Single(op[b].old) /\ Single(op[b].new))'
  BY DEF Single, Optional
<1>3. LockHolder'
  BY DEF LockHolder, Locked
<1>4. DownIsIdle'
  BY DEF DownIsIdle
<1>5. OpFits'
  BY DEF OpFits, Locked
<1> QED BY <1>1, <1>2, <1>3, <1>4, <1>5

THEOREM OrderedInductive ==
    Ordered /\ [StoreNext]_store_vars => Ordered'
<1> SUFFICES ASSUME Ordered, [StoreNext]_store_vars PROVE Ordered'
  OBVIOUS
<1> USE StoreAssumption, TaskAssumption
<1>a. Control /\ Data /\ JournalTypes
  BY DEF Ordered, Data, JournalTypes, Transactions
<1>b. ASSUME JournalTypes', UNCHANGED <<task, live_tasks, mem, minted>>
      PROVE  Data'
  BY <1>a, <1>b DEF Data, JournalTypes, Transactions, Optional, Single
<1>e. Optional({}, Transactions) /\ <<>> \in Seq(Receipts)
  BY DEF Optional, Single
<1>c. ASSUME NEW a \in Actors, pc[a] # "idle" PROVE process[ProcessOf[a]] # "down"
  BY <1>a, <1>c DEF Control, DownIsIdle
<1>1. ASSUME NEW a \in Actors, Create(a) PROVE Ordered'
  <2>1. PICK schema \in Schemas, now \in Times : Request(a, {}, New(schema, now))
    BY <1>1 DEF Create
  <2>2. Control'
    BY <1>a, <1>1, <2>1, NewFacts, RequestKeeps
       DEF Create, files, Idle, Follows, Single, Locked
  <2>3. Data'
    BY <1>a, <1>1 DEF Create, Data, files, journal
  <2> QED BY <2>2, <2>3 DEF Ordered
<1>2. ASSUME NEW a \in Actors, Transition(a) PROVE Ordered'
  <2>1. PICK s \in mem[a], now \in Times : \E n \in WorkReducers(s, now) : Request(a, mem[a], n)
    BY <1>2 DEF Transition
  <2>2. PICK n \in WorkReducers(s, now) : Request(a, mem[a], n)
    BY <2>1
  <2>3. mem[a] \in SUBSET Snapshot /\ Single(mem[a])
    BY <1>a DEF Data
  <2>4. n \in Reducers(s, now) /\ n \in Snapshot
    BY <2>2, <2>3, ReducerFacts DEF Reducers
  <2>5. Control'
    BY <1>a, <1>2, <2>2, <2>3, <2>4, RequestKeeps DEF Transition, files, Idle, Follows, Locked
  <2>6. Data'
    BY <1>a, <1>2 DEF Transition, Data, files, journal
  <2> QED BY <2>5, <2>6 DEF Ordered
<1>3. ASSUME NEW a \in Actors, Load(a) \/ Forget(a) PROVE Ordered'
  <2>1. Data'
    BY <1>a, <1>3 DEF Load, Forget, Data, files, journal, Optional, Single
  <2>2. UNCHANGED <<lock, process, pc, op>> /\ process[ProcessOf[a]] = "up"
    BY <1>3 DEF Load, Forget, files, Idle
  <2>3. \A b \in Actors : b # a => mem'[b] = mem[b]
    BY <1>a, <1>3 DEF Load, Forget, Data
  <2>4. Optional(lock, Actors)' /\ LockHolder' /\ OpFits'
    BY <1>a, <2>2 DEF Control, LockHolder, OpFits, Optional, Single
  <2>5. DownIsIdle'
    BY <1>a, <2>2, <2>3 DEF Control, DownIsIdle
  <2>6. Control'
    BY <1>a, <2>2, <2>4, <2>5 DEF Control
  <2> QED BY <2>1, <2>6 DEF Ordered
<1>4. ASSUME NEW a \in Actors, Acquire(a) PROVE Ordered'
  <2>1. JournalTypes'
    BY <1>a, <1>4, ReconcileTypes, FailureTypes DEF Acquire
  <2>2. Data'
    BY <1>b, <1>4, <2>1 DEF Acquire
  <2>3. Control'
    <3>1. CASE Return(a) /\ UNCHANGED lock
      BY <1>a, <1>4, <3>1, ReturnKeeps DEF Acquire, Data
    <3>2. CASE lock' = {a} /\ Proceed(a, "reconciled")
      BY <1>a, <1>4, <3>2, ProceedKeeps DEF Acquire, Locked, Steps
    <3> QED BY <1>4, <3>1, <3>2 DEF Acquire
  <2> QED BY <2>2, <2>3 DEF Ordered
<1>5. ASSUME NEW a \in Actors, Prepare(a) PROVE Ordered'
  <2>1. PICK r \in Appends, n \in op[a].new :
          /\ Charge(r)
          /\ pending' = IF r = "lost" THEN pending ELSE {Transaction(op[a].old, n)}
          /\ IF r = "ok" THEN UNCHANGED lock /\ Proceed(a, "prepared")
                         ELSE lock' = {} /\ Return(a)
    BY <1>5 DEF Prepare
  <2>2. Transaction(op[a].old, n) \in Transactions
    BY <1>a, <1>5, Carried DEF Prepare, Locked
  <2>3. JournalTypes'
    <3>1. Optional(pending, Transactions)'
      BY <1>a, <2>1, <2>2 DEF JournalTypes, Optional, Single
    <3>2. faults' \in Nat
      BY <1>a, <2>1 DEF JournalTypes, Charge, Fault
    <3> QED BY <1>a, <1>5, <3>1, <3>2 DEF Prepare, JournalTypes
  <2>4. Data'
    BY <1>b, <1>5, <2>3 DEF Prepare
  <2>5. lock = {a}
    BY <1>a, <1>5, Holder DEF Prepare, Locked
  <2>6. CASE r = "ok"
    <3>1. Control'
      BY <1>a, <1>5, <2>1, <2>5, <2>6, ProceedKeeps DEF Prepare, Locked, Steps
    <3> QED BY <3>1, <2>4 DEF Ordered
  <2>7. CASE r # "ok"
    <3>1. Control'
      BY <1>a, <1>5, <2>1, <2>5, <2>7, ReturnKeeps DEF Prepare, Data
    <3> QED BY <3>1, <2>4 DEF Ordered
  <2> QED BY <2>6, <2>7
<1>6. ASSUME NEW a \in Actors, BeginTaskLiveness(a) PROVE Ordered'
  <2>1. lock = {a}
    BY <1>a, <1>6, Holder DEF BeginTaskLiveness, Locked
  <2>2. Data'
    BY <1>a, <1>6 DEF BeginTaskLiveness, Data, Fault, journal
  <2>3. CASE UNCHANGED lock /\ Proceed(a, "live")
    <3>1. Control'
      BY <1>a, <1>6, <2>1, <2>3, ProceedKeeps DEF BeginTaskLiveness, Locked, Steps
    <3> QED BY <3>1, <2>2 DEF Ordered
  <2>4. CASE lock' = {} /\ Return(a)
    <3>1. Control'
      BY <1>a, <1>6, <2>1, <2>4, ReturnKeeps DEF BeginTaskLiveness, Data
    <3> QED BY <3>1, <2>2 DEF Ordered
  <2> QED BY <1>6, <2>3, <2>4 DEF BeginTaskLiveness
<1>7. ASSUME NEW a \in Actors, WriteSnapshot(a) PROVE Ordered'
  <2>1. pc[a] \in Locked /\ lock = {a}
    BY <1>a, <1>7, Holder DEF WriteSnapshot, CanWrite, Locked
  <2>2. Optional(task, Snapshot)'
    BY <1>a, <1>7 DEF WriteSnapshot, Control, Data, Optional, Single
  <2>3. Data'
    BY <1>a, <1>7, <2>2 DEF WriteSnapshot, Data, Fault, journal
  <2>4. Control'
    BY <1>a, <1>7, <2>1, ProceedKeeps DEF WriteSnapshot, Locked, Steps
  <2> QED BY <2>3, <2>4 DEF Ordered
<1>8. ASSUME NEW a \in Actors, Commit(a) PROVE Ordered'
  <2>1. pc[a] \in Locked /\ lock = {a}
    BY <1>a, <1>8, Holder DEF Commit, Locked
  <2>2. PICK r \in Appends, n \in op[a].new :
          /\ \/ \E t \in pending : Committed(t, r) /\ Charge(r)
             \/ pending = {} /\ r = "lost" /\ UNCHANGED <<journal, faults>>
          /\ live_tasks' = IF SnapshotIsActive(n) THEN live_tasks ELSE {}
          /\ IF r = "ok" /\ mem[a] = op[a].old
             THEN mem' = [mem EXCEPT ![a] = IF SnapshotIsActive(n) THEN {n} ELSE {}]
             ELSE UNCHANGED mem
    BY <1>8 DEF Commit
  <2>3. n \in Snapshot
    BY <1>a, <2>1, Carried
  <2>4. /\ mem' \in [Actors -> SUBSET Snapshot]
        /\ \A b \in Actors : Single(mem'[b]) /\ (b # a => mem'[b] = mem[b])
    BY <1>a, <2>2, <2>3 DEF Data, Single
  <2>5. JournalTypes'
    BY <1>a, <2>2, AppendTypes, FailureTypes
  <2>6. Data'
    BY <1>a, <1>8, <2>2, <2>4, <2>5 DEF Commit, Data, JournalTypes, Transactions, Optional
  <2>7. Control'
    BY <1>a, <1>8, <2>1, <2>4, ReturnKeeps DEF Commit, Data
  <2> QED BY <2>6, <2>7 DEF Ordered
<1>9. ASSUME NEW a \in Actors, Abort(a) PROVE Ordered'
  <2>1. pc[a] \in Locked /\ lock = {a}
    BY <1>a, <1>9, Holder DEF Abort, Locked
  <2>2. JournalTypes'
    BY <1>a, <1>9, AppendTypes DEF Abort
  <2>3. Data'
    BY <1>a, <1>9, <2>2 DEF Abort, Data, JournalTypes, Transactions, Optional
  <2>4. Control'
    BY <1>a, <1>9, <2>1, ReturnKeeps DEF Abort, Data
  <2> QED BY <2>3, <2>4 DEF Ordered
<1>10. ASSUME NEW a \in Actors, AppendStandaloneAudit(a) PROVE Ordered'
  <2>1. JournalTypes'
    BY <1>a, <1>10, ReconcileTypes DEF AppendStandaloneAudit
  <2>2. Data'
    BY <1>b, <1>10, <2>1 DEF AppendStandaloneAudit
  <2>3. Control'
    BY <1>a, <1>10 DEF AppendStandaloneAudit, Control, LockHolder, DownIsIdle, OpFits, Optional,
                       Single
  <2> QED BY <2>2, <2>3 DEF Ordered
<1>11. ASSUME NEW a \in Actors, ReconcileForSource(a) PROVE Ordered'
  <2>1. Control'
    BY <1>a, <1>11, ReadKeeps DEF ReconcileForSource, files, Idle, Data, Locked
  <2>2. Data'
    BY <1>a, <1>11 DEF ReconcileForSource, Data, files, journal
  <2> QED BY <2>1, <2>2 DEF Ordered
<1>12. ASSUME NEW a \in Actors, RestoreSkips(a) \/ RestoreReview(a) PROVE Ordered'
  <2>1. Optional(op[a].old, Snapshot)
    BY <1>a DEF Control, Optional
  <2>2. Data'
    BY <1>a, <1>12, <2>1 DEF RestoreSkips, RestoreReview, Data, files, journal, Optional
  <2>3. a \notin lock
    BY <1>a, <1>12 DEF RestoreSkips, RestoreReview, Control, LockHolder, Locked
  <2>4. Control'
    BY <1>a, <1>12, <2>2, <2>3, ReturnKeeps DEF RestoreSkips, RestoreReview, Data, files
  <2> QED BY <2>2, <2>4 DEF Ordered
<1>13. ASSUME NEW a \in Actors, RestoreMarksStale(a) \/ RestoreInterrupts(a) \/ SweepResolves(a)
       PROVE  Ordered'
  <2>1. PICK s \in op[a].old, now \in Times :
              \E n \in MarkStale(s, now) \cup ReconcileInterrupted(s, now) : Request(a, {s}, n)
    BY <1>13 DEF RestoreMarksStale, RestoreInterrupts, SweepResolves, Swept
  <2>2. PICK n \in MarkStale(s, now) \cup ReconcileInterrupted(s, now) : Request(a, {s}, n)
    BY <2>1
  <2>3. s \in Snapshot
    BY <1>a DEF Control
  <2>4. n \in Reducers(s, now) /\ n \in Snapshot
    BY <2>2, <2>3, ReducerFacts DEF Reducers, WorkReducers
  <2>5. Single({s}) /\ Follows({s}, n)
    BY <2>4 DEF Single, Follows
  <2>6. Control'
    BY <1>a, <1>c, <1>13, <2>2, <2>3, <2>4, <2>5, RequestKeeps
       DEF RestoreMarksStale, RestoreInterrupts, SweepResolves, files, Locked
  <2>7. Data'
    BY <1>a, <1>13 DEF RestoreMarksStale, RestoreInterrupts, SweepResolves, Data, files, journal
  <2> QED BY <2>6, <2>7 DEF Ordered
<1>14. ASSUME NEW a \in Actors, PruneSnapshot(a) PROVE Ordered'
  <2>1. a \notin lock
    BY <1>a, <1>14 DEF PruneSnapshot, Control, LockHolder, Locked
  <2>2. Control'
    BY <1>a, <1>14, <2>1, ProceedKeeps DEF PruneSnapshot, Locked, Steps
  <2>3. Data'
    BY <1>a, <1>14 DEF PruneSnapshot, Data, journal, Optional, Single
  <2> QED BY <2>2, <2>3 DEF Ordered
<1>15. ASSUME NEW a \in Actors, PruneJournal(a) PROVE Ordered'
  <2>1. a \notin lock
    BY <1>a, <1>15 DEF PruneJournal, Control, LockHolder, Locked
  <2>2. Data'
    <3>1. faults' \in Nat
      BY <1>a, <1>15 DEF PruneJournal, Data, Fault
    <3>2. Optional(pending, Transactions)' /\ committed' \in Seq(Receipts)
      BY <1>a, <1>e, <1>15 DEF PruneJournal, JournalTypes, journal, Optional, Single
    <3> QED BY <1>a, <1>b, <1>15, <3>1, <3>2 DEF PruneJournal, JournalTypes
  <2>3. Control'
    BY <1>a, <1>15, <2>1, ReturnKeeps DEF PruneJournal, Data
  <2> QED BY <2>2, <2>3 DEF Ordered
<1>16. ASSUME NEW a \in Actors, Open(a) PROVE Ordered'
  <2>1. Data'
    BY <1>a, <1>16 DEF Open, Data, files, journal
  <2>2. /\ process' \in [Processes -> {"down", "opening", "up"}]
        /\ pc' \in [Actors -> Steps] /\ Optional(lock, Actors)'
    BY <1>a, <1>16 DEF Open, Control, files, Steps
  <2>3. pc[a] = "idle" /\ op[a] = NoOp
    BY <1>a, <1>16 DEF Open, Control, DownIsIdle, OpFits
  <2>4. LockHolder' /\ DownIsIdle' /\ OpFits'
    BY <1>a, <1>16, <2>3 DEF Open, Control, files, LockHolder, DownIsIdle, OpFits, Locked
  <2>5. Control'
    BY <1>a, <1>16, <2>2, <2>4 DEF Open, Control
  <2> QED BY <2>1, <2>5 DEF Ordered
<1>17. ASSUME NEW a \in Actors, ReconcileOnOpen(a) PROVE Ordered'
  <2>1. JournalTypes'
    BY <1>a, <1>17, ReconcileTypes, FailureTypes DEF ReconcileOnOpen
  <2>2. Data'
    BY <1>b, <1>17, <2>1 DEF ReconcileOnOpen
  <2>3. op[a] = NoOp
    BY <1>a, <1>17 DEF ReconcileOnOpen, Control, OpFits
  <2>4. Control'
    BY <1>a, <1>17, <2>3, ProceedKeeps DEF ReconcileOnOpen, Locked, Steps
  <2> QED BY <2>2, <2>4 DEF Ordered
<1>18. ASSUME NEW a \in Actors, RemoveOrphanJournals(a) PROVE Ordered'
  <2>1. JournalTypes'
    <3>1. faults' \in Nat
      <4>1. faults' = faults \/ faults' = faults + 1
        BY <1>18, Zenon DEF RemoveOrphanJournals, Fault
      <4>2. faults \in Nat
        BY <1>a DEF JournalTypes
      <4> QED BY <4>1, <4>2
    <3>2. Optional(pending, Transactions)' /\ committed' \in Seq(Receipts)
      <4>1. pending' = pending /\ committed' \in {committed, <<>>}
        BY <1>18 DEF RemoveOrphanJournals, journal
      <4>2. Optional(pending, Transactions) /\ committed \in Seq(Receipts)
        BY <1>a DEF JournalTypes
      <4> QED BY <1>e, <4>1, <4>2, Zenon DEF Optional
    <3> QED BY <3>1, <3>2 DEF JournalTypes
  <2>2. Data'
    BY <1>b, <1>18, <2>1 DEF RemoveOrphanJournals
  <2>3. op[a] = NoOp
    BY <1>a, <1>18 DEF RemoveOrphanJournals, Control, OpFits
  <2>4. Control'
    BY <1>a, <1>18, <2>3, ProceedKeeps DEF RemoveOrphanJournals, Locked, Steps
  <2> QED BY <2>2, <2>4 DEF Ordered
<1>19. ASSUME NEW a \in Actors, Sweep(a) \/ SweepSkips(a) PROVE Ordered'
  <2>1. Data'
    BY <1>a, <1>19 DEF Sweep, SweepSkips, Data, files, journal
  <2>2. a \notin lock
    BY <1>a, <1>19 DEF Sweep, SweepSkips, Control, LockHolder, Locked
  <2>3. CASE Return(a)
    <3>1. Control'
      BY <1>a, <1>19, <2>1, <2>2, <2>3, ReturnKeeps DEF Sweep, SweepSkips, files, Data
    <3> QED BY <2>1, <3>1 DEF Ordered
  <2>4. CASE ~Return(a)
    <3>1. Control'
      BY <1>a, <1>c, <1>19, <2>4, ReadKeeps DEF Sweep, SweepSkips, files, Data, Locked
    <3> QED BY <2>1, <3>1 DEF Ordered
  <2> QED BY <2>3, <2>4
<1>20. ASSUME NEW p \in Processes, Crash(p) PROVE Ordered'
  <2>1. Data'
    BY <1>a, <1>20 DEF Crash, Data, Fault, journal, Optional, Single
  <2>2. /\ process' \in [Processes -> {"down", "opening", "up"}]
        /\ pc' \in [Actors -> Steps] /\ Optional(lock, Actors)'
    BY <1>a, <1>20 DEF Crash, Control, Steps, Optional, Single
  <2>3. /\ op' \in [Actors -> [old : SUBSET Snapshot, new : SUBSET Snapshot]]
        /\ (\A b \in Actors : Single(op[b].old) /\ Single(op[b].new))'
    BY <1>a, <1>20 DEF Crash, Control, NoOp, Single
  <2>4. LockHolder' /\ DownIsIdle'
    BY <1>a, <1>20 DEF Crash, Control, LockHolder, DownIsIdle, Locked
  <2>5. OpFits'
    BY <1>a, <1>20 DEF Crash, Control, OpFits, Locked
  <2> QED BY <2>1, <2>2, <2>3, <2>4, <2>5 DEF Ordered, Control
<1>21. CASE UNCHANGED store_vars
  BY <1>a, <1>21 DEF store_vars, journal, Ordered, Control, Data, LockHolder, DownIsIdle, OpFits,
                     Optional, Single
<1> QED
  BY <1>1, <1>2, <1>3, <1>4, <1>5, <1>6, <1>7, <1>8, <1>9, <1>10, <1>11, <1>12, <1>13,
     <1>14, <1>15, <1>16, <1>17, <1>18, <1>19, <1>20, <1>21, Zenon
     DEF StoreNext, Requests, Audited, Restore, Opening

THEOREM AlwaysOrdered == StoreSpec => []Ordered
<1>1. StoreInit => Ordered
  <2> SUFFICES ASSUME StoreInit PROVE Control /\ Data
    BY DEF Ordered
  <2>0. <<>> \in Seq(Receipts)
    OBVIOUS
  <2>1. Data
    <3>1. \A S : Optional({}, S)
      BY DEF Optional, Single
    <3>2. \A a \in Actors : mem[a] = {} /\ Single(mem[a])
      BY DEF StoreInit, Single
    <3> QED BY <2>0, <3>1, <3>2 DEF StoreInit, Data
  <2>2. /\ process \in [Processes -> {"down", "opening", "up"}] /\ Optional(lock, Actors)
        /\ pc \in [Actors -> Steps]
        /\ op \in [Actors -> [old : SUBSET Snapshot, new : SUBSET Snapshot]]
        /\ \A a \in Actors : Single(op[a].old) /\ Single(op[a].new)
    BY DEF StoreInit, NoOp, Steps, Optional, Single
  <2>3. LockHolder /\ DownIsIdle /\ OpFits
    BY DEF StoreInit, LockHolder, DownIsIdle, OpFits, NoOp, Locked
  <2> QED BY <2>1, <2>2, <2>3 DEF Control
<1> QED BY <1>1, OrderedInductive, PTL DEF StoreSpec

(* Every variable keeps its type, in every state of the store.             *)
THEOREM StoreTypeCorrect == StoreSpec => []StoreTypeOK
  BY AlwaysOrdered, OrderedIsTyped, PTL

-----------------------------------------------------------------------------
(* What a prepared transaction means.  The task is created once, and until *)
(* then there is nothing of it; a transaction about to be written is the   *)
(* one prepared; what a pruning reader saw is still there or gone for good. *)
Born(a) == pc[a] \in Locked \cup {"requested"} /\ op[a].old = {}

Creating(a) == pc[a] \in {"requested", "reconciled", "prepared", "live"} /\ op[a].old = {}

Early == ~minted \/ \E a \in Actors : Creating(a)

Untouched ==
    task = {} /\ committed = <<>> /\ \A a \in Actors : mem[a] = {} /\ op[a].old = {}

BornOnce ==
    /\ \A a, b \in Actors : Born(a) /\ Born(b) => a = b
    /\ \A a \in Actors : Born(a) => minted

Prepared ==
    \A a \in Actors : pc[a] \in {"prepared", "live"} /\ task = op[a].old =>
        \A n \in op[a].new : pending = {Transaction(op[a].old, n)}

Pruned == \A a \in Actors : pc[a] = "pruning" => task = {}

Past ==
    \A a \in Actors : pc[a] = "restoring" =>
        \A s \in op[a].old : s.status \in Terminal => task \subseteq {s}

Meaning == BornOnce /\ (Early => Untouched) /\ Prepared /\ Pruned /\ Past

(* A step that leaves the snapshot alone, and pending too while somebody   *)
(* else may be writing.                                                    *)
LEMMA QuietKeeps ==
    ASSUME Ordered, Meaning, NEW a \in Actors, task' = task,
           \A b \in Actors : b # a => pc'[b] = pc[b] /\ op'[b] = op[b],
           pending' = pending \/ lock \subseteq {a},
           pc'[a] \notin {"prepared", "live", "pruning"},
           pc'[a] = "restoring" => op'[a].old = task
    PROVE  Prepared' /\ Pruned' /\ Past'
<1>1. ASSUME NEW b \in Actors, b # a, pc[b] \in {"prepared", "live"} PROVE pending' = pending
  BY <1>1 DEF Ordered, Control, LockHolder, Locked
<1>2. Prepared'
  BY <1>1 DEF Meaning, Prepared
<1>3. Pruned'
  BY DEF Meaning, Pruned
<1>4. Single(task)
  BY DEF Ordered, Data, Optional
<1>5. Past'
  BY <1>4 DEF Meaning, Past, Single
<1> QED BY <1>2, <1>3, <1>5

(* Nobody begins to create by any step but Create.                         *)
LEMMA FewerBorn ==
    ASSUME Ordered, Meaning, minted' = minted,
           \A b \in Actors : (Born(b)' => Born(b)) /\ (Creating(b)' => Creating(b)),
           Untouched /\ Early /\ Early' => Untouched'
    PROVE  BornOnce' /\ (Early => Untouched)'
<1>1. BornOnce'
  BY DEF Meaning, BornOnce
<1>2. Early' => Early
  BY DEF Early
<1> QED BY <1>1, <1>2 DEF Meaning

LEMMA MeaningSum ==
    ASSUME BornOnce', (Early => Untouched)', Prepared', Pruned', Past' PROVE Meaning'
  BY DEF Meaning

(* An actor whose steps keep or end its creation, and leave others be.     *)
LEMMA OthersBorn ==
    ASSUME NEW a \in Actors,
           \A b \in Actors : b # a => pc'[b] = pc[b] /\ op'[b] = op[b],
           Born(a)' => Born(a), Creating(a)' => Creating(a)
    PROVE  \A b \in Actors : (Born(b)' => Born(b)) /\ (Creating(b)' => Creating(b))
  BY DEF Born, Creating

LEMMA ReturnsBorn ==
    ASSUME Ordered, NEW a \in Actors, Return(a)
    PROVE  /\ \A b \in Actors : (Born(b)' => Born(b)) /\ (Creating(b)' => Creating(b))
           /\ \A b \in Actors : b # a => pc'[b] = pc[b] /\ op'[b] = op[b]
           /\ pc'[a] = "idle" /\ op'[a] = NoOp
<1>1. /\ \A b \in Actors : b # a => pc'[b] = pc[b] /\ op'[b] = op[b]
      /\ pc'[a] = "idle" /\ op'[a] = NoOp
  BY DEF Return, Ordered, Control
<1>2. ~Born(a)' /\ ~Creating(a)'
  BY <1>1 DEF Born, Creating, Locked
<1> QED BY <1>1, <1>2, OthersBorn

LEMMA ProceedsBorn ==
    ASSUME Ordered, NEW a \in Actors, NEW step \in Steps, Proceed(a, step),
           step \in Locked => pc[a] \in Locked \cup {"requested"},
           step \in {"reconciled", "prepared", "live"} =>
              pc[a] \in {"requested", "reconciled", "prepared"},
           step # "requested"
    PROVE  /\ \A b \in Actors : (Born(b)' => Born(b)) /\ (Creating(b)' => Creating(b))
           /\ \A b \in Actors : b # a => pc'[b] = pc[b] /\ op'[b] = op[b]
           /\ pc'[a] = step /\ op'[a] = op[a] /\ op' = op
<1>1. /\ \A b \in Actors : b # a => pc'[b] = pc[b] /\ op'[b] = op[b]
      /\ pc'[a] = step /\ op'[a] = op[a] /\ op' = op
  BY DEF Proceed, Ordered, Control
<1>2. (Born(a)' => Born(a)) /\ (Creating(a)' => Creating(a))
  BY <1>1 DEF Born, Creating, Locked
<1> QED BY <1>1, <1>2, OthersBorn

LEMMA RequestsBorn ==
    ASSUME Ordered, NEW a \in Actors, NEW old, NEW n, Request(a, old, n), old # {}
    PROVE  /\ \A b \in Actors : (Born(b)' => Born(b)) /\ (Creating(b)' => Creating(b))
           /\ \A b \in Actors : b # a => pc'[b] = pc[b] /\ op'[b] = op[b]
           /\ pc'[a] = "requested" /\ op'[a] = [old |-> old, new |-> {n}]
<1>1. /\ \A b \in Actors : b # a => pc'[b] = pc[b] /\ op'[b] = op[b]
      /\ pc'[a] = "requested" /\ op'[a] = [old |-> old, new |-> {n}]
  BY DEF Request, Ordered, Control
<1>2. ~Born(a)' /\ ~Creating(a)'
  BY <1>1 DEF Born, Creating
<1> QED BY <1>1, <1>2, OthersBorn

(* Once the creating actor has written, nothing is early any more.         *)
LEMMA OnlyBorn ==
    ASSUME Ordered, Meaning, NEW a \in Actors, Born(a), ~Creating(a)', minted' = minted,
           \A b \in Actors : Creating(b)' => Creating(b)
    PROVE  ~Early'
<1>1. minted' /\ \A b \in Actors : Creating(b)' => Born(b)
  BY DEF Meaning, BornOnce, Born, Creating, Locked
<1> QED BY <1>1 DEF Meaning, BornOnce, Early

(* Reconciling before there is a task commits nothing.                     *)
LEMMA NothingLanded ==
    ASSUME NEW r, ReconcileTaskAudit(r), task = {}
    PROVE  committed' = committed
  BY DEF ReconcileTaskAudit, Landed, Aborted, journal

(* A pruning or restoring reader has seen the task: nobody creates it.     *)
LEMMA SeenIsBorn ==
    ASSUME Ordered, Meaning, NEW b \in Actors, pc[b] \in {"restoring", "pruning", "probing"}
    PROVE  ~Early /\ op[b].old # {}
  BY DEF Ordered, Control, OpFits, Meaning, Untouched

THEOREM MeaningInductive ==
    Ordered /\ Meaning /\ [StoreNext]_store_vars => Meaning'
<1> SUFFICES ASSUME Ordered, Meaning, [StoreNext]_store_vars PROVE Meaning'
  OBVIOUS
<1>c. Control /\ Data
  BY DEF Ordered
<1>u. ASSUME NEW a \in Actors, UNCHANGED <<task, committed, mem, minted>>,
             \A b \in Actors : (Born(b)' => Born(b)) /\ (Creating(b)' => Creating(b)),
             \A b \in Actors : b # a => op'[b] = op[b], op'[a].old = op[a].old \/ op'[a].old = {}
      PROVE  BornOnce' /\ (Early => Untouched)'
  <2>1. Untouched => Untouched'
    BY <1>u DEF Untouched
  <2> QED BY <1>u, <2>1, FewerBorn
<1>n. NoOp.old = {}
  BY DEF NoOp
<1>1. ASSUME NEW a \in Actors, Create(a) PROVE Meaning'
  <2>1. PICK schema \in Schemas, now \in Times : Request(a, {}, New(schema, now))
    BY <1>1 DEF Create
  <2>2. /\ pc'[a] = "requested" /\ op'[a].old = {}
        /\ \A b \in Actors : b # a => pc'[b] = pc[b] /\ op'[b] = op[b]
    BY <1>c, <2>1 DEF Request, Control
  <2>3. ~minted /\ minted' /\ Untouched
    BY <1>1 DEF Create, Meaning, Early
  <2>4. Untouched'
    BY <1>1, <2>2, <2>3 DEF Create, Untouched, files, journal
  <2>5. BornOnce'
    <3>1. \A b \in Actors : Born(b)' => b = a
      BY <2>2, <2>3 DEF Meaning, BornOnce, Born
    <3> QED BY <2>3, <3>1 DEF BornOnce
  <2>6. Prepared' /\ Pruned' /\ Past'
    BY <1>1, <2>2, QuietKeeps DEF Create, files, journal
  <2> QED BY <2>4, <2>5, <2>6, MeaningSum
<1>2. ASSUME NEW a \in Actors, Transition(a) PROVE Meaning'
  <2>1. PICK s \in mem[a], now \in Times : \E n \in WorkReducers(s, now) : Request(a, mem[a], n)
    BY <1>2 DEF Transition
  <2>2. PICK n \in WorkReducers(s, now) : Request(a, mem[a], n)
    BY <2>1
  <2>3. /\ \A b \in Actors : (Born(b)' => Born(b)) /\ (Creating(b)' => Creating(b))
        /\ \A b \in Actors : b # a => pc'[b] = pc[b] /\ op'[b] = op[b]
        /\ pc'[a] = "requested"
    BY <2>1, <2>2, RequestsBorn
  <2>4. ~Untouched
    BY <2>1 DEF Untouched
  <2>5. BornOnce' /\ (Early => Untouched)'
    BY <1>2, <2>3, <2>4, FewerBorn DEF Transition
  <2>6. Prepared' /\ Pruned' /\ Past'
    BY <1>2, <2>3, QuietKeeps DEF Transition, files, journal
  <2> QED BY <2>5, <2>6, MeaningSum
<1>3. ASSUME NEW a \in Actors, Load(a) \/ Forget(a) PROVE Meaning'
  <2>1. UNCHANGED <<task, pending, pc, op, minted>> /\ mem[a] # {} /\ pc[a] = "idle"
    BY <1>3 DEF Load, Forget, files, journal, Idle
  <2>2. ~Untouched
    BY <2>1 DEF Untouched
  <2>3. BornOnce' /\ (Early => Untouched)'
    BY <2>1, <2>2, FewerBorn DEF Born, Creating
  <2>4. Prepared' /\ Pruned' /\ Past'
    BY <2>1, QuietKeeps
  <2> QED BY <2>3, <2>4, MeaningSum
<1>4. ASSUME NEW a \in Actors, Acquire(a) PROVE Meaning'
  <2>1. UNCHANGED <<task, mem, minted>> /\ lock = {} /\ pc[a] = "requested"
        /\ (task = {} => committed' = committed)
        /\ (Return(a) \/ Proceed(a, "reconciled"))
    BY <1>4, NothingLanded DEF Acquire, journal
  <2>2. /\ \A b \in Actors : (Born(b)' => Born(b)) /\ (Creating(b)' => Creating(b))
        /\ \A b \in Actors : b # a => pc'[b] = pc[b] /\ op'[b] = op[b]
        /\ pc'[a] \in {"idle", "reconciled"} /\ op'[a] \in {NoOp, op[a]}
    BY <2>1, ReturnsBorn, ProceedsBorn DEF Steps
  <2>3. Untouched => Untouched'
    BY <1>n, <2>1, <2>2 DEF Untouched
  <2>4. BornOnce' /\ (Early => Untouched)'
    BY <2>1, <2>2, <2>3, FewerBorn
  <2>5. Prepared' /\ Pruned' /\ Past'
    BY <2>1, <2>2, QuietKeeps
  <2> QED BY <2>4, <2>5, MeaningSum
<1>5. ASSUME NEW a \in Actors, Prepare(a) PROVE Meaning'
  <2>1. PICK r \in Appends, n \in op[a].new :
          /\ pending' = IF r = "lost" THEN pending ELSE {Transaction(op[a].old, n)}
          /\ IF r = "ok" THEN Proceed(a, "prepared") ELSE Return(a)
    BY <1>5 DEF Prepare
  <2>2. /\ \A b \in Actors : (Born(b)' => Born(b)) /\ (Creating(b)' => Creating(b))
        /\ \A b \in Actors : b # a => pc'[b] = pc[b] /\ op'[b] = op[b]
        /\ op'[a] \in {NoOp, op[a]}
        /\ pc'[a] = IF r = "ok" THEN "prepared" ELSE "idle"
        /\ r = "ok" => op'[a] = op[a]
    BY <1>5, <2>1, ReturnsBorn, ProceedsBorn DEF Prepare, Steps, Locked
  <2>3. UNCHANGED <<task, committed, mem, minted>>
    BY <1>5 DEF Prepare
  <2>4. BornOnce' /\ (Early => Untouched)'
    BY <1>n, <1>u, <2>2, <2>3
  <2>5. lock = {a} /\ op[a].new = {n} /\ \A b \in Actors : pc[b] \in Locked => b = a
    BY <1>c, <1>5, Holder, Carried DEF Prepare, Locked
  <2>6. CASE r # "ok"
    <3>1. Prepared' /\ Pruned' /\ Past'
      BY <2>2, <2>3, <2>5, <2>6, QuietKeeps
    <3> QED BY <2>4, <3>1, MeaningSum
  <2>7. CASE r = "ok"
    <3>1. pending' = {Transaction(op[a].old, n)}
      BY <2>1, <2>7
    <3>2. Prepared'
      BY <2>2, <2>5, <2>7, <3>1 DEF Prepared, Locked
    <3>3. Pruned' /\ Past'
      BY <2>2, <2>3, <2>7 DEF Meaning, Pruned, Past
    <3> QED BY <2>4, <3>2, <3>3, MeaningSum
  <2> QED BY <2>6, <2>7
<1>6. ASSUME NEW a \in Actors, BeginTaskLiveness(a) PROVE Meaning'
  <2>1. UNCHANGED <<task, committed, pending, mem, minted>> /\ pc[a] = "prepared"
        /\ (Proceed(a, "live") \/ Return(a))
    BY <1>6 DEF BeginTaskLiveness, journal
  <2>2. /\ \A b \in Actors : (Born(b)' => Born(b)) /\ (Creating(b)' => Creating(b))
        /\ \A b \in Actors : b # a => pc'[b] = pc[b] /\ op'[b] = op[b]
        /\ op'[a] \in {NoOp, op[a]}
        /\ pc'[a] = "idle" \/ (pc'[a] = "live" /\ op'[a] = op[a])
    BY <2>1, ReturnsBorn, ProceedsBorn DEF Steps, Locked
  <2>3. BornOnce' /\ (Early => Untouched)'
    BY <1>n, <1>u, <2>1, <2>2
  <2>4. Prepared'
    BY <2>1, <2>2 DEF Meaning, Prepared
  <2>5. Pruned' /\ Past'
    BY <2>1, <2>2 DEF Meaning, Pruned, Past
  <2> QED BY <2>3, <2>4, <2>5, MeaningSum
<1>7. ASSUME NEW a \in Actors, WriteSnapshot(a) PROVE Meaning'
  <2>1. /\ UNCHANGED <<journal, mem, minted>> /\ CanWrite(a)
        /\ \/ task = op[a].old /\ task' = op[a].new /\ Proceed(a, "visible")
           \/ task = op[a].old /\ task' = op[a].new /\ Proceed(a, "failed")
           \/ UNCHANGED task /\ Proceed(a, "failed")
    BY <1>7 DEF WriteSnapshot
  <2>2. pc[a] \in Locked /\ lock = {a} /\ \A b \in Actors : pc[b] \in Locked => b = a
    BY <1>c, <2>1, Holder DEF CanWrite, Locked
  <2>3. PICK step \in {"visible", "failed"} : Proceed(a, step)
    BY <2>1
  <2>4. /\ \A b \in Actors : (Born(b)' => Born(b)) /\ (Creating(b)' => Creating(b))
        /\ \A b \in Actors : b # a => pc'[b] = pc[b] /\ op'[b] = op[b]
        /\ pc'[a] \in {"visible", "failed"}
    BY <2>2, <2>3, ProceedsBorn DEF Steps
  <2>5. ~Creating(a)'
    BY <2>4 DEF Creating
  <2>6. Untouched /\ Early' => Untouched'
    <3>1. Untouched => Born(a)
      BY <2>2 DEF Untouched, Born
    <3> QED BY <2>1, <2>4, <2>5, <3>1, OnlyBorn
  <2>7. BornOnce' /\ (Early => Untouched)'
    BY <2>1, <2>4, <2>6, FewerBorn
  <2>8. CASE UNCHANGED task
    <3>1. Prepared' /\ Pruned' /\ Past'
      BY <2>1, <2>4, <2>8, QuietKeeps DEF journal
    <3> QED BY <2>7, <3>1, MeaningSum
  <2>9. CASE task = op[a].old /\ task' = op[a].new
    <3>1. ASSUME task = {} PROVE Early
      BY <2>1, <2>9, <3>1 DEF CanWrite, Creating, Early
    <3>2. Prepared'
      BY <2>2, <2>4 DEF Prepared, Locked
    <3>3. Pruned'
      <4>1. ASSUME NEW b \in Actors, pc'[b] = "pruning" PROVE FALSE
        <5>1. pc[b] = "pruning"
          BY <2>4, <4>1
        <5> QED BY <3>1, <5>1, SeenIsBorn DEF Meaning, Pruned
      <4> QED BY <4>1 DEF Pruned
    <3>4. Past'
      <4>1. ASSUME NEW b \in Actors, pc'[b] = "restoring",
                   NEW s \in op'[b].old, s.status \in Terminal
            PROVE  FALSE
        <5>1. pc[b] = "restoring" /\ s \in op[b].old
          BY <2>4, <4>1
        <5>2. task \subseteq {s} /\ task # {}
          BY <3>1, <4>1, <5>1, SeenIsBorn DEF Meaning, Past
        <5>3. op[a].old = {s} /\ s \in Snapshot
          BY <1>c, <2>9, <5>1, <5>2 DEF Control
        <5>4. PICK n \in op[a].new : Follows(op[a].old, n)
          BY <1>c, <2>2 DEF Control, OpFits
        <5>5. PICK now \in Times : n \in Reducers(s, now)
          BY <5>3, <5>4 DEF Follows
        <5> QED BY <4>1, <5>3, <5>5, ReducerFacts
      <4> QED BY <4>1 DEF Past
    <3> QED BY <2>7, <3>2, <3>3, <3>4, MeaningSum
  <2> QED BY <2>1, <2>8, <2>9
<1>8. ASSUME NEW a \in Actors, Commit(a) PROVE Meaning'
  <2>1. UNCHANGED <<task, minted>> /\ pc[a] = "visible" /\ Return(a)
    BY <1>8 DEF Commit
  <2>2. lock = {a} /\ pc[a] \in Locked
    BY <1>c, <2>1, Holder DEF Locked
  <2>3. /\ \A b \in Actors : (Born(b)' => Born(b)) /\ (Creating(b)' => Creating(b))
        /\ \A b \in Actors : b # a => pc'[b] = pc[b] /\ op'[b] = op[b]
        /\ pc'[a] = "idle"
    BY <2>1, ReturnsBorn
  <2>4. Untouched /\ Early' => FALSE
    <3>1. Untouched => Born(a)
      BY <2>2 DEF Untouched, Born
    <3>2. ~Creating(a)'
      BY <2>3 DEF Creating
    <3> QED BY <2>1, <2>3, <3>1, <3>2, OnlyBorn
  <2>5. BornOnce' /\ (Early => Untouched)'
    BY <2>1, <2>3, <2>4, FewerBorn
  <2>6. Prepared' /\ Pruned' /\ Past'
    BY <2>1, <2>2, <2>3, QuietKeeps
  <2> QED BY <2>5, <2>6, MeaningSum
<1>9. ASSUME NEW a \in Actors, Abort(a) PROVE Meaning'
  <2>1. UNCHANGED <<task, committed, mem, minted>> /\ pc[a] = "failed" /\ Return(a)
    BY <1>9 DEF Abort, Aborted
  <2>2. lock = {a}
    BY <1>c, <2>1, Holder DEF Locked
  <2>3. /\ \A b \in Actors : (Born(b)' => Born(b)) /\ (Creating(b)' => Creating(b))
        /\ \A b \in Actors : b # a => pc'[b] = pc[b] /\ op'[b] = op[b]
        /\ pc'[a] = "idle" /\ op'[a] = NoOp
    BY <2>1, ReturnsBorn
  <2>4. BornOnce' /\ (Early => Untouched)'
    BY <1>n, <1>u, <2>1, <2>3
  <2>5. Prepared' /\ Pruned' /\ Past'
    BY <2>1, <2>2, <2>3, QuietKeeps
  <2> QED BY <2>4, <2>5, MeaningSum
<1>10. ASSUME NEW a \in Actors, AppendStandaloneAudit(a) PROVE Meaning'
  <2>1. UNCHANGED <<task, pc, op, mem, minted>> /\ lock = {} /\ mem[a] # {} /\ pc[a] = "idle"
    BY <1>10 DEF AppendStandaloneAudit, Idle
  <2>2. ~Untouched
    BY <2>1 DEF Untouched
  <2>3. BornOnce' /\ (Early => Untouched)'
    BY <2>1, <2>2, FewerBorn DEF Born, Creating
  <2>4. Prepared' /\ Pruned' /\ Past'
    BY <2>1, QuietKeeps
  <2> QED BY <2>3, <2>4, MeaningSum
<1>11. ASSUME NEW a \in Actors, ReconcileForSource(a) PROVE Meaning'
  <2>1. /\ UNCHANGED <<task, pending, minted>> /\ task # {}
        /\ pc'[a] = "restoring" /\ op'[a].old = task
        /\ \A b \in Actors : b # a => pc'[b] = pc[b] /\ op'[b] = op[b]
    BY <1>c, <1>11 DEF ReconcileForSource, files, journal, Control
  <2>2. \A b \in Actors : (Born(b)' => Born(b)) /\ (Creating(b)' => Creating(b))
    BY <2>1, OthersBorn DEF Born, Creating, Locked
  <2>3. BornOnce' /\ (Early => Untouched)'
    BY <2>1, <2>2, FewerBorn DEF Untouched
  <2>4. Prepared' /\ Pruned' /\ Past'
    BY <2>1, QuietKeeps
  <2> QED BY <2>3, <2>4, MeaningSum
<1>12. ASSUME NEW a \in Actors, RestoreSkips(a) \/ RestoreReview(a) PROVE Meaning'
  <2>1. UNCHANGED <<task, pending, minted>> /\ pc[a] = "restoring" /\ Return(a)
    BY <1>12 DEF RestoreSkips, RestoreReview, files, journal
  <2>2. /\ \A b \in Actors : (Born(b)' => Born(b)) /\ (Creating(b)' => Creating(b))
        /\ \A b \in Actors : b # a => pc'[b] = pc[b] /\ op'[b] = op[b]
        /\ pc'[a] = "idle"
    BY <2>1, ReturnsBorn
  <2>3. BornOnce' /\ (Early => Untouched)'
    BY <2>1, <2>2, FewerBorn, SeenIsBorn
  <2>4. Prepared' /\ Pruned' /\ Past'
    BY <2>1, <2>2, QuietKeeps
  <2> QED BY <2>3, <2>4, MeaningSum
<1>13. ASSUME NEW a \in Actors, RestoreMarksStale(a) \/ RestoreInterrupts(a) \/ SweepResolves(a)
       PROVE  Meaning'
  <2>1. PICK s \in op[a].old : \E n : Request(a, {s}, n)
    BY <1>13, Zenon DEF RestoreMarksStale, RestoreInterrupts, SweepResolves
  <2>2. PICK n : Request(a, {s}, n)
    BY <2>1
  <2>3. UNCHANGED <<task, pending, minted>> /\ pc[a] \in {"restoring", "probing"}
    BY <1>13 DEF RestoreMarksStale, RestoreInterrupts, SweepResolves, files, journal
  <2>4. /\ \A b \in Actors : (Born(b)' => Born(b)) /\ (Creating(b)' => Creating(b))
        /\ \A b \in Actors : b # a => pc'[b] = pc[b] /\ op'[b] = op[b]
        /\ pc'[a] = "requested"
    BY <2>2, RequestsBorn
  <2>5. BornOnce' /\ (Early => Untouched)'
    BY <2>3, <2>4, FewerBorn, SeenIsBorn
  <2>6. Prepared' /\ Pruned' /\ Past'
    BY <2>3, <2>4, QuietKeeps
  <2> QED BY <2>5, <2>6, MeaningSum
<1>14. ASSUME NEW a \in Actors, PruneSnapshot(a) PROVE Meaning'
  <2>1. UNCHANGED <<pending, minted>> /\ pc[a] = "restoring" /\ task' = {} /\ Proceed(a, "pruning")
    BY <1>14 DEF PruneSnapshot, journal
  <2>2. /\ \A b \in Actors : (Born(b)' => Born(b)) /\ (Creating(b)' => Creating(b))
        /\ \A b \in Actors : b # a => pc'[b] = pc[b] /\ op'[b] = op[b]
        /\ pc'[a] = "pruning" /\ op' = op
    BY <2>1, ProceedsBorn DEF Steps, Locked
  <2>3. BornOnce' /\ (Early => Untouched)'
    BY <2>1, <2>2, FewerBorn, SeenIsBorn
  <2>4. Prepared'
    <3>1. ASSUME NEW b \in Actors, pc'[b] \in {"prepared", "live"}, task' = op'[b].old
          PROVE  FALSE
      <4>1. Creating(b)
        BY <2>1, <2>2, <3>1 DEF Creating
      <4> QED BY <2>1, <4>1, SeenIsBorn DEF Early
    <3> QED BY <3>1 DEF Prepared
  <2>5. Pruned' /\ Past'
    BY <2>1 DEF Pruned, Past
  <2> QED BY <2>3, <2>4, <2>5, MeaningSum
<1>15. ASSUME NEW a \in Actors, PruneJournal(a) PROVE Meaning'
  <2>1. UNCHANGED <<task, minted>> /\ pc[a] = "pruning" /\ Return(a)
    BY <1>15 DEF PruneJournal
  <2>2. /\ \A b \in Actors : (Born(b)' => Born(b)) /\ (Creating(b)' => Creating(b))
        /\ \A b \in Actors : b # a => pc'[b] = pc[b] /\ op'[b] = op[b]
        /\ pc'[a] = "idle"
    BY <2>1, ReturnsBorn
  <2>3. BornOnce' /\ (Early => Untouched)'
    BY <2>1, <2>2, FewerBorn, SeenIsBorn
  <2>4. Prepared'
    <3>1. task = {}
      BY <2>1 DEF Meaning, Pruned
    <3>2. ASSUME NEW b \in Actors, pc'[b] \in {"prepared", "live"}, task' = op'[b].old
          PROVE  FALSE
      <4>1. Creating(b)
        BY <2>1, <2>2, <3>1, <3>2 DEF Creating
      <4> QED BY <2>1, <4>1, SeenIsBorn DEF Early
    <3> QED BY <3>2 DEF Prepared
  <2>5. Pruned' /\ Past'
    BY <2>1, <2>2 DEF Meaning, Pruned, Past
  <2> QED BY <2>3, <2>4, <2>5, MeaningSum
<1>16. ASSUME NEW a \in Actors, Open(a) PROVE Meaning'
  <2>1. /\ UNCHANGED <<task, committed, pending, mem, minted, op>> /\ pc'[a] = "opening"
        /\ \A b \in Actors : b # a => pc'[b] = pc[b]
    BY <1>c, <1>16 DEF Open, files, journal, Control
  <2>2. \A b \in Actors : (Born(b)' => Born(b)) /\ (Creating(b)' => Creating(b))
    BY <2>1, OthersBorn DEF Born, Creating, Locked
  <2>3. BornOnce' /\ (Early => Untouched)'
    BY <1>u, <2>1, <2>2
  <2>4. Prepared' /\ Pruned' /\ Past'
    BY <2>1, QuietKeeps
  <2> QED BY <2>3, <2>4, MeaningSum
<1>17. ASSUME NEW a \in Actors, ReconcileOnOpen(a) \/ RemoveOrphanJournals(a) PROVE Meaning'
  <2>1. /\ UNCHANGED <<task, mem, minted>> /\ lock = {}
        /\ Proceed(a, "reconciled journals") \/ Proceed(a, "sweeping")
    BY <1>17 DEF ReconcileOnOpen, RemoveOrphanJournals
  <2>2. /\ \A b \in Actors : (Born(b)' => Born(b)) /\ (Creating(b)' => Creating(b))
        /\ \A b \in Actors : b # a => pc'[b] = pc[b] /\ op'[b] = op[b]
        /\ pc'[a] \in {"reconciled journals", "sweeping"} /\ op' = op
    BY <2>1, ProceedsBorn DEF Steps, Locked
  <2>3. Untouched => committed' = committed
    <3>1. CASE ReconcileOnOpen(a)
      BY <3>1, NothingLanded DEF ReconcileOnOpen, Untouched, journal
    <3>2. CASE RemoveOrphanJournals(a)
      BY <3>2 DEF RemoveOrphanJournals, Untouched, journal
    <3> QED BY <1>17, <3>1, <3>2
  <2>4. Untouched => Untouched'
    BY <2>1, <2>2, <2>3 DEF Untouched
  <2>5. BornOnce' /\ (Early => Untouched)'
    BY <2>1, <2>2, <2>4, FewerBorn
  <2>6. Prepared' /\ Pruned' /\ Past'
    BY <2>1, <2>2, QuietKeeps
  <2> QED BY <2>5, <2>6, MeaningSum
<1>18. ASSUME NEW a \in Actors, Sweep(a) \/ SweepSkips(a) PROVE Meaning'
  <2>1. UNCHANGED <<task, pending, committed, mem, minted>>
    BY <1>18 DEF Sweep, SweepSkips, files, journal
  <2>2. CASE Return(a)
    <3>1. /\ \A b \in Actors : (Born(b)' => Born(b)) /\ (Creating(b)' => Creating(b))
          /\ \A b \in Actors : b # a => pc'[b] = pc[b] /\ op'[b] = op[b]
          /\ pc'[a] = "idle" /\ op'[a] = NoOp
      BY <2>2, ReturnsBorn
    <3>2. BornOnce' /\ (Early => Untouched)'
      BY <1>n, <1>u, <2>1, <3>1
    <3>3. Prepared' /\ Pruned' /\ Past'
      BY <2>1, <3>1, QuietKeeps
    <3> QED BY <3>2, <3>3, MeaningSum
  <2>3. CASE ~Return(a)
    <3>1. /\ task # {} /\ pc'[a] = "probing"
          /\ \A b \in Actors : b # a => pc'[b] = pc[b] /\ op'[b] = op[b]
      BY <1>c, <1>18, <2>3 DEF Sweep, SweepSkips, Control
    <3>2. \A b \in Actors : (Born(b)' => Born(b)) /\ (Creating(b)' => Creating(b))
      BY <3>1, OthersBorn DEF Born, Creating, Locked
    <3>3. BornOnce' /\ (Early => Untouched)'
      BY <2>1, <3>1, <3>2, FewerBorn DEF Untouched
    <3>4. Prepared' /\ Pruned' /\ Past'
      BY <2>1, <3>1, QuietKeeps
    <3> QED BY <3>3, <3>4, MeaningSum
  <2> QED BY <2>2, <2>3
<1>19. ASSUME NEW p \in Processes, Crash(p) PROVE Meaning'
  <2>1. /\ UNCHANGED <<task, committed, pending, minted>>
        /\ \A b \in Actors : \/ pc'[b] = "idle" /\ op'[b] = NoOp /\ mem'[b] = {}
                             \/ pc'[b] = pc[b] /\ op'[b] = op[b] /\ mem'[b] = mem[b]
    BY <1>19 DEF Crash, journal
  <2>2. \A b \in Actors : (Born(b)' => Born(b)) /\ (Creating(b)' => Creating(b))
    BY <2>1 DEF Born, Creating, Locked
  <2>3. Untouched => Untouched'
    BY <1>n, <2>1 DEF Untouched
  <2>4. BornOnce' /\ (Early => Untouched)'
    BY <2>1, <2>2, <2>3, FewerBorn
  <2>5. Prepared' /\ Pruned' /\ Past'
    BY <2>1 DEF Meaning, Prepared, Pruned, Past
  <2> QED BY <2>4, <2>5, MeaningSum
<1>20. CASE UNCHANGED store_vars
  BY <1>20 DEF store_vars, Meaning, BornOnce, Born, Creating, Early, Untouched, Prepared, Pruned,
               Past
<1> QED
  BY <1>1, <1>2, <1>3, <1>4, <1>5, <1>6, <1>7, <1>8, <1>9, <1>10, <1>11, <1>12, <1>13,
     <1>14, <1>15, <1>16, <1>17, <1>18, <1>19, <1>20, Zenon
     DEF StoreNext, Requests, Audited, Restore, Opening

THEOREM AlwaysMeant == StoreSpec => [](Ordered /\ Meaning)
<1>1. StoreInit => Meaning
  BY DEF StoreInit, Meaning, BornOnce, Born, Early, Untouched, Prepared, Pruned, Past, NoOp, Locked
<1>2. StoreSpec => []Ordered
  BY AlwaysOrdered
<1> QED BY <1>1, <1>2, MeaningInductive, PTL DEF StoreSpec

(* The snapshot is written and removed by these steps alone.               *)
LEMMA OnlyTheseWrite ==
    ASSUME [StoreNext]_store_vars, task' # task
    PROVE  \E a \in Actors : WriteSnapshot(a) \/ PruneSnapshot(a)
  BY DEF StoreNext, store_vars, files, Requests, Create, Transition, Load, Forget,
         AppendStandaloneAudit, ReconcileForSource, Open, Audited, Acquire, Prepare,
         BeginTaskLiveness, Commit, Abort, Restore, RestoreSkips, RestoreReview,
         RestoreMarksStale, RestoreInterrupts, PruneJournal, Opening, ReconcileOnOpen,
         RemoveOrphanJournals, Sweep, SweepSkips, SweepResolves, Crash

(* The store only ever does to a task what its lifecycle allows: it is     *)
(* created once, each change is one reducer applied to the snapshot that   *)
(* is there, and a task is removed only when it is over.                   *)
THEOREM StoreImplementsLifecycle == StoreSpec => Lifecycle
<1>1. StoreInit => task = {}
  BY DEF StoreInit
<1>2. Ordered /\ Meaning /\ [StoreNext]_store_vars => [CreateTask \/ Advance \/ PruneTask]_task
  <2> SUFFICES ASSUME Ordered, Meaning, [StoreNext]_store_vars, task' # task
               PROVE  CreateTask \/ Advance \/ PruneTask
    OBVIOUS
  <2>1. ASSUME NEW a \in Actors, WriteSnapshot(a) PROVE CreateTask \/ Advance
    <3>1. task = op[a].old /\ task' = op[a].new /\ pc[a] \in Locked
      BY <2>1 DEF WriteSnapshot, CanWrite, Locked
    <3>2. PICK n \in op[a].new : task' = {n} /\ Follows(task, n)
      BY <3>1, Carried DEF Ordered, Control, OpFits
    <3> QED BY <3>2 DEF Follows, CreateTask, Advance
  <2>2. ASSUME NEW a \in Actors, PruneSnapshot(a) PROVE PruneTask
    <3>1. PICK s \in op[a].old : s.status \in Terminal
      BY <2>2 DEF PruneSnapshot
    <3>2. task \subseteq {s} /\ task # {} /\ task' = {}
      BY <2>2, <3>1 DEF PruneSnapshot, Meaning, Past
    <3> QED BY <3>1, <3>2 DEF PruneTask
  <2>3. (\E a \in Actors : WriteSnapshot(a)) \/ (\E a \in Actors : PruneSnapshot(a))
    BY OnlyTheseWrite
  <2> QED BY <2>1, <2>2, <2>3
<1> QED BY <1>1, <1>2, AlwaysMeant, PTL DEF StoreSpec, Lifecycle

(* No snapshot becomes visible before its transaction is in the journal,   *)
(* whoever crashes, fails or prunes meanwhile (the write-ahead rule of     *)
(* create_audited and transition_audited).                                 *)
THEOREM SnapshotsAreWrittenAhead == StoreSpec => WriteAhead
<1>1. Ordered /\ Meaning /\ [StoreNext]_store_vars =>
        [\A n \in task' : task' # task =>
            \E t \in pending : t.replacement_receipt = Receipt(n)]_store_vars
  <2> SUFFICES ASSUME Ordered, Meaning, [StoreNext]_store_vars, NEW n \in task', task' # task
               PROVE  \E t \in pending : t.replacement_receipt = Receipt(n)
    OBVIOUS
  <2>1. PICK a \in Actors : WriteSnapshot(a)
    BY OnlyTheseWrite DEF PruneSnapshot
  <2>2. task = op[a].old /\ task' = op[a].new /\ CanWrite(a)
    BY <2>1 DEF WriteSnapshot
  <2>3. pending = {Transaction(op[a].old, n)}
    BY <2>2 DEF CanWrite, Meaning, Prepared
  <2> QED BY <2>3 DEF Transaction
<1> QED BY <1>1, AlwaysMeant, PTL DEF StoreSpec, WriteAhead

(* The audit trail of a task is not lost while the task is there: neither  *)
(* a restore that prunes on a stale reading nor an opening process that    *)
(* removes orphans empties the journal of a task that exists.              *)
THEOREM EvidenceOutlivesTheTask == StoreSpec => EvidenceIsKept
<1>1. Ordered /\ Meaning /\ [StoreNext]_store_vars =>
        [committed # <<>> /\ committed' = <<>> => task = {}]_store_vars
  <2> SUFFICES ASSUME Ordered, Meaning, [StoreNext]_store_vars,
                      committed # <<>>, committed' = <<>>
               PROVE  task = {}
    OBVIOUS
  <2>0. ASSUME NEW t \in pending PROVE Append(committed, t.replacement_receipt) # <<>>
    BY DEF Ordered, Data, Optional, Transactions
  <2>1. \E a \in Actors : PruneJournal(a) \/ RemoveOrphanJournals(a)
    BY <2>0, ZenonT(60) DEF StoreNext, store_vars, files, journal, Requests, Create, Transition, Load,
           Forget, AppendStandaloneAudit, ReconcileForSource, Open, Audited, Acquire, Prepare,
           BeginTaskLiveness, WriteSnapshot, Commit, Abort, Restore, RestoreSkips,
           RestoreReview, RestoreMarksStale, RestoreInterrupts, PruneSnapshot, Opening,
           ReconcileOnOpen, Sweep, SweepSkips, SweepResolves, Crash, ReconcileTaskAudit,
           Committed, Aborted
  <2> QED BY <2>1 DEF PruneJournal, RemoveOrphanJournals, Meaning, Pruned, journal
<1> QED BY <1>1, AlwaysMeant, PTL DEF StoreSpec, EvidenceIsKept

-----------------------------------------------------------------------------
(* Who works on a task.  Whoever works on it holds its liveness lock until *)
(* the run is over; whoever decided to interrupt it saw that lock free, so *)
(* nobody works on it, nor can anybody begin to before the run is over.    *)
RunOver == \A s \in task : s.status \notin {"Created", "Running"}

Newborn(a) == pc[a] = "visible" /\ op[a].old = {}

Owned == \A a \in Actors : mem[a] # {} => ProcessOf[a] \in live_tasks \/ RunOver

Launched == \A a \in Actors : pc[a] = "live" \/ Newborn(a) => ProcessOf[a] \in live_tasks

Reviewed ==
    \A a \in Actors : pc[a] = "restoring" /\ (\E s \in op[a].old : s.status = "ReadyForReview")
        => RunOver

Shown == \A a \in Actors : pc[a] = "visible" => task \subseteq op[a].new

Miscarried ==
    \A a, b \in Actors : pc[a] = "failed" /\ op[a].old = {} =>
        mem[b] = {} /\ \A s \in op[b].old \cup task : s.status = "Created"

Interrupts(a) ==
    /\ pc[a] \in {"requested", "reconciled", "prepared"}
    /\ \E n \in op[a].new : n.status = "Interrupted"

Orphaned ==
    \A a, b \in Actors : Interrupts(a) /\ ~RunOver => mem[b] = {} /\ ~Newborn(b)

Working == Owned /\ Launched /\ Reviewed /\ Shown /\ Miscarried /\ Orphaned

(* A run that is over stays over, once the task has been created.          *)
LEMMA StillOver ==
    ASSUME Ordered, Meaning, [StoreNext]_store_vars, ~Untouched, RunOver
    PROVE  RunOver'
<1>1. CASE task' = task
  BY <1>1 DEF RunOver
<1>2. CASE task' # task
  <2>1. CASE \E a \in Actors : PruneSnapshot(a)
    BY <2>1 DEF PruneSnapshot, RunOver
  <2>2. CASE \E a \in Actors : WriteSnapshot(a)
    <3>1. PICK a \in Actors : WriteSnapshot(a)
      BY <2>2
    <3>2. task = op[a].old /\ task' = op[a].new /\ CanWrite(a) /\ pc[a] \in Locked
      BY <1>2, <3>1 DEF WriteSnapshot, CanWrite, Locked
    <3>3. task # {}
      BY <3>2 DEF Meaning, Early, Creating, CanWrite
    <3>4. PICK n \in op[a].new : Follows(task, n) /\ task' = {n}
      BY <3>2, Carried DEF Ordered, Control, OpFits
    <3>5. PICK s \in task, now \in Times : n \in Reducers(s, now)
      BY <3>3, <3>4 DEF Follows
    <3>6. s \in Snapshot /\ s.status \notin {"Created", "Running"}
      BY DEF Ordered, Data, Optional, RunOver
    <3>7. n.status \notin {"Created", "Running"}
      BY <3>5, <3>6, ReducerFacts
    <3> QED BY <3>4, <3>7 DEF RunOver
  <2> QED BY <1>2, <2>1, <2>2, OnlyTheseWrite
<1> QED BY <1>1, <1>2

(* Whoever means to interrupt has read a task.                             *)
LEMMA InterruptsSeen ==
    ASSUME Ordered, NEW a \in Actors, Interrupts(a)
    PROVE  op[a].old # {}
<1>1. PICK n \in op[a].new : n.status = "Interrupted"
  BY DEF Interrupts
<1>2. Follows(op[a].old, n)
  BY Carried DEF Ordered, Interrupts, Locked
<1> QED BY <1>1, <1>2, NewFacts DEF Follows

(* A step that leaves the task, its liveness lock and every thread's       *)
(* snapshot alone.                                                         *)
LEMMA IdleWork ==
    ASSUME Ordered, Working, NEW a \in Actors, UNCHANGED <<task, live_tasks, mem>>,
           \A b \in Actors : b # a => pc'[b] = pc[b] /\ op'[b] = op[b],
           pc'[a] \notin {"live", "visible", "failed"},
           pc'[a] = "restoring" => op'[a].old = task,
           op'[a].old \subseteq op[a].old \cup task \cup mem[a],
           Interrupts(a)' => Interrupts(a) \/ live_tasks = {}
    PROVE  Working'
<1>0. Single(task)
  BY DEF Ordered, Data, Optional
<1>1. Owned'
  BY DEF Working, Owned, RunOver
<1>2. Launched'
  BY DEF Working, Launched, Newborn
<1>3. Reviewed'
  BY <1>0 DEF Working, Reviewed, RunOver, Single
<1>4. Shown'
  BY DEF Working, Shown
<1>5. Miscarried'
  <2>1. ASSUME NEW c \in Actors, NEW b \in Actors, pc'[c] = "failed", op'[c].old = {}
        PROVE  mem'[b] = {} /\ \A s \in op'[b].old \cup task' : s.status = "Created"
    <3>1. pc[c] = "failed" /\ op[c].old = {}
      BY <2>1
    <3>2. \A d \in Actors : mem[d] = {} /\ \A s \in op[d].old \cup task : s.status = "Created"
      BY <3>1 DEF Working, Miscarried
    <3> QED BY <3>2
  <2> QED BY <2>1 DEF Miscarried
<1>6. Orphaned'
  <2>1. ASSUME NEW c \in Actors, NEW b \in Actors, Interrupts(c)', ~RunOver'
        PROVE  mem[b] = {} /\ ~Newborn(b)
    <3>1. ~RunOver
      BY <2>1 DEF RunOver
    <3>2. Interrupts(c) \/ live_tasks = {}
      BY <2>1 DEF Interrupts
    <3> QED BY <3>1, <3>2 DEF Working, Owned, Launched, Orphaned
  <2>2. \A b \in Actors : Newborn(b)' => Newborn(b)
    BY DEF Newborn
  <2> QED BY <2>1, <2>2 DEF Orphaned
<1> QED BY <1>1, <1>2, <1>3, <1>4, <1>5, <1>6 DEF Working

THEOREM WorkingInductive ==
    Ordered /\ Meaning /\ Working /\ [StoreNext]_store_vars => Working'
<1> SUFFICES ASSUME Ordered, Meaning, Working, [StoreNext]_store_vars PROVE Working'
  OBVIOUS
<1>c. Control /\ Data /\ Single(task)
  BY DEF Ordered, Data, Optional
<1>n. NoOp.old = {} /\ NoOp.new = {}
  BY DEF NoOp
<1>r. ASSUME NEW a \in Actors, Return(a), UNCHANGED <<task, live_tasks, mem>> PROVE Working'
  <2>1. ~Interrupts(a)'
    BY <1>r, ReturnsBorn DEF Interrupts
  <2> QED BY <1>n, <1>r, <2>1, ReturnsBorn, IdleWork
<1>p. ASSUME NEW a \in Actors, NEW step \in Steps, Proceed(a, step),
             UNCHANGED <<task, live_tasks, mem>>,
             step \notin {"live", "visible", "failed", "restoring"},
             step \in {"reconciled", "prepared"} => pc[a] \in {"requested", "reconciled"},
             step # "requested"
      PROVE  Working'
  <2>1. /\ \A b \in Actors : b # a => pc'[b] = pc[b] /\ op'[b] = op[b]
        /\ pc'[a] = step /\ op'[a] = op[a]
    BY <1>c, <1>p DEF Proceed, Control
  <2>2. Interrupts(a)' => Interrupts(a)
    BY <1>p, <2>1 DEF Interrupts
  <2> QED BY <1>p, <2>1, <2>2, IdleWork
<1>q. ASSUME NEW a \in Actors, NEW old, NEW n, Request(a, old, n),
             UNCHANGED <<task, live_tasks, mem>>, old \subseteq op[a].old \cup task \cup mem[a],
             n.status = "Interrupted" => live_tasks = {}
      PROVE  Working'
  <2>1. /\ \A b \in Actors : b # a => pc'[b] = pc[b] /\ op'[b] = op[b]
        /\ pc'[a] = "requested" /\ op'[a] = [old |-> old, new |-> {n}]
    BY <1>c, <1>q DEF Request, Control
  <2>2. Interrupts(a)' => live_tasks = {}
    BY <1>q, <2>1 DEF Interrupts
  <2> QED BY <1>q, <2>1, <2>2, IdleWork
<1>1. ASSUME NEW a \in Actors, Create(a) PROVE Working'
  <2>1. PICK schema \in Schemas, now \in Times : Request(a, {}, New(schema, now))
    BY <1>1 DEF Create
  <2> QED BY <1>1, <1>q, <2>1, NewFacts DEF Create, files
<1>2. ASSUME NEW a \in Actors, Transition(a) PROVE Working'
  <2>1. PICK s \in mem[a], now \in Times : \E n \in WorkReducers(s, now) : Request(a, mem[a], n)
    BY <1>2 DEF Transition
  <2>2. PICK n \in WorkReducers(s, now) : Request(a, mem[a], n)
    BY <2>1
  <2>3. n.status # "Interrupted"
    BY <1>c, <2>2, ReducerFacts DEF Reducers, Data
  <2> QED BY <1>2, <1>q, <2>2, <2>3 DEF Transition, files
<1>3. ASSUME NEW a \in Actors, Load(a) \/ Forget(a) PROVE Working'
  <2>1. UNCHANGED <<task, live_tasks, pc, op>> /\ \A b \in Actors : mem[b] = {} => mem'[b] = {}
    BY <1>c, <1>3 DEF Load, Forget, files, Data
  <2> QED BY <2>1 DEF Working, Owned, Launched, Newborn, Reviewed, Shown, Miscarried, Orphaned,
                     Interrupts, RunOver
<1>4. ASSUME NEW a \in Actors, Acquire(a) PROVE Working'
  BY <1>4, <1>r, <1>p DEF Acquire, Steps
<1>5. ASSUME NEW a \in Actors, Prepare(a) PROVE Working'
  BY <1>5, <1>r, <1>p DEF Prepare, Steps
<1>6. ASSUME NEW a \in Actors, BeginTaskLiveness(a) PROVE Working'
  <2>1. CASE Return(a) /\ UNCHANGED live_tasks
    BY <1>6, <1>r, <2>1 DEF BeginTaskLiveness
  <2>2. CASE Proceed(a, "live") /\ live_tasks' = live_tasks \cup {ProcessOf[a]}
    <3>1. /\ UNCHANGED <<task, mem, op>> /\ pc'[a] = "live" /\ pc[a] = "prepared"
          /\ \A b \in Actors : b # a => pc'[b] = pc[b]
      BY <1>c, <1>6, <2>2 DEF BeginTaskLiveness, Proceed, Control
    <3> QED BY <2>2, <3>1 DEF Working, Owned, Launched, Newborn, Reviewed, Shown, Miscarried,
                              Orphaned, Interrupts, RunOver
  <2> QED BY <1>6, <2>1, <2>2 DEF BeginTaskLiveness
<1>7. ASSUME NEW a \in Actors, WriteSnapshot(a) PROVE Working'
  <2>1. /\ UNCHANGED <<live_tasks, mem, op>> /\ CanWrite(a) /\ pc'[a] \in {"visible", "failed"}
        /\ \A b \in Actors : b # a => pc'[b] = pc[b]
        /\ task' = task \/ (task = op[a].old /\ task' = op[a].new)
        /\ pc'[a] = "visible" => task' = op[a].new
    BY <1>c, <1>7 DEF WriteSnapshot, Proceed, Control
  <2>2. pc[a] \in Locked /\ \A b \in Actors : pc[b] \in Locked => b = a
    BY <1>c, <2>1, Holder DEF CanWrite, Locked
  <2>3. op[a].old = {} => Untouched
    BY <2>1 DEF Meaning, Early, Creating, CanWrite
  <2>4. RunOver => RunOver' \/ Untouched
    BY StillOver
  <2>5. Owned'
    BY <2>1, <2>4 DEF Working, Owned, Untouched
  <2>6. Launched'
    BY <2>1 DEF Working, Launched, Newborn, CanWrite
  <2>7. Reviewed'
    BY <2>1, <2>4 DEF Working, Reviewed, Untouched
  <2>8. Shown'
    BY <2>1, <2>2 DEF Shown, Locked
  <2>9. Miscarried'
    <3>1. ASSUME NEW d \in Actors, NEW b \in Actors, pc'[d] = "failed", op[d].old = {}
          PROVE  mem[b] = {} /\ \A s \in op[b].old \cup task' : s.status = "Created"
      <4>1. d = a /\ Untouched
        BY <2>1, <2>2, <2>3, <3>1 DEF Locked
      <4>2. task' \subseteq op[a].new
        BY <2>1, <4>1 DEF Untouched
      <4>3. \A n \in op[a].new : n.status = "Created"
        BY <1>c, <2>2, <4>1, Carried, NewFacts DEF Untouched, Follows
      <4> QED BY <4>1, <4>2, <4>3 DEF Untouched
    <3> QED BY <2>1, <3>1 DEF Miscarried
  <2>10. Orphaned'
    <3>1. ASSUME NEW d \in Actors, NEW b \in Actors, Interrupts(d)', ~RunOver'
          PROVE  mem'[b] = {} /\ ~Newborn(b)'
      <4>1. Interrupts(d)
        BY <2>1, <3>1 DEF Interrupts
      <4>2. ~Untouched
        BY <4>1, InterruptsSeen DEF Untouched
      <4>3. ~RunOver
        BY <2>4, <3>1, <4>2
      <4> QED BY <2>1, <2>3, <4>1, <4>2, <4>3 DEF Working, Orphaned, Newborn
    <3> QED BY <3>1 DEF Orphaned
  <2> QED BY <2>5, <2>6, <2>7, <2>8, <2>9, <2>10 DEF Working
<1>8. ASSUME NEW a \in Actors, Commit(a) PROVE Working'
  <2>1. /\ UNCHANGED <<task>> /\ Return(a) /\ pc[a] = "visible"
        /\ \A b \in Actors : b # a => mem'[b] = mem[b] /\ pc'[b] = pc[b] /\ op'[b] = op[b]
        /\ pc'[a] = "idle" /\ op'[a] = NoOp
    BY <1>c, <1>8, ReturnsBorn DEF Commit, Data
  <2>2. PICK n \in op[a].new :
          /\ live_tasks' = IF SnapshotIsActive(n) THEN live_tasks ELSE {}
          /\ \/ mem'[a] = mem[a]
             \/ mem[a] = op[a].old /\ mem'[a] = IF SnapshotIsActive(n) THEN {n} ELSE {}
    BY <1>c, <1>8 DEF Commit, Data
  <2>3. op[a].new = {n} /\ pc[a] \in Locked /\ \A b \in Actors : pc[b] \in Locked => b = a
    BY <1>c, <2>1, Holder, Carried DEF Locked
  <2>4. ~SnapshotIsActive(n) => RunOver
    BY <2>1, <2>3 DEF Working, Shown, RunOver, SnapshotIsActive, Terminal, Failures
  <2>5. RunOver' = RunOver
    BY <2>1 DEF RunOver
  <2>6. Owned'
    <3>1. ProcessOf[a] \in live_tasks \/ RunOver \/ mem'[a] = {}
      BY <2>1, <2>2 DEF Working, Owned, Launched, Newborn
    <3>2. \A b \in Actors : b # a => mem'[b] = {} \/ ProcessOf[b] \in live_tasks \/ RunOver
      BY <2>1 DEF Working, Owned
    <3>3. RunOver \/ live_tasks' = live_tasks
      BY <2>2, <2>4
    <3> QED BY <2>5, <3>1, <3>2, <3>3 DEF Owned
  <2>7. Launched'
    BY <1>n, <2>1, <2>3 DEF Launched, Newborn, Locked
  <2>8. Reviewed' /\ Shown' /\ Miscarried'
    BY <2>1, <2>3, <2>5 DEF Working, Reviewed, Shown, Miscarried, Locked
  <2>9. Orphaned'
    <3>1. ASSUME NEW d \in Actors, NEW b \in Actors, Interrupts(d)', ~RunOver'
          PROVE  mem'[b] = {} /\ ~Newborn(b)'
      <4>1. Interrupts(d) /\ ~RunOver
        BY <2>1, <2>5, <3>1 DEF Interrupts
      <4>2. \A e \in Actors : mem[e] = {} /\ ~Newborn(e)
        BY <4>1 DEF Working, Orphaned
      <4>3. op[a].old # {}
        BY <2>1, <4>2 DEF Newborn
      <4>4. mem'[b] = {}
        BY <2>1, <2>2, <4>2, <4>3
      <4> QED BY <2>1, <4>2, <4>4 DEF Newborn
    <3> QED BY <3>1 DEF Orphaned
  <2> QED BY <2>6, <2>7, <2>8, <2>9 DEF Working
<1>9. ASSUME NEW a \in Actors, Abort(a) PROVE Working'
  <2>1. /\ UNCHANGED <<task, mem>> /\ Return(a) /\ pc[a] = "failed"
        /\ live_tasks' = IF op[a].old = {} THEN {} ELSE live_tasks
    BY <1>9 DEF Abort
  <2>2. CASE op[a].old # {}
    BY <1>r, <2>1, <2>2
  <2>3. CASE op[a].old = {}
    <3>1. /\ \A b \in Actors : b # a => pc'[b] = pc[b] /\ op'[b] = op[b]
          /\ pc'[a] = "idle" /\ op'[a] = NoOp
      BY <2>1, ReturnsBorn
    <3>2. \A b \in Actors : mem[b] = {}
      BY <2>1, <2>3 DEF Working, Miscarried
    <3>3. \A b \in Actors : pc[b] \in Locked => b = a
      BY <1>c, <2>1, Holder DEF Locked
    <3>4. Owned'
      BY <2>1, <3>2 DEF Owned
    <3>5. Launched' /\ Shown' /\ Miscarried'
      BY <3>1, <3>3 DEF Launched, Newborn, Shown, Miscarried, Locked
    <3>6. Reviewed'
      BY <2>1, <3>1 DEF Working, Reviewed, RunOver
    <3>7. Orphaned'
      BY <2>1, <3>1, <3>2, <3>3 DEF Orphaned, Newborn, Locked
    <3> QED BY <3>4, <3>5, <3>6, <3>7 DEF Working
  <2> QED BY <2>2, <2>3
<1>10. ASSUME NEW a \in Actors, AppendStandaloneAudit(a) PROVE Working'
  <2>1. UNCHANGED <<task, live_tasks, mem, pc, op>>
    BY <1>10 DEF AppendStandaloneAudit
  <2> QED BY <2>1 DEF Working, Owned, Launched, Newborn, Reviewed, Shown, Miscarried, Orphaned,
                     Interrupts, RunOver
<1>11. ASSUME NEW a \in Actors, ReconcileForSource(a) PROVE Working'
  <2>1. /\ UNCHANGED <<task, live_tasks, mem>>
        /\ pc'[a] = "restoring" /\ op'[a].old = task
        /\ \A b \in Actors : b # a => pc'[b] = pc[b] /\ op'[b] = op[b]
    BY <1>c, <1>11 DEF ReconcileForSource, files, Control
  <2>2. ~Interrupts(a)'
    BY <2>1 DEF Interrupts
  <2> QED BY <2>1, <2>2, IdleWork
<1>12. ASSUME NEW a \in Actors, RestoreSkips(a) \/ PruneJournal(a) \/ SweepSkips(a)
       PROVE  Working'
  BY <1>12, <1>r DEF RestoreSkips, PruneJournal, SweepSkips, files
<1>13. ASSUME NEW a \in Actors, RestoreReview(a) PROVE Working'
  <2>1. /\ UNCHANGED <<task, live_tasks>> /\ pc[a] = "restoring"
        /\ \A b \in Actors : b # a => mem'[b] = mem[b] /\ pc'[b] = pc[b] /\ op'[b] = op[b]
        /\ pc'[a] = "idle" /\ op'[a] = NoOp
    BY <1>c, <1>13, ReturnsBorn DEF RestoreReview, files, Data
  <2>2. PICK s \in op[a].old : s.status = "ReadyForReview"
    BY <1>13 DEF RestoreReview
  <2>3. RunOver /\ RunOver'
    BY <2>1, <2>2 DEF Working, Reviewed, RunOver
  <2>4. Owned' /\ Reviewed' /\ Orphaned'
    BY <2>3 DEF Owned, Reviewed, Orphaned
  <2>5. Launched' /\ Shown'
    BY <2>1 DEF Working, Launched, Newborn, Shown
  <2>6. Miscarried'
    BY <2>1, <2>2 DEF Working, Miscarried
  <2> QED BY <2>4, <2>5, <2>6 DEF Working
<1>14. ASSUME NEW a \in Actors, RestoreMarksStale(a) \/ RestoreInterrupts(a) \/ SweepResolves(a)
       PROVE  Working'
  <2>1. PICK s \in op[a].old, now \in Times :
           \E n \in MarkStale(s, now) \cup ReconcileInterrupted(s, now) :
              /\ Request(a, {s}, n)
              /\ n \in MarkStale(s, now) \/ live_tasks = {}
    BY <1>14 DEF RestoreMarksStale, RestoreInterrupts, SweepResolves, Swept, TaskIsLive
  <2>2. PICK n \in MarkStale(s, now) \cup ReconcileInterrupted(s, now) :
              /\ Request(a, {s}, n)
              /\ n \in MarkStale(s, now) \/ live_tasks = {}
    BY <2>1
  <2>3. n.status = "Interrupted" => live_tasks = {}
    <3>1. s \in Snapshot
      BY <1>c DEF Control
    <3>2. n \in MarkStale(s, now) => n.status # "Interrupted"
      BY <3>1, ReducerFacts DEF Reducers, WorkReducers
    <3> QED BY <2>2, <3>2
  <2>4. UNCHANGED <<task, live_tasks, mem>>
    BY <1>14 DEF RestoreMarksStale, RestoreInterrupts, SweepResolves, files
  <2> QED BY <1>q, <2>2, <2>3, <2>4
<1>15. ASSUME NEW a \in Actors, PruneSnapshot(a) PROVE Working'
  <2>1. /\ UNCHANGED <<live_tasks, mem, op>> /\ task' = {} /\ pc'[a] = "pruning"
        /\ \A b \in Actors : b # a => pc'[b] = pc[b]
    BY <1>c, <1>15 DEF PruneSnapshot, Proceed, Control
  <2>2. RunOver'
    BY <2>1 DEF RunOver
  <2>3. Owned' /\ Reviewed' /\ Orphaned'
    BY <2>2 DEF Owned, Reviewed, Orphaned
  <2>4. Launched' /\ Shown' /\ Miscarried'
    BY <2>1 DEF Working, Launched, Newborn, Shown, Miscarried
  <2> QED BY <2>3, <2>4 DEF Working
<1>16. ASSUME NEW a \in Actors, Open(a) PROVE Working'
  <2>1. /\ UNCHANGED <<task, live_tasks, mem, op>> /\ pc'[a] = "opening"
        /\ \A b \in Actors : b # a => pc'[b] = pc[b]
    BY <1>c, <1>16 DEF Open, files, Control
  <2>2. ~Interrupts(a)'
    BY <2>1 DEF Interrupts
  <2> QED BY <2>1, <2>2, IdleWork
<1>17. ASSUME NEW a \in Actors, ReconcileOnOpen(a) \/ RemoveOrphanJournals(a) PROVE Working'
  BY <1>17, <1>p DEF ReconcileOnOpen, RemoveOrphanJournals, Steps
<1>18. ASSUME NEW a \in Actors, Sweep(a) PROVE Working'
  <2>1. CASE Return(a)
    BY <1>18, <1>r, <2>1 DEF Sweep, files
  <2>2. CASE ~Return(a)
    <3>1. /\ UNCHANGED <<task, live_tasks, mem>>
          /\ pc'[a] = "probing" /\ op'[a].old = task
          /\ \A b \in Actors : b # a => pc'[b] = pc[b] /\ op'[b] = op[b]
      BY <1>c, <1>18, <2>2 DEF Sweep, files, Control
    <3>2. ~Interrupts(a)'
      BY <3>1 DEF Interrupts
    <3> QED BY <3>1, <3>2, IdleWork
  <2> QED BY <2>1, <2>2
<1>19. ASSUME NEW p \in Processes, Crash(p) PROVE Working'
  <2>1. /\ UNCHANGED task /\ live_tasks' = live_tasks \ {p}
        /\ \A b \in Actors :
             \/ pc'[b] = "idle" /\ op'[b] = NoOp /\ mem'[b] = {}
             \/ /\ pc'[b] = pc[b] /\ op'[b] = op[b] /\ mem'[b] = mem[b]
                /\ ProcessOf[b] # p
    BY <1>19 DEF Crash
  <2>2. RunOver' = RunOver
    BY <2>1 DEF RunOver
  <2>3. Owned' /\ Launched' /\ Reviewed' /\ Shown'
    BY <2>1, <2>2 DEF Working, Owned, Launched, Newborn, Reviewed, Shown
  <2>4. Miscarried'
    BY <1>n, <2>1 DEF Working, Miscarried
  <2>5. Orphaned'
    BY <2>1, <2>2 DEF Working, Orphaned, Interrupts, Newborn
  <2> QED BY <2>3, <2>4, <2>5 DEF Working
<1>20. CASE UNCHANGED store_vars
  BY <1>20 DEF store_vars, Working, Owned, Launched, Newborn, Reviewed, Shown, Miscarried,
               Orphaned, Interrupts, RunOver
<1> QED
  BY <1>1, <1>2, <1>3, <1>4, <1>5, <1>6, <1>7, <1>8, <1>9, <1>10, <1>11, <1>12, <1>13,
     <1>14, <1>15, <1>16, <1>17, <1>18, <1>19, <1>20, Zenon
     DEF StoreNext, Requests, Audited, Restore, Opening

(* A run is never declared interrupted while a thread of any process still *)
(* runs it, whatever other processes open, restore or reconcile: the       *)
(* decision is taken on a reading that may be old when it is written.      *)
THEOREM RunsAreLeftAlone == StoreSpec => RunIsNotInterrupted
<1>1. StoreInit => Working
  BY DEF StoreInit, Working, Owned, Launched, Newborn, Reviewed, Shown, Miscarried, Orphaned,
         Interrupts, NoOp
<1>2. Ordered /\ Meaning /\ Working /\ [StoreNext]_store_vars =>
        [\A s \in task, n \in task' :
            n.status = "Interrupted" /\ s.status \in {"Created", "Running"} =>
               \A a \in Actors : ~Runs(a)]_store_vars
  <2> SUFFICES ASSUME Ordered, Meaning, Working, [StoreNext]_store_vars,
                      NEW s \in task, NEW n \in task',
                      n.status = "Interrupted", s.status \in {"Created", "Running"},
                      NEW a \in Actors
               PROVE  mem[a] = {}
    BY DEF Runs
  <2>0. task = {s} /\ task' # task /\ ~RunOver
    BY DEF Ordered, Data, Optional, Single, RunOver
  <2>1. PICK c \in Actors : WriteSnapshot(c)
    BY <2>0, OnlyTheseWrite DEF PruneSnapshot
  <2>2. task = op[c].old /\ task' = op[c].new /\ CanWrite(c)
    BY <2>0, <2>1 DEF WriteSnapshot
  <2>3. pc[c] = "prepared"
    BY <2>0, <2>2 DEF CanWrite, Ordered, Control, OpFits
  <2>4. Interrupts(c)
    BY <2>2, <2>3 DEF Interrupts
  <2> QED BY <2>0, <2>4 DEF Working, Orphaned
<1> QED BY <1>1, <1>2, AlwaysMeant, WorkingInductive, PTL DEF StoreSpec, RunIsNotInterrupted

-----------------------------------------------------------------------------
(* What the journal tells, if the directory always opens after a rename:   *)
(* with nothing prepared, the whole story; with a transaction prepared,    *)
(* the whole story, or all of it but the event this transaction will be.   *)
Revisions(c) == {c[i].snapshot_revision : i \in 1..Len(c)}

Story(c, s) ==
    c # <<>> /\ c[Len(c)] = Receipt(s) /\ Revisions(c) = 0..s.snapshot_revision

Landing(c, t, s) ==
    Receipt(s) = t.replacement_receipt /\ Revisions(c) = 0..(s.snapshot_revision - 1)

Settled(s) == pending = {} => Story(committed, s)

Prospect(s) == \A t \in pending : Story(committed, s) \/ Landing(committed, t, s)

Writing(s) ==
    \A a \in Actors : pc[a] \in Locked \ {"visible"} => Story(committed, s)

Written(s) ==
    \A a \in Actors : pc[a] = "visible" => \E t \in pending : Landing(committed, t, s)

Told == \A s \in task : Settled(s) /\ Prospect(s) /\ Writing(s) /\ Written(s)

(* Appending the event that is missing completes the story; appending the  *)
(* last one again does not spoil it.                                       *)
LEMMA AppendTells ==
    ASSUME NEW c \in Seq(Receipts), NEW s \in Snapshot, NEW t, Receipt(s) = t.replacement_receipt,
           Story(c, s) \/ Landing(c, t, s)
    PROVE  Story(Append(c, t.replacement_receipt), s)
<1> DEFINE r == Receipt(s)
           d == Append(c, r)
           k == s.snapshot_revision
<1>1. r \in Receipts /\ r.snapshot_revision = k /\ k \in Nat
  BY ReceiptType DEF Receipt, Snapshot
<1>2. /\ d \in Seq(Receipts) /\ Len(d) = Len(c) + 1 /\ d[Len(d)] = r /\ d # <<>>
      /\ \A i \in 1..Len(c) : d[i] = c[i]
      /\ Len(c) \in Nat
  BY <1>1
<1>3. Revisions(d) = Revisions(c) \cup {k}
  <2> HIDE DEF d, r, k
  <2>1. 1..Len(d) = (1..Len(c)) \cup {Len(d)}
    BY <1>2
  <2>2. \A i \in 1..Len(d) : d[i].snapshot_revision \in Revisions(c) \cup {k}
    BY <1>1, <1>2, <2>1 DEF Revisions
  <2>3. \A i \in 1..Len(c) : c[i].snapshot_revision \in Revisions(d)
    BY <1>2, <2>1 DEF Revisions
  <2>4. k \in Revisions(d)
    BY <1>1, <1>2, <2>1 DEF Revisions
  <2>5. Revisions(d) \subseteq Revisions(c) \cup {k}
    BY <2>2 DEF Revisions
  <2>6. Revisions(c) \subseteq Revisions(d)
    BY <2>3 DEF Revisions
  <2> QED BY <2>4, <2>5, <2>6
<1>4. Revisions(c) = 0..k \/ Revisions(c) = 0..(k - 1)
  BY DEF Story, Landing
<1>5. Revisions(d) = 0..k
  BY <1>1, <1>3, <1>4
<1> QED BY <1>2, <1>5 DEF Story

(* Reconciling the journal completes the story or leaves it as it was.     *)
LEMMA ReconcileTells ==
    ASSUME Ordered, Told, NEW r \in Appends, ReconcileTaskAudit(r), task' = task,
           NEW s \in task
    PROVE  Settled(s)' /\ Prospect(s)' /\ (r = "ok" => pending' = {})
<1>1. /\ s \in Snapshot /\ committed \in Seq(Receipts) /\ task = {s} /\ Single(pending)
      /\ Settled(s) /\ Prospect(s)
  BY DEF Ordered, Data, Optional, Single, Told
<1>2. CASE pending = {} /\ UNCHANGED journal
  BY <1>1, <1>2 DEF Settled, Prospect, journal
<1>3. CASE \E t \in pending : Landed(t) /\ Committed(t, r)
  <2>1. PICK t \in pending : Landed(t) /\ Committed(t, r)
    BY <1>3
  <2>2. Receipt(s) = t.replacement_receipt
    BY <1>1, <2>1 DEF Landed
  <2>3. Story(Append(committed, t.replacement_receipt), s)
    BY <1>1, <2>2, AppendTells DEF Prospect
  <2> QED BY <1>1, <2>1, <2>3 DEF Committed, Settled, Prospect, journal
<1>4. CASE \E t \in pending : ~Landed(t) /\ Aborted(r)
  <2>1. PICK t \in pending : ~Landed(t) /\ Aborted(r)
    BY <1>4
  <2>2. Story(committed, s)
    BY <1>1, <2>1 DEF Prospect, Landed, Landing
  <2> QED BY <2>1, <2>2 DEF Aborted, Settled, Prospect
<1> QED BY <1>2, <1>3, <1>4 DEF ReconcileTaskAudit

(* A step that leaves the snapshot and the journal alone, by an actor that *)
(* does not reach for the lock.                                            *)
LEMMA SilentTells ==
    ASSUME Told, NEW a \in Actors, UNCHANGED <<task, journal>>,
           \A b \in Actors : b # a => pc'[b] = pc[b],
           \/ pc'[a] \notin Locked
           \/ pc'[a] # "visible" /\ pc[a] \in Locked \ {"visible"}
    PROVE  Told'
<1> SUFFICES ASSUME NEW s \in task PROVE (Settled(s) /\ Prospect(s) /\ Writing(s) /\ Written(s))'
  BY DEF Told
<1>1. Settled(s) /\ Prospect(s) /\ Writing(s) /\ Written(s)
  BY DEF Told
<1>2. Settled(s)' /\ Prospect(s)'
  BY <1>1 DEF Settled, Prospect, journal
<1>3. Writing(s)' /\ Written(s)'
  BY <1>1 DEF Writing, Written, Locked, journal
<1> QED BY <1>2, <1>3

(* A reconciliation under the lock: only its actor may then hold it, and   *)
(* only if nothing is left prepared.                                       *)
LEMMA UnlockedTells ==
    ASSUME Ordered, Told, NEW a \in Actors, NEW r \in Appends, ReconcileTaskAudit(r),
           task' = task, lock = {}, \A b \in Actors : b # a => pc'[b] = pc[b],
           pc'[a] \in Locked => r = "ok" /\ pc'[a] # "visible"
    PROVE  Told'
<1> SUFFICES ASSUME NEW s \in task PROVE (Settled(s) /\ Prospect(s) /\ Writing(s) /\ Written(s))'
  BY DEF Told
<1>1. Settled(s)' /\ Prospect(s)' /\ (r = "ok" => pending' = {})
  BY ReconcileTells
<1>2. \A b \in Actors : b # a => pc'[b] \notin Locked
  BY DEF Ordered, Control, LockHolder
<1>3. Writing(s)' /\ Written(s)'
  BY <1>1, <1>2 DEF Settled, Writing, Written, Locked
<1> QED BY <1>1, <1>3

THEOREM ToldInductive ==
    ~DirOpenFails /\ Ordered /\ Meaning /\ Told /\ [StoreNext]_store_vars => Told'
<1> SUFFICES ASSUME ~DirOpenFails, Ordered, Meaning, Told, [StoreNext]_store_vars PROVE Told'
  OBVIOUS
<1>c. Control /\ Data
  BY DEF Ordered
<1>t. \A s \in task : s \in Snapshot /\ task = {s}
  BY <1>c DEF Data, Optional, Single
<1>1. ASSUME NEW a \in Actors, Create(a) \/ Transition(a) \/ RestoreMarksStale(a)
                               \/ RestoreInterrupts(a) \/ SweepResolves(a)
      PROVE  Told'
  <2>1. UNCHANGED <<task, journal>> /\ \E old, n : Request(a, old, n)
    BY <1>1, Zenon
       DEF Create, Transition, RestoreMarksStale, RestoreInterrupts, SweepResolves, files
  <2>2. pc'[a] = "requested" /\ \A b \in Actors : b # a => pc'[b] = pc[b]
    BY <1>c, <2>1 DEF Request, Control
  <2> QED BY <2>1, <2>2, SilentTells DEF Locked
<1>2. ASSUME NEW a \in Actors, Load(a) \/ Forget(a) PROVE Told'
  <2>1. UNCHANGED <<task, journal, pc>> /\ pc[a] = "idle"
    BY <1>2 DEF Load, Forget, files, Idle
  <2> QED BY <2>1, SilentTells DEF Locked
<1>3. ASSUME NEW a \in Actors, Acquire(a) PROVE Told'
  <2>1. task' = task /\ lock = {} /\ pc[a] = "requested"
    BY <1>3 DEF Acquire
  <2>2. CASE \E r \in Appends : /\ ReconcileTaskAudit(r)
                                /\ IF r = "ok" THEN Proceed(a, "reconciled") ELSE Return(a)
    <3>1. PICK r \in Appends : /\ ReconcileTaskAudit(r)
                               /\ IF r = "ok" THEN Proceed(a, "reconciled") ELSE Return(a)
      BY <2>2
    <3>2. /\ \A b \in Actors : b # a => pc'[b] = pc[b]
          /\ pc'[a] = IF r = "ok" THEN "reconciled" ELSE "idle"
      BY <1>c, <3>1 DEF Return, Proceed, Control
    <3> QED BY <2>1, <3>1, <3>2, UnlockedTells DEF Locked
  <2>3. CASE Return(a) /\ UNCHANGED journal
    BY <2>1, <2>3, ReturnsBorn, SilentTells DEF Locked
  <2> QED BY <1>3, <2>2, <2>3 DEF Acquire
<1>4. ASSUME NEW a \in Actors, Prepare(a) PROVE Told'
  <2>1. /\ UNCHANGED <<task, committed>> /\ pc[a] = "reconciled"
        /\ Proceed(a, "prepared") \/ Return(a)
    BY <1>4 DEF Prepare
  <2>2. /\ \A b \in Actors : b # a => pc'[b] = pc[b]
        /\ pc'[a] \in {"prepared", "idle"}
    BY <1>c, <2>1 DEF Proceed, Return, Control
  <2>3. \A b \in Actors : pc[b] \in Locked => b = a
    BY <1>c, <2>1, Holder DEF Locked
  <2>4. ASSUME NEW s \in task PROVE (Settled(s) /\ Prospect(s) /\ Writing(s) /\ Written(s))'
    <3>1. Story(committed, s)
      BY <2>1 DEF Told, Writing, Locked
    <3> QED BY <2>1, <2>2, <2>3, <3>1 DEF Settled, Prospect, Writing, Written, Locked
  <2> QED BY <2>1, <2>4 DEF Told
<1>5. ASSUME NEW a \in Actors, BeginTaskLiveness(a) PROVE Told'
  <2>1. /\ UNCHANGED <<task, journal>> /\ pc[a] = "prepared"
        /\ Proceed(a, "live") \/ Return(a)
    BY <1>5 DEF BeginTaskLiveness
  <2>2. /\ \A b \in Actors : b # a => pc'[b] = pc[b]
        /\ pc'[a] \in {"live", "idle"}
    BY <1>c, <2>1 DEF Proceed, Return, Control
  <2> QED BY <2>1, <2>2, SilentTells DEF Locked
<1>6. ASSUME NEW a \in Actors, WriteSnapshot(a) PROVE Told'
  <2>1. /\ UNCHANGED journal /\ CanWrite(a)
        /\ \/ task = op[a].old /\ task' = op[a].new /\ Proceed(a, "visible")
           \/ UNCHANGED task /\ Proceed(a, "failed")
    BY <1>6 DEF WriteSnapshot
  <2>2. pc[a] \in Locked \ {"visible"} /\ \A b \in Actors : pc[b] \in Locked => b = a
    BY <1>c, <2>1, Holder DEF CanWrite, Locked
  <2>3. CASE UNCHANGED task /\ Proceed(a, "failed")
    <3>1. pc'[a] = "failed" /\ \A b \in Actors : b # a => pc'[b] = pc[b]
      BY <1>c, <2>3 DEF Proceed, Control
    <3> QED BY <2>1, <2>2, <2>3, <3>1, SilentTells
  <2>4. CASE task = op[a].old /\ task' = op[a].new /\ Proceed(a, "visible")
    <3>1. pc'[a] = "visible" /\ \A b \in Actors : b # a => pc'[b] = pc[b]
      BY <1>c, <2>4 DEF Proceed, Control
    <3>2. ASSUME NEW n \in task'
          PROVE  (Settled(n) /\ Prospect(n) /\ Writing(n) /\ Written(n))'
      <4>1. /\ pending = {Transaction(task, n)} /\ n \in Snapshot /\ Follows(task, n)
        BY <1>c, <2>1, <2>2, <2>4, <3>2, Carried DEF Meaning, Prepared, CanWrite
      <4>2. Revisions(committed) = 0..(n.snapshot_revision - 1)
        <5>1. CASE task = {}
          <6>1. committed = <<>>
            BY <2>1, <2>4, <5>1 DEF Meaning, Early, Creating, CanWrite, Untouched
          <6>2. n.snapshot_revision = 0
            BY <4>1, <5>1, NewFacts DEF Follows
          <6> QED BY <6>1, <6>2 DEF Revisions
        <5>2. CASE task # {}
          <6>1. PICK s \in task, now \in Times : n \in Reducers(s, now)
            BY <4>1, <5>2 DEF Follows
          <6>2. s \in Snapshot /\ n.snapshot_revision = s.snapshot_revision + 1
            BY <1>t, <6>1, ReducerFacts
          <6>3. Story(committed, s)
            BY <2>2 DEF Told, Writing
          <6> QED BY <6>2, <6>3 DEF Story, Snapshot
        <5> QED BY <5>1, <5>2
      <4>3. Landing(committed, Transaction(task, n), n)
        BY <4>2 DEF Landing, Transaction
      <4> QED BY <2>1, <2>2, <3>1, <4>1, <4>3
              DEF Settled, Prospect, Writing, Written, Locked, journal
    <3> QED BY <3>2 DEF Told
  <2> QED BY <2>1, <2>3, <2>4
<1>7. ASSUME NEW a \in Actors, Commit(a) PROVE Told'
  <2>1. /\ task' = task /\ Return(a) /\ pc[a] = "visible"
        /\ \E r \in Appends : \/ \E t \in pending : Committed(t, r)
                              \/ UNCHANGED journal
    BY <1>7 DEF Commit
  <2>2. /\ \A b \in Actors : b # a => pc'[b] = pc[b]
        /\ pc'[a] = "idle"
        /\ \A b \in Actors : pc[b] \in Locked => b = a
    BY <1>c, <2>1, ReturnsBorn, Holder DEF Locked
  <2>3. CASE UNCHANGED journal
    BY <2>1, <2>2, <2>3, SilentTells DEF Locked
  <2>4. CASE \E t \in pending : /\ committed' = Append(committed, t.replacement_receipt)
                                /\ pending' = {}
    <3>1. PICK t \in pending : /\ committed' = Append(committed, t.replacement_receipt)
                               /\ pending' = {}
      BY <2>4
    <3>2. ASSUME NEW s \in task PROVE (Settled(s) /\ Prospect(s) /\ Writing(s) /\ Written(s))'
      <4>1. Landing(committed, t, s)
        BY <1>c, <2>1, <3>1 DEF Told, Written, Data, Optional, Single
      <4>2. Story(committed', s)
        BY <1>c, <1>t, <3>1, <4>1, AppendTells DEF Landing, Data
      <4> QED BY <2>2, <3>1, <4>2 DEF Settled, Prospect, Writing, Written, Locked
    <3> QED BY <2>1, <3>2 DEF Told
  <2> QED BY <2>1, <2>3, <2>4 DEF Committed
<1>8. ASSUME NEW a \in Actors, Abort(a) PROVE Told'
  <2>1. /\ UNCHANGED <<task, committed>> /\ Return(a) /\ pc[a] = "failed"
    BY <1>8 DEF Abort, Aborted
  <2>2. /\ \A b \in Actors : b # a => pc'[b] = pc[b]
        /\ pc'[a] = "idle"
        /\ \A b \in Actors : pc[b] \in Locked => b = a
    BY <1>c, <2>1, ReturnsBorn, Holder DEF Locked
  <2>3. ASSUME NEW s \in task PROVE (Settled(s) /\ Prospect(s) /\ Writing(s) /\ Written(s))'
    <3>1. Story(committed, s)
      BY <2>1 DEF Told, Writing, Locked
    <3> QED BY <2>1, <2>2, <3>1 DEF Settled, Prospect, Writing, Written, Locked
  <2> QED BY <2>1, <2>3 DEF Told
<1>9. ASSUME NEW a \in Actors, AppendStandaloneAudit(a) PROVE Told'
  <2>1. UNCHANGED <<task, pc>> /\ lock = {} /\ pc[a] = "idle"
    BY <1>9 DEF AppendStandaloneAudit, Idle
  <2>2. PICK r \in Appends : ReconcileTaskAudit(r)
    BY <1>9 DEF AppendStandaloneAudit
  <2> QED BY <2>1, <2>2, UnlockedTells DEF Locked
<1>10. ASSUME NEW a \in Actors, ReconcileForSource(a) \/ Open(a) PROVE Told'
  <2>1. /\ UNCHANGED <<task, journal>> /\ pc'[a] \in {"restoring", "opening"}
        /\ \A b \in Actors : b # a => pc'[b] = pc[b]
    BY <1>c, <1>10 DEF ReconcileForSource, Open, files, Control
  <2> QED BY <2>1, SilentTells DEF Locked
<1>11. ASSUME NEW a \in Actors, RestoreSkips(a) \/ RestoreReview(a) \/ Sweep(a) \/ SweepSkips(a)
       PROVE  Told'
  <2>1. /\ UNCHANGED <<task, journal>> /\ pc'[a] \in {"idle", "probing"}
        /\ \A b \in Actors : b # a => pc'[b] = pc[b]
    BY <1>c, <1>11
       DEF RestoreSkips, RestoreReview, Sweep, SweepSkips, files, Return, Control
  <2> QED BY <2>1, SilentTells DEF Locked
<1>12. ASSUME NEW a \in Actors, PruneSnapshot(a) \/ PruneJournal(a) PROVE Told'
  BY <1>12 DEF PruneSnapshot, PruneJournal, Meaning, Pruned, Told
<1>13. ASSUME NEW a \in Actors, ReconcileOnOpen(a) PROVE Told'
  <2>1. /\ task' = task /\ lock = {} /\ pc'[a] = "reconciled journals"
        /\ \A b \in Actors : b # a => pc'[b] = pc[b]
    BY <1>c, <1>13 DEF ReconcileOnOpen, Proceed, Control
  <2>2. CASE UNCHANGED journal
    BY <2>1, <2>2, SilentTells DEF Locked
  <2>3. CASE \E r \in Appends : ReconcileTaskAudit(r)
    BY <2>1, <2>3, UnlockedTells DEF Locked
  <2> QED BY <1>13, <2>2, <2>3 DEF ReconcileOnOpen
<1>14. ASSUME NEW a \in Actors, RemoveOrphanJournals(a) PROVE Told'
  <2>1. /\ task' = task /\ (task = {} \/ UNCHANGED journal) /\ pc'[a] = "sweeping"
        /\ \A b \in Actors : b # a => pc'[b] = pc[b]
    BY <1>c, <1>14 DEF RemoveOrphanJournals, Proceed, Control
  <2> QED BY <2>1, SilentTells DEF Locked, Told
<1>15. ASSUME NEW p \in Processes, Crash(p) PROVE Told'
  <2>1. /\ UNCHANGED <<task, journal>>
        /\ \A b \in Actors : pc'[b] = "idle" \/ pc'[b] = pc[b]
    BY <1>15 DEF Crash
  <2> QED BY <2>1 DEF Told, Settled, Prospect, Writing, Written, Locked, journal
<1>16. CASE UNCHANGED store_vars
  BY <1>16 DEF store_vars, Told, Settled, Prospect, Writing, Written
<1> QED
  BY <1>1, <1>2, <1>3, <1>4, <1>5, <1>6, <1>7, <1>8, <1>9, <1>10, <1>11, <1>12, <1>13,
     <1>14, <1>15, <1>16, Zenon
     DEF StoreNext, Requests, Audited, Restore, Opening

(* Unless the directory fails to open after a rename, the journal with     *)
(* nothing prepared in it holds an event for every revision the task went  *)
(* through and ends with its present state, whatever crashes, failed       *)
(* appends and competing processes came before.                            *)
THEOREM JournalTellsAll ==
    ASSUME ~DirOpenFails PROVE StoreSpec => []JournalTellsTheStory
<1>1. StoreInit => Told
  BY DEF StoreInit, Told
<1>2. Told => JournalTellsTheStory
  BY DEF Told, Settled, JournalTellsTheStory, Story, Revisions
<1> QED BY <1>1, <1>2, AlwaysMeant, ToldInductive, PTL DEF StoreSpec
=============================================================================
