------------------------------ MODULE TaskStore ------------------------------
(***************************************************************************)
(* The store of product tasks and its audit journal                        *)
(* (rollshot-app/agent_store): snapshots replaced by compare-and-swap      *)
(* under a file lock, a write-ahead journal beside each task, liveness     *)
(* locks, and the repair done when a process opens the store.              *)
(*                                                                         *)
(* One task is followed.  Tasks share nothing but the store lock: each has *)
(* its own snapshot, journal and liveness file.  A process may die between *)
(* any two steps; what it wrote stays written.                             *)
(***************************************************************************)
EXTENDS ProductTask, Sequences

CONSTANTS
    Processes,     \* processes that share the configuration directory
    Actors,        \* threads that call the store
    ProcessOf,     \* the process of each actor
    Ephemeral,     \* the task's source has no durable target
    PruneAge,      \* the age at which terminal tasks go (30 days)
    LaunchGrace,   \* the age at which a created task may be found abandoned
    MaxFaults,     \* bound: file operations that fail, and processes that die
    DirOpenFails   \* the directory may fail to open after the rename

ASSUME StoreAssumption ==
    /\ ProcessOf \in [Actors -> Processes]
    /\ PruneAge \in Nat /\ LaunchGrace \in Nat /\ MaxFaults \in Nat
    /\ Ephemeral \in BOOLEAN /\ DirOpenFails \in BOOLEAN

VARIABLES
    pending,     \* the journal's unresolved prepared transaction, {} or {it}
    committed,   \* receipts of the journal's committed transactions
    live_tasks,  \* processes whose liveness lock on the task others can see
    process,     \* a process is down, opening the store, or up
    lock,        \* the actor that holds the store lock, {} or {it}
    pc,          \* what each actor is about to do
    op,          \* the transition it is at: the old and the new snapshot
    mem,         \* the snapshot it works with, {} or {it}
    minted,      \* the task's id has been generated
    faults       \* what has failed so far

journal == <<pending, committed>>
store_vars ==
    <<task, pending, committed, live_tasks, process, lock, pc, op, mem, minted, faults>>

Receipt(s) == [status |-> s.status, snapshot_revision |-> s.snapshot_revision,
               updated_at |-> s.updated_at]

(* derive_material_transition has checked that new follows old.            *)
Transaction(old, new) ==
    [expected_revision |-> IF old = {} THEN 0 ELSE new.snapshot_revision - 1,
     replacement_receipt |-> Receipt(new)]

NoOp == [old |-> {}, new |-> {}]

SnapshotIsActive(s) == s.status \notin Terminal

TaskIsLive(a) == live_tasks # {}

StoreInit ==
    /\ task = {} /\ pending = {} /\ committed = <<>> /\ live_tasks = {}
    /\ process = [p \in Processes |-> "down"]
    /\ lock = {} /\ minted = FALSE /\ faults = 0
    /\ pc = [a \in Actors |-> "idle"] /\ op = [a \in Actors |-> NoOp]
    /\ mem = [a \in Actors |-> {}]

-----------------------------------------------------------------------------
Fault == faults < MaxFaults /\ faults' = faults + 1

(* An append scans the journal, drops a torn last line, and writes.  It    *)
(* fails with the record in the file or without it; a torn line is dropped *)
(* by the next scan, so it counts as without.                              *)
Appends == {"ok", "lost", "visible"}

Charge(r) == IF r = "ok" THEN UNCHANGED faults ELSE Fault

LandedByRevision(t) ==                \* mutant: the receipt is not compared
    \E s \in task : s.snapshot_revision = t.replacement_receipt.snapshot_revision

(* classify_unresolved: what the snapshot says of a prepared transaction.  *)
Landed(t) == \E s \in task : Receipt(s) = t.replacement_receipt

NotLanded(t) ==
    \A s \in task : /\ s.snapshot_revision # t.replacement_receipt.snapshot_revision
                    /\ s.snapshot_revision = t.expected_revision

Unresolvable == \E t \in pending : ~Landed(t) /\ ~NotLanded(t)

Committed(t, r) ==
    IF r = "lost" THEN UNCHANGED journal
                  ELSE pending' = {} /\ committed' = Append(committed, t.replacement_receipt)

(* Aborted records are evidence of the protocol only: no reader returns    *)
(* them.                                                                   *)
Aborted(r) ==
    /\ IF r = "lost" THEN UNCHANGED pending ELSE pending' = {}
    /\ UNCHANGED committed

ReconcileTaskAudit(r) ==
    /\ Charge(r)
    /\ \/ pending = {} /\ r = "ok" /\ UNCHANGED journal
       \/ \E t \in pending : Landed(t) /\ Committed(t, r)
       \/ \E t \in pending : ~Landed(t) /\ NotLanded(t) /\ Aborted(r)

ReconcileFails == (Unresolvable /\ UNCHANGED faults) \/ Fault

-----------------------------------------------------------------------------
(* An operation ends: the actor rests, and a process whose sweep is done   *)
(* has opened the store.                                                   *)
Return(a) ==
    /\ pc' = [pc EXCEPT ![a] = "idle"]
    /\ op' = [op EXCEPT ![a] = NoOp]
    /\ process' = [process EXCEPT ![ProcessOf[a]] = "up"]

Proceed(a, step) ==
    /\ pc' = [pc EXCEPT ![a] = step]
    /\ UNCHANGED <<op, process>>

Request(a, old, new) ==
    /\ pc' = [pc EXCEPT ![a] = "requested"]
    /\ op' = [op EXCEPT ![a] = [old |-> old, new |-> {new}]]
    /\ UNCHANGED process

Idle(a) == pc[a] = "idle" /\ process[ProcessOf[a]] = "up"

files == <<task, journal, live_tasks, lock>>

(* The agent creates a task under an id that is generated for it.          *)
Create(a) ==
    /\ Idle(a) /\ mem[a] = {} /\ ~minted
    /\ \E schema \in Schemas, now \in Times : Request(a, {}, New(schema, now))
    /\ minted' = TRUE
    /\ UNCHANGED <<files, mem, faults>>

(* The agent or the reviewer moves the snapshot it works with.             *)
Transition(a) ==
    /\ Idle(a)
    /\ \E s \in mem[a], now \in Times :
          \E n \in WorkReducers(s, now) : Request(a, mem[a], n)
    /\ UNCHANGED <<files, mem, minted, faults>>

(* The agent reads its task again before it promotes or ends it.           *)
Load(a) ==
    /\ Idle(a) /\ mem[a] # {} /\ task # {}
    /\ mem' = [mem EXCEPT ![a] = task]
    /\ UNCHANGED <<files, process, pc, op, minted, faults>>

(* A workspace is closed, or a failed run gives up.                        *)
Forget(a) ==
    /\ Idle(a) /\ mem[a] # {}
    /\ mem' = [mem EXCEPT ![a] = {}]
    /\ UNCHANGED <<files, process, pc, op, minted, faults>>

-----------------------------------------------------------------------------
(* create_audited and transition_audited: lock and reconcile, prepare,     *)
(* take the liveness lock, replace the snapshot, commit or abort.          *)
Acquire(a) ==
    /\ pc[a] = "requested" /\ lock = {}
    /\ \/ \E r \in Appends :
             /\ ReconcileTaskAudit(r)
             /\ IF r = "ok" THEN lock' = {a} /\ Proceed(a, "reconciled")
                            ELSE UNCHANGED lock /\ Return(a)
       \/ ReconcileFails /\ Return(a) /\ UNCHANGED <<journal, lock>>
    /\ UNCHANGED <<task, live_tasks, mem, minted>>

PrepareBestEffort(a) ==               \* mutant: a lost record does not stop the write
    /\ pc[a] = "reconciled" /\ Proceed(a, "prepared")
    /\ \E r \in Appends, n \in op[a].new :
          /\ Charge(r)
          /\ pending' = IF r = "lost" THEN pending ELSE {Transaction(op[a].old, n)}
    /\ UNCHANGED <<task, committed, live_tasks, lock, mem, minted>>

Prepare(a) ==
    /\ pc[a] = "reconciled"
    /\ \E r \in Appends, n \in op[a].new :
          /\ Charge(r)
          /\ pending' = IF r = "lost" THEN pending ELSE {Transaction(op[a].old, n)}
          /\ IF r = "ok" THEN UNCHANGED lock /\ Proceed(a, "prepared")
                         ELSE lock' = {} /\ Return(a)
    /\ UNCHANGED <<task, committed, live_tasks, mem, minted>>

(* Only a creation takes the liveness lock; failing that it returns with   *)
(* its transaction unresolved.                                             *)
BeginTaskLiveness(a) ==
    /\ pc[a] = "prepared" /\ op[a].old = {}
    /\ \/ /\ live_tasks' = live_tasks \cup {ProcessOf[a]}
          /\ UNCHANGED <<lock, faults>> /\ Proceed(a, "live")
       \/ Fault /\ lock' = {} /\ Return(a) /\ UNCHANGED live_tasks
    /\ UNCHANGED <<task, journal, mem, minted>>

CanWrite(a) == pc[a] = "live" \/ (pc[a] = "prepared" /\ op[a].old # {})

WriteOver(a) ==                       \* mutant: whatever is there is replaced
    /\ CanWrite(a) /\ task' = op[a].new /\ Proceed(a, "visible")
    /\ UNCHANGED <<journal, live_tasks, lock, mem, minted, faults>>

(* The exact old snapshot must still be there.  Once the rename is done    *)
(* the new one is visible, even if the directory cannot be opened then and *)
(* the write is reported as failed.                                        *)
WriteSnapshot(a) ==
    /\ CanWrite(a)
    /\ \/ /\ task = op[a].old /\ task' = op[a].new
          /\ \/ UNCHANGED faults /\ Proceed(a, "visible")
             \/ DirOpenFails /\ Fault /\ Proceed(a, "failed")
       \/ task # op[a].old /\ UNCHANGED <<task, faults>> /\ Proceed(a, "failed")
       \/ Fault /\ UNCHANGED task /\ Proceed(a, "failed")
    /\ UNCHANGED <<journal, live_tasks, lock, mem, minted>>

(* The outcome is recorded.  A task that is over needs no liveness lock:   *)
(* its file is removed, whoever holds it.                                  *)
Commit(a) ==
    /\ pc[a] = "visible"
    /\ \E r \in Appends, n \in op[a].new :
          /\ \/ \E t \in pending : Committed(t, r) /\ Charge(r)
             \/ pending = {} /\ r = "lost" /\ UNCHANGED <<journal, faults>>
          /\ live_tasks' = IF SnapshotIsActive(n) THEN live_tasks ELSE {}
          /\ IF r = "ok" /\ mem[a] = op[a].old
             THEN mem' = [mem EXCEPT ![a] = IF SnapshotIsActive(n) THEN {n} ELSE {}]
             ELSE UNCHANGED mem
    /\ lock' = {} /\ Return(a)
    /\ UNCHANGED <<task, minted>>

AbortKeepsLock(a) ==                  \* mutant: the lock is not released
    /\ pc[a] = "failed" /\ Return(a)
    /\ \E r \in Appends : Aborted(r) /\ Charge(r)
    /\ UNCHANGED <<task, live_tasks, lock, mem, minted>>

Abort(a) ==
    /\ pc[a] = "failed"
    /\ \E r \in Appends : Aborted(r) /\ Charge(r)
    /\ live_tasks' = IF op[a].old = {} THEN {} ELSE live_tasks
    /\ lock' = {} /\ Return(a)
    /\ UNCHANGED <<task, mem, minted>>

(* append_standalone_audit: an event of its own, once the journal is       *)
(* reconciled.                                                             *)
AppendStandaloneAudit(a) ==
    /\ Idle(a) /\ mem[a] # {} /\ lock = {}
    /\ \E r \in Appends : ReconcileTaskAudit(r)
    /\ UNCHANGED <<task, live_tasks, lock, process, pc, op, mem, minted>>

-----------------------------------------------------------------------------
(* reconcile_for_source, when a workspace opens: it reads without the      *)
(* lock, then decides.                                                     *)
ReconcileForSource(a) ==
    /\ Idle(a) /\ mem[a] = {} /\ task # {}
    /\ pc' = [pc EXCEPT ![a] = "restoring"]
    /\ op' = [op EXCEPT ![a] = [old |-> task, new |-> {}]]
    /\ UNCHANGED <<files, process, mem, minted, faults>>

(* Another source, a live owner, or a task too new: nothing to do.         *)
RestoreSkips(a) ==
    /\ pc[a] = "restoring" /\ Return(a)
    /\ UNCHANGED <<files, mem, minted, faults>>

(* A fresh review is shown to the user.                                    *)
RestoreReview(a) ==
    /\ pc[a] = "restoring"
    /\ \E s \in op[a].old : s.status = "ReadyForReview"
    /\ mem' = [mem EXCEPT ![a] = op[a].old]
    /\ Return(a)
    /\ UNCHANGED <<files, minted, faults>>

RestoreMarksStale(a) ==
    /\ pc[a] = "restoring"
    /\ \E s \in op[a].old, now \in Times : \E n \in MarkStale(s, now) : Request(a, {s}, n)
    /\ UNCHANGED <<files, mem, minted, faults>>

RestoreInterrupts(a) ==
    /\ pc[a] = "restoring" /\ ~TaskIsLive(a)
    /\ \E s \in op[a].old, now \in Times :
          /\ s.status = "Created" => now - s.updated_at >= LaunchGrace
          /\ \E n \in ReconcileInterrupted(s, now) : Request(a, {s}, n)
    /\ UNCHANGED <<files, mem, minted, faults>>

PruneSnapshotFails(a) ==              \* mutant: a failed removal does not stop the prune
    /\ pc[a] = "restoring" /\ \E s \in op[a].old : s.status \in Terminal
    /\ Proceed(a, "pruning")
    /\ UNCHANGED <<files, mem, minted, faults>>

(* A terminal task that is old enough goes: the snapshot first, then the   *)
(* journal, without the lock.                                              *)
PruneSnapshot(a) ==
    /\ pc[a] = "restoring"
    /\ \E s \in op[a].old, now \in Times :
          s.status \in Terminal /\ s.updated_at < now - PruneAge
    /\ task' = {} /\ Proceed(a, "pruning")
    /\ UNCHANGED <<journal, live_tasks, lock, mem, minted, faults>>

PruneJournal(a) ==
    /\ pc[a] = "pruning"
    /\ \/ pending' = {} /\ committed' = <<>> /\ UNCHANGED faults
       \/ Fault /\ UNCHANGED journal
    /\ Return(a)
    /\ UNCHANGED <<task, live_tasks, lock, mem, minted>>

-----------------------------------------------------------------------------
(* TaskStore::open: the journals of the tasks that exist are reconciled,   *)
(* journals without a task are removed, and tasks no process works on are  *)
(* interrupted.  Failures are logged and skipped.                          *)
Open(a) ==
    /\ process[ProcessOf[a]] = "down"
    /\ process' = [process EXCEPT ![ProcessOf[a]] = "opening"]
    /\ pc' = [pc EXCEPT ![a] = "opening"]
    /\ UNCHANGED <<files, op, mem, minted, faults>>

ReconcileOnOpen(a) ==
    /\ pc[a] = "opening" /\ lock = {}
    /\ \/ task # {} /\ \E r \in Appends : ReconcileTaskAudit(r)
       \/ task # {} /\ ReconcileFails /\ UNCHANGED journal
       \/ task = {} /\ UNCHANGED <<journal, faults>>
    /\ Proceed(a, "reconciled journals")
    /\ UNCHANGED <<task, live_tasks, lock, mem, minted>>

RemoveOrphanJournals(a) ==
    /\ pc[a] = "reconciled journals" /\ lock = {}
    /\ \/ task = {} /\ pending = {} /\ committed' = <<>> /\ UNCHANGED <<pending, faults>>
       \/ (task # {} \/ pending # {}) /\ UNCHANGED <<journal, faults>>
       \/ Fault /\ UNCHANGED journal
    /\ Proceed(a, "sweeping")
    /\ UNCHANGED <<task, live_tasks, lock, mem, minted>>

Sweep(a) ==
    /\ pc[a] = "sweeping"
    /\ \/ task = {} /\ Return(a)
       \/ /\ task # {}
          /\ pc' = [pc EXCEPT ![a] = "probing"]
          /\ op' = [op EXCEPT ![a] = [old |-> task, new |-> {}]]
          /\ UNCHANGED process
    /\ UNCHANGED <<files, mem, minted, faults>>

SweptRunning(s, now) ==               \* mutant: a task being applied is left alone
    Reduce(s, {"Created", "Running"}, now, "Interrupted", s.pending_payload)

(* What the sweep would make of the snapshot it has read.                  *)
Swept(s, now) ==
    IF s.status = "ReadyForReview" /\ Ephemeral THEN MarkStale(s, now)
                                                ELSE ReconcileInterrupted(s, now)

SweepSkips(a) ==
    /\ pc[a] = "probing"
    /\ TaskIsLive(a) \/ \E s \in op[a].old, now \in Times : Swept(s, now) = {}
    /\ Return(a)
    /\ UNCHANGED <<files, mem, minted, faults>>

SweepUnasked(a) ==                    \* mutant: liveness is not looked at
    /\ pc[a] = "probing"
    /\ \E s \in op[a].old, now \in Times : \E n \in Swept(s, now) : Request(a, {s}, n)
    /\ UNCHANGED <<files, mem, minted, faults>>

SweepResolves(a) ==
    /\ pc[a] = "probing" /\ ~TaskIsLive(a)
    /\ \E s \in op[a].old, now \in Times : \E n \in Swept(s, now) : Request(a, {s}, n)
    /\ UNCHANGED <<files, mem, minted, faults>>

(* A process dies: the operating system releases its locks.                *)
Crash(p) ==
    /\ process[p] # "down" /\ Fault
    /\ process' = [process EXCEPT ![p] = "down"]
    /\ live_tasks' = live_tasks \ {p}
    /\ lock' = {a \in lock : ProcessOf[a] # p}
    /\ pc' = [a \in Actors |-> IF ProcessOf[a] = p THEN "idle" ELSE pc[a]]
    /\ op' = [a \in Actors |-> IF ProcessOf[a] = p THEN NoOp ELSE op[a]]
    /\ mem' = [a \in Actors |-> IF ProcessOf[a] = p THEN {} ELSE mem[a]]
    /\ UNCHANGED <<task, journal, minted>>

-----------------------------------------------------------------------------
Audited(a) ==
    \/ Acquire(a) \/ Prepare(a) \/ BeginTaskLiveness(a) \/ WriteSnapshot(a)
    \/ Commit(a) \/ Abort(a)

Restore(a) ==
    \/ RestoreSkips(a) \/ RestoreReview(a) \/ RestoreMarksStale(a)
    \/ RestoreInterrupts(a) \/ PruneSnapshot(a) \/ PruneJournal(a)

Opening(a) ==
    \/ ReconcileOnOpen(a) \/ RemoveOrphanJournals(a) \/ Sweep(a)
    \/ SweepSkips(a) \/ SweepResolves(a)

Requests(a) ==
    \/ Create(a) \/ Transition(a) \/ Load(a) \/ Forget(a)
    \/ AppendStandaloneAudit(a) \/ ReconcileForSource(a) \/ Open(a)

StoreNext ==
    \/ \E a \in Actors : Requests(a) \/ Audited(a) \/ Restore(a) \/ Opening(a)
    \/ \E p \in Processes : Crash(p)

StoreSpec == StoreInit /\ [][StoreNext]_store_vars

(* A thread that has begun an operation runs on; the lock is handed on.    *)
Locking(a) == Acquire(a) \/ ReconcileOnOpen(a) \/ RemoveOrphanJournals(a)

FairStoreSpec ==
    StoreSpec /\ \A a \in Actors : /\ WF_store_vars(Restore(a) \/ Opening(a) \/ Audited(a))
                                   /\ SF_store_vars(Locking(a))
-----------------------------------------------------------------------------
(* Types.                                                                  *)
Receipts == [status : TaskStatus, snapshot_revision : Nat, updated_at : Times]

Steps == {"idle", "requested", "reconciled", "prepared", "live", "visible", "failed",
          "restoring", "pruning", "opening", "reconciled journals", "sweeping", "probing"}

StoreTypeOK ==
    /\ Optional(task, Snapshot)
    /\ Optional(pending, [expected_revision : Nat, replacement_receipt : Receipts])
    /\ committed \in Seq(Receipts)
    /\ live_tasks \subseteq Processes
    /\ process \in [Processes -> {"down", "opening", "up"}]
    /\ Optional(lock, Actors)
    /\ pc \in [Actors -> Steps]
    /\ op \in [Actors -> [old : SUBSET Snapshot, new : SUBSET Snapshot]]
    /\ mem \in [Actors -> SUBSET Snapshot]
    /\ \A a \in Actors : Single(op[a].old) /\ Single(op[a].new) /\ Single(mem[a])
    /\ minted \in BOOLEAN /\ faults \in Nat

(* Between transactions the journal tells the whole story of the task: an  *)
(* event for every revision it went through, the last one its present      *)
(* state (audit design, goal 4 and 9.3).                                   *)
JournalTellsTheStory ==
    lock = {} /\ pending = {} =>
        \A s \in task :
            /\ committed # <<>> /\ committed[Len(committed)] = Receipt(s)
            /\ {committed[i].snapshot_revision : i \in 1..Len(committed)}
                   = 0..s.snapshot_revision

(* A journal is removed only once its task is gone (audit design, 9.6).    *)
EvidenceIsKept ==
    [][committed # <<>> /\ committed' = <<>> => task = {}]_store_vars

(* A snapshot is never replaced unless its transaction is prepared.        *)
WriteAhead ==
    [][\A n \in task' : task' # task =>
         \E t \in pending : t.replacement_receipt = Receipt(n)]_store_vars

(* A run is never declared interrupted while the thread that runs it is    *)
(* alive, whatever other processes open or reconcile the store.            *)
Runs(a) == \E s \in mem[a] : s.status \in {"Created", "Running"}

RunIsNotInterrupted ==
    [][\A s \in task, n \in task' :
         n.status = "Interrupted" /\ s.status \in {"Created", "Running"} =>
            \A a \in Actors : ~Runs(a)]_store_vars

(* Nor is a review while somebody applies it: "a second live process       *)
(* therefore leaves active tasks alone".  Only the creator holds the         *)
(* liveness lock: a review restored by another process has none, and the   *)
(* next open interrupts it.                                                *)
ApplyIsNotInterrupted ==
    [][\A s \in task, n \in task' :
         n.status = "Interrupted" /\ s.status = "Applying" =>
            \A a \in Actors : mem[a] # task]_store_vars

(* A transaction nobody works on any more can be decided from the snapshot. *)
(* It cannot when a writer with a stale snapshot has prepared and died     *)
(* before the compare-and-swap refused it.                                 *)
AlwaysResolvable == lock = {} => ~Unresolvable

(* Every operation ends, whoever dies or fails meanwhile.                  *)
OperationsEnd == \A a \in Actors : pc[a] # "idle" ~> pc[a] = "idle"

(* An abandoned task is interrupted by the next process that opens the     *)
(* store, unless its journal is blocked or something fails meanwhile: the  *)
(* sweep logs a failure and goes on.                                       *)
Abandoned == live_tasks = {} /\ \E s \in task : s.status \in Interruptible

AbandonedIsInterrupted ==
    \A a \in Actors, k \in 0..MaxFaults :
        (Abandoned /\ pc[a] = "opening" /\ faults = k) ~>
            (~Abandoned \/ Unresolvable \/ faults # k)
=============================================================================
