----------------------------- MODULE ProductTask -----------------------------
(***************************************************************************)
(* A durable agent task (rollshot-agent/product_task.rs): its snapshot,    *)
(* the reducers that turn one snapshot into the next, and the lifecycle    *)
(* they promise.  Identities, artifacts and receipts are left out: a       *)
(* reducer is given matching ones, or refuses and leaves the snapshot be.  *)
(***************************************************************************)
EXTENDS Integers

CONSTANTS
    Times,    \* readings of the wall clock, in no particular order
    Schemas   \* store_schema_version of the tasks the program creates

ASSUME TaskAssumption == Times \subseteq Nat /\ Schemas \subseteq Nat

VARIABLE
    task      \* the one task followed here: {} or {its snapshot}

Single(x) == \A y, z \in x : y = z
Optional(x, S) == x \in SUBSET S /\ Single(x)

Interruptible == {"Created", "Running", "Applying"}
Failures == {"Failed", "NeedsUserInput", "Cancelled"}
Terminal == Failures \cup {"Completed", "Rejected", "Stale", "Interrupted"}
TaskStatus == Interruptible \cup {"ReadyForReview"} \cup Terminal

Snapshot == [store_schema_version : Schemas, snapshot_revision : Nat,
             status : TaskStatus, run_contract : BOOLEAN,
             pending_payload : BOOLEAN, updated_at : Times]

New(schema, now) ==
    [store_schema_version |-> schema, snapshot_revision |-> 0, status |-> "Created",
     run_contract |-> FALSE, pending_payload |-> FALSE, updated_at |-> now]

(* A reducer returns the set of snapshots it may produce: none when it     *)
(* refuses, because of the status or because time would run backwards.     *)
Reduce(s, from, now, status, payload) ==
    IF s.status \in from /\ now >= s.updated_at
    THEN {[s EXCEPT !.status = status, !.pending_payload = payload,
                    !.snapshot_revision = @ + 1, !.updated_at = now]}
    ELSE {}

StartAttempt(s, now) == Reduce(s, {"Created"}, now, "Running", FALSE)

BindRunContract(s, now) ==
    {[n EXCEPT !.run_contract = TRUE] :
     n \in {r \in Reduce(s, {"Running"}, now, "Running", FALSE) : ~s.run_contract}}

RecordReadyForReview(s, now) ==
    {n \in Reduce(s, {"Running"}, now, "ReadyForReview", TRUE) :
     s.store_schema_version >= 2 => s.run_contract}

RecordTerminal(s, now) ==
    UNION {Reduce(s, {"Running"}, now, status, FALSE) : status \in Failures}

BeginApply(s, now) == Reduce(s, {"ReadyForReview"}, now, "Applying", TRUE)

CompleteApply(s, now) == Reduce(s, {"Applying"}, now, "Completed", FALSE)

Reject(s, now) == Reduce(s, {"ReadyForReview", "Applying"}, now, "Rejected", FALSE)

MarkStale(s, now) == Reduce(s, {"ReadyForReview"}, now, "Stale", FALSE)

ReconcileInterrupted(s, now) ==
    Reduce(s, Interruptible, now, "Interrupted", s.pending_payload)

(* What the agent and the reviewer of a task ask for.                      *)
WorkReducers(s, now) ==
    StartAttempt(s, now) \cup BindRunContract(s, now) \cup RecordReadyForReview(s, now)
      \cup RecordTerminal(s, now) \cup BeginApply(s, now) \cup CompleteApply(s, now)
      \cup Reject(s, now) \cup MarkStale(s, now)

Reducers(s, now) == WorkReducers(s, now) \cup ReconcileInterrupted(s, now)

-----------------------------------------------------------------------------
(* The lifecycle a task is promised, wherever it is kept: it is created    *)
(* once, every change is one reducer applied to what is there, and only a  *)
(* terminal task goes away.                                                *)
CreateTask == task = {} /\ \E schema \in Schemas, now \in Times : task' = {New(schema, now)}

Advance == \E s \in task, now \in Times : \E n \in Reducers(s, now) : task' = {n}

PruneTask == (\E s \in task : s.status \in Terminal) /\ task' = {}

Lifecycle == task = {} /\ [][CreateTask \/ Advance \/ PruneTask]_task
=============================================================================
