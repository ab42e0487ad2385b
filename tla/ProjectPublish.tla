--------------------------- MODULE ProjectPublish ---------------------------
(***************************************************************************)
(* The derived outputs of one Action Guide project: the publish workers    *)
(* that render them on blocking threads, the arbiter that decides which    *)
(* worker may commit, the publish/ directory, publish-state.json, and the  *)
(* Timeline Workspace that schedules, retries, cancels and shares them     *)
(* while it saves, closes and opens again.                                 *)
(*                                                                         *)
(* An output is the revision its worker was to render (0: no such file);   *)
(* that the guide the worker was given is the one saved as that revision   *)
(* is CleanIsSaved of ProjectSession.  The saves are those of              *)
(* ProjectSession seen from here: each starts, commits in one step what it *)
(* compared the revision for, and its result arrives at whatever workspace *)
(* is shown by then.  Rename, write and sync of an output can each fail.   *)
(* Prompt says that the workers of two workspaces, one closed and one that *)
(* opened the project again, do not commit at the same moment: each has an *)
(* arbiter of its own, and nothing in the program keeps them apart.        *)
(***************************************************************************)
EXTENDS Integers, Sequences, FiniteSets, SequencesExt

CONSTANTS Core,          \* the guide folder itself
          Derivatives,   \* Storyboard, GIF, MP4
          MaxRevision,   \* bound: revisions saved
          MaxOpens,      \* bound: workspaces opened
          Budgets,       \* bounds explored: publish operations of each workspace
          MaxWorkers,    \* bound: workers at one time
          MaxEvents,     \* bound: events a worker is ahead of the event loop
          MaxSaves,      \* bound: saves at one time
          Prompt

ASSUME PublishAssumption ==
    /\ IsFiniteSet(Derivatives) /\ Core \notin Derivatives
    /\ MaxRevision \in Nat \ {0}
    /\ MaxOpens \in Nat /\ Budgets \subseteq [1..MaxOpens -> Nat]
    /\ MaxEvents \in Nat \ {0} /\ MaxWorkers \in Nat /\ MaxSaves \in Nat
    /\ Prompt \in BOOLEAN

Ids == Nat \ {0}
Kinds == {Core} \cup Derivatives
Revisions == 0..MaxRevision
Outputs == [Kinds -> Revisions]
Nothing == [k \in Kinds |-> 0]

VARIABLES project,    \* the manifest: revision, enabled derivatives, whether the
                      \* guide was imported from a video or recorded
          publish,    \* publish/: the revision of each output in it
          recorded,   \* publish-state.json: last successful revisions
          ws,         \* the workspace that is shown
          arbiter,    \* of each workspace, the operation that may commit
          workers,    \* publish workers and the events they still hold
          saves,      \* save workers and the results they still hold
          budget      \* the publish operations each workspace may begin

vars == <<project, publish, recorded, ws, arbiter, workers, saves, budget>>

\* "Settled": the state on the disk decides what is shown.
Statuses == {"Settled", "Updating", "Failed"}
Slot == [id : Ids \cup {0}, rev : Revisions]
\* "served" is history: the host was given a task that runs the operation, and
\* its events still belong to the revision the workspace is at.
Operation == [id : Ids \cup {0}, rev : Revisions, status : [Kinds -> Statuses],
              served : BOOLEAN]
NoSlot == [id |-> 0, rev |-> 0]
NoOperation == [id |-> 0, rev |-> 0, status |-> [k \in Kinds |-> "Settled"],
                served |-> FALSE]

SaveWorker == [pc : {"none", "running", "committed", "failed"}, base : Revisions,
               enabled : SUBSET Derivatives]
NoSave == [pc |-> "none", base |-> 0, enabled |-> {}]

Workspace ==
    [open : BOOLEAN, gen : 0..MaxOpens, base : Revisions,
     save : {"Clean", "Dirty", "Saving"}, closing : BOOLEAN,
     enabled : SUBSET Derivatives, op : Operation, last : Ids \cup {0},
     fresh : SUBSET Kinds,
     share : {"none", "waiting", "copying"}]

Event == [name : {"Committed", "Failed", "Finished"}, kind : Kinds]

Holding == {"aside", "install", "record", "file", "gate_aside", "gate_install"}
PCs == Holding \cup {"start", "core", "core_check", "outputs", "file_check",
                     "gate", "gate_check", "done"}

Worker ==
    [gen : 1..MaxOpens, id : Ids, rev : Revisions, gate : BOOLEAN,
     todo : SUBSET Kinds, kind : Kinds, old : Outputs, record : Outputs,
     cancelled : BOOLEAN, pc : PCs, out : Seq(Event)]

Closed == [open |-> FALSE, gen |-> 0, base |-> 0, save |-> "Clean",
           closing |-> FALSE, enabled |-> {}, op |-> NoOperation, last |-> 0,
           fresh |-> {}, share |-> "none"]

-----------------------------------------------------------------------------
(* What is current *)

\* An entry whose file is not there is dropped when the state is loaded.
Reconciled == [k \in Kinds |-> IF publish[k] = 0 THEN 0 ELSE recorded[k]]

IsCurrent(k, r) == Reconciled[k] = r /\ r # 0
CurrentAt(r, E) == {k \in E : IsCurrent(k, r)}
EnabledKinds == {Core} \cup ws.enabled
AllCurrent == EnabledKinds \subseteq ws.fresh

Held(g) == \E w \in workers : w.gen = g /\ w.pc \in Holding

Init ==
    /\ \E imported \in BOOLEAN :
         project = [rev |-> 1, enabled |-> Derivatives, imported |-> imported]
    /\ publish = Nothing /\ recorded = Nothing
    /\ ws = Closed /\ arbiter = <<>> /\ workers = {}
    /\ saves = [i \in 1..MaxSaves |-> NoSave]
    /\ budget \in Budgets

-----------------------------------------------------------------------------
(* The workspace *)

Open ==
    /\ ~ws.open /\ Len(arbiter) < MaxOpens
    /\ arbiter' = Append(arbiter, NoSlot)
    /\ ws' = [Closed EXCEPT !.open = TRUE, !.gen = Len(arbiter) + 1,
                            !.base = project.rev, !.enabled = project.enabled,
                            !.fresh = CurrentAt(project.rev, {Core} \cup project.enabled)]
    /\ UNCHANGED <<project, publish, recorded, workers, saves>>

Edit ==
    /\ ws.open /\ ws.save = "Clean" /\ ws.base < MaxRevision
    /\ ws' = [ws EXCEPT !.save = "Dirty"]
    /\ UNCHANGED <<project, publish, recorded, arbiter, workers, saves>>

TogglePublishOutput(k) ==
    /\ ws.open /\ ws.save = "Clean" /\ ws.base < MaxRevision
    /\ ws' = [ws EXCEPT !.save = "Dirty",
                        !.enabled = IF k \in @ THEN @ \ {k} ELSE @ \cup {k}]
    /\ UNCHANGED <<project, publish, recorded, arbiter, workers, saves>>

Save(close) ==
    /\ ws.open /\ ws.save = "Dirty" /\ ws.base < MaxRevision
    /\ ws' = [ws EXCEPT !.save = "Saving", !.closing = close]
    /\ \E i \in 1..MaxSaves :
         /\ saves[i] = NoSave
         /\ saves' = [saves EXCEPT ![i] = [pc |-> "running", base |-> ws.base,
                                           enabled |-> ws.enabled]]
    /\ UNCHANGED <<project, publish, recorded, arbiter, workers>>

\* The save worker renames the manifest, or finds another revision or an error.
SaveCommits(i) ==
    /\ saves[i].pc = "running" /\ project.rev = saves[i].base
    /\ project' = [project EXCEPT !.rev = saves[i].base + 1, !.enabled = saves[i].enabled]
    /\ saves' = [saves EXCEPT ![i] = [NoSave EXCEPT !.pc = "committed",
                                                   !.base = saves[i].base]]
    /\ UNCHANGED <<publish, recorded, ws, arbiter, workers>>

SaveErrs(i) ==
    /\ saves[i].pc = "running"
    /\ saves' = [saves EXCEPT ![i] = [NoSave EXCEPT !.pc = "failed"]]
    /\ UNCHANGED <<project, publish, recorded, ws, arbiter, workers>>

\* The flag of the running operation is raised; its worker looks at it later.
Cancelled == {IF w.gen = ws.gen /\ w.id = ws.op.id /\ w.pc # "done"
              THEN [w EXCEPT !.cancelled = TRUE] ELSE w : w \in workers}

\* A new operation for the outputs in `todo`.  One whose task the host drops
\* shows "Updating" but has no worker.
Begin(after, todo, gate, task) ==
    LET id == after.last + 1
        op == [id |-> id, rev |-> after.base,
               status |-> [k \in Kinds |-> IF k \in todo THEN "Updating" ELSE "Settled"],
               served |-> task]
        w  == [gen |-> after.gen, id |-> id, rev |-> after.base, gate |-> gate,
               todo |-> todo, kind |-> Core, old |-> Nothing, record |-> Nothing,
               cancelled |-> FALSE, pc |-> IF gate THEN "gate" ELSE "start",
               out |-> <<>>]
    IN  /\ id <= budget[after.gen] /\ Cardinality(workers) < MaxWorkers
        /\ ~Held(after.gen)
        /\ ws' = [after EXCEPT !.last = id, !.op = op]
        /\ arbiter' = [arbiter EXCEPT ![after.gen] = [id |-> id, rev |-> after.base]]
        /\ workers' = Cancelled \cup (IF task THEN {w} ELSE {})

\* The result of a save, whoever asked for it: Clean at the revision it names,
\* and a publish of everything enabled, whose task the hosts drop when the guide
\* was recorded.  A job that cannot be built leaves the operation that is shown,
\* which is not heard any more if it is about another revision.
SaveCompletes(i) ==
    /\ ws.open /\ saves[i].pc = "committed"
    /\ saves' = [saves EXCEPT ![i] = NoSave]
    /\ LET saved == [ws EXCEPT !.save = "Clean", !.base = saves[i].base + 1]
       IN  IF ws.closing
           THEN ws' = Closed /\ UNCHANGED <<arbiter, workers>>
           ELSE \/ Begin(saved, EnabledKinds, FALSE, project.imported)
                \/ /\ ws' = [saved EXCEPT !.op.served = @ /\ ws.op.rev = saved.base]
                   /\ UNCHANGED <<arbiter, workers>>
    /\ UNCHANGED <<project, publish, recorded>>

SaveFails(i) ==
    /\ ws.open /\ saves[i].pc = "failed"
    /\ saves' = [saves EXCEPT ![i] = NoSave]
    /\ ws' = [ws EXCEPT !.save = "Dirty", !.closing = FALSE]
    /\ UNCHANGED <<project, publish, recorded, arbiter, workers>>

\* A result that finds no workspace is dropped.
SaveIsUnheard(i) ==
    /\ ~ws.open /\ saves[i].pc \in {"committed", "failed"}
    /\ saves' = [saves EXCEPT ![i] = NoSave]
    /\ UNCHANGED <<project, publish, recorded, ws, arbiter, workers>>

\* What the details panel shows for an output.
Stale(k) ==
    CASE ws.op.status[k] = "Updating" -> FALSE
      [] ws.op.status[k] = "Failed"   -> TRUE
      [] OTHER -> ~IsCurrent(k, ws.base)

RetryPublishOutput(k) ==
    /\ ws.open /\ ws.save = "Clean" /\ Stale(k)
    /\ Begin(ws, {k}, FALSE, TRUE)
    /\ UNCHANGED <<project, publish, recorded, saves>>

\* The running operation is cancelled before there is anything to retry.
RetryAllPublishOutputs ==
    /\ ws.open /\ ws.save = "Clean"
    /\ LET retry == {k \in EnabledKinds : Stale(k)}
       IN  IF retry # {}
           THEN Begin(ws, retry, FALSE, TRUE)
           ELSE /\ ws.last < budget[ws.gen]
                /\ ws' = [ws EXCEPT !.last = @ + 1]
                /\ workers' = Cancelled
                /\ UNCHANGED arbiter
    /\ UNCHANGED <<project, publish, recorded, saves>>

CancelPublish ==
    /\ ws.open /\ ws.op.id # 0
    /\ ws' = [ws EXCEPT !.op = NoOperation]
    /\ workers' = Cancelled
    /\ UNCHANGED <<project, publish, recorded, arbiter, saves>>

\* Discard, and the close button of a project that is not dirty: a save under
\* way goes on.  A save that closes the workspace leaves its publish worker
\* uncancelled.
Close ==
    /\ ws.open
    /\ ws' = Closed
    /\ workers' = Cancelled
    /\ UNCHANGED <<project, publish, recorded, arbiter, saves>>

-----------------------------------------------------------------------------
(* Sharing a safe copy *)

Sharing == ws.share \in {"waiting", "copying"}

ShareSafeCopyRequested ==
    /\ ws.open /\ ws.save = "Clean" /\ ~Sharing
    /\ IF AllCurrent
       THEN /\ ws' = [ws EXCEPT !.share = "copying"]
            /\ UNCHANGED <<arbiter, workers>>
       ELSE Begin([ws EXCEPT !.share = "waiting"], EnabledKinds, TRUE, TRUE)
    /\ UNCHANGED <<project, publish, recorded, saves>>

\* The picker, and the worker that copies publish/ to the place it names.
ShareFinishes ==
    /\ ws.open /\ ws.share = "copying"
    /\ ws' = [ws EXCEPT !.share = "none"]
    /\ UNCHANGED <<project, publish, recorded, arbiter, workers, saves>>

-----------------------------------------------------------------------------
(* Publish workers *)

Step(w, new) == workers' = (workers \ {w}) \cup {new}
Goto(w, pc) == [w EXCEPT !.pc = pc]
Emit(w, e) == [w EXCEPT !.out = @ \o e]

Committed(K) == SetToSeq({[name |-> "Committed", kind |-> k] : k \in K})
Failed(k) == <<[name |-> "Failed", kind |-> k]>>

\* Whatever the outcome, the last event is Finished.
End(w) ==
    [w EXCEPT !.pc = "done", !.todo = {}, !.kind = Core, !.old = Nothing,
              !.record = Nothing, !.cancelled = FALSE,
              !.out = @ \o <<[name |-> "Finished", kind |-> Core]>>]

Disk == <<project, ws, arbiter, saves>>

Start(w) ==
    /\ w.pc = "start"
    /\ LET core == Core \in w.todo \/ ~IsCurrent(Core, w.rev)
       IN  Step(w, IF w.cancelled THEN End(w)
                   ELSE Goto(w, IF core THEN "core" ELSE "outputs"))
    /\ UNCHANGED <<Disk, publish, recorded>>

\* The guide is rendered beside publish/; then the flag is looked at.
RenderCore(w) ==
    /\ w.pc = "core"
    /\ \/ Step(w, IF w.cancelled THEN End(w) ELSE Goto(w, "core_check"))
       \/ Step(w, End(Emit(w, Failed(Core))))
    /\ UNCHANGED <<Disk, publish, recorded>>

\* The arbiter must name this operation, and the manifest on the disk must
\* still be of its revision; the arbiter stays locked until the commit is done.
MayCommit(w) ==
    /\ arbiter[w.gen] = [id |-> w.id, rev |-> w.rev]
    /\ project.rev = w.rev

Check(w, from, to) ==
    /\ w.pc = from /\ ~Held(w.gen)
    /\ Prompt => \A x \in workers : x.pc \notin Holding
    /\ Step(w, IF MayCommit(w) THEN Goto(w, to) ELSE End(w))
    /\ UNCHANGED <<Disk, publish, recorded>>

\* The new folder takes the place of the old one with two renames.
SwapAside(w) ==
    /\ w.pc = "aside"
    /\ \/ /\ publish' = Nothing
          /\ Step(w, [Goto(w, "install") EXCEPT !.old = publish])
       \/ Step(w, End(w)) /\ UNCHANGED publish
    /\ UNCHANGED <<Disk, recorded>>

NewFolder(w) == [Nothing EXCEPT ![Core] = w.rev]

SwapInstall(w) ==
    /\ w.pc = "install"
    /\ \/ /\ publish = Nothing
          /\ publish' = NewFolder(w)
          /\ Step(w, Goto(w, "record")) \/ Step(w, End(w))     \* fsync
       \/ /\ publish' = IF publish = Nothing THEN w.old ELSE publish
          /\ Step(w, End(w))
    /\ UNCHANGED <<Disk, recorded>>

\* Nobody looks at the result of writing the state file.
Record(r) == recorded' \in {r, recorded}

RecordCoreLatest(w) ==               \* mutant: the revision now on the disk
    /\ w.pc = "record"
    /\ Record([Reconciled EXCEPT ![Core] = project.rev])
    /\ Step(w, Emit([Goto(w, "outputs") EXCEPT !.old = Nothing], Committed({Core})))
    /\ UNCHANGED <<Disk, publish>>

RecordCore(w) ==
    /\ w.pc = "record"
    /\ Record([Reconciled EXCEPT ![Core] = w.rev])
    /\ Step(w, Emit([Goto(w, "outputs") EXCEPT !.old = Nothing], Committed({Core})))
    /\ UNCHANGED <<Disk, publish>>

\* The derivatives one after the other; one that is current is left alone.
NextOutput(w) ==
    /\ w.pc = "outputs"
    /\ IF w.todo \subseteq {Core} \/ w.cancelled
       THEN Step(w, End(w))
       ELSE \E k \in w.todo \ {Core} :
              LET rest == [w EXCEPT !.todo = @ \ {k}, !.kind = k]
              IN  IF IsCurrent(k, w.rev)
                  THEN Step(w, rest)
                  ELSE \/ Step(w, Goto(rest, "file_check"))
                       \/ Step(w, Emit(rest, Failed(k)))
    /\ UNCHANGED <<Disk, publish, recorded>>

\* A rename that does not replace: a file that is there already is in the way.
CommitOutput(w) ==
    /\ w.pc = "file"
    /\ LET k == w.kind
           next == Goto(w, "outputs")
       IN  \/ /\ publish[Core] # 0 /\ publish[k] = 0
              /\ publish' = [publish EXCEPT ![k] = w.rev]
              /\ recorded' \in {recorded, [Reconciled EXCEPT ![k] = w.rev]}
              /\ Step(w, Emit(next, Committed({k})))
           \/ Step(w, Emit(next, Failed(k))) /\ UNCHANGED <<publish, recorded>>
    /\ UNCHANGED Disk

\* The share gate renders everything first and installs it with its state.
RenderGate(w) ==
    /\ w.pc = "gate"
    /\ \/ Step(w, IF w.cancelled THEN End(w) ELSE Goto(w, "gate_check"))
       \/ Step(w, End(w))
    /\ UNCHANGED <<Disk, publish, recorded>>

GateAside(w) ==
    /\ w.pc = "gate_aside"
    /\ \/ /\ publish' = Nothing /\ recorded' = Nothing
          /\ Step(w, [Goto(w, "gate_install") EXCEPT !.old = publish, !.record = recorded])
       \/ Step(w, End(w)) /\ UNCHANGED <<publish, recorded>>
    /\ UNCHANGED Disk

\* A rename or the sync that fails puts both back.
GateInstall(w) ==
    /\ w.pc = "gate_install"
    /\ LET new == [k \in Kinds |-> IF k \in w.todo THEN w.rev ELSE 0]
           events == Committed({Core}) \o Committed(w.todo \ {Core})
       IN  \/ /\ publish = Nothing
              /\ publish' = new /\ recorded' = new
              /\ Step(w, End(Emit(w, events)))
           \/ /\ publish' = IF publish = Nothing THEN w.old ELSE publish
              /\ recorded' = w.record
              /\ Step(w, End(w))
    /\ UNCHANGED Disk

WorkerStep(w) ==
    \/ Start(w) \/ RenderCore(w)
    \/ Check(w, "core_check", "aside") \/ SwapAside(w) \/ SwapInstall(w) \/ RecordCore(w)
    \/ NextOutput(w) \/ Check(w, "file_check", "file") \/ CommitOutput(w)
    \/ RenderGate(w) \/ Check(w, "gate_check", "gate_aside") \/ GateAside(w) \/ GateInstall(w)

-----------------------------------------------------------------------------
(* Events *)

\* An event is taken for the running operation when number and revision agree;
\* it does not say which workspace it is for.
ForThisOperation(w) ==
    /\ ws.open /\ ws.op.id = w.id /\ ws.op.rev = w.rev
    /\ w.gate \/ ws.base = w.rev

Refreshed(s) == [s EXCEPT !.fresh = CurrentAt(s.base, EnabledKinds)]

AfterFinishedKept(w) == Refreshed(ws)                 \* mutant: still shown

AfterFinished(w) ==
    LET over == Refreshed([ws EXCEPT !.op = NoOperation])
    IN  IF ~w.gate THEN over
        ELSE [over EXCEPT !.share = IF EnabledKinds \subseteq over.fresh
                                    THEN "copying" ELSE "none"]

Handled(w, e) ==
    CASE e.name = "Committed" -> Refreshed([ws EXCEPT !.op.status[e.kind] = "Settled"])
      [] e.name = "Failed"    -> [ws EXCEPT !.op.status[e.kind] = "Failed"]
      [] e.name = "Finished"  -> AfterFinished(w)

\* clear_if_current looks at the number alone.
Deliver(w) ==
    /\ w.out # <<>>
    /\ LET e == Head(w.out)
           mine == ForThisOperation(w)
           clears == mine /\ e.name = "Finished"
           left == [w EXCEPT !.out = Tail(@)]
       IN  /\ clears => ~Held(ws.gen)
           /\ ws' = IF mine THEN Handled(w, e) ELSE ws
           /\ arbiter' = IF clears /\ arbiter[ws.gen].id = w.id
                         THEN [arbiter EXCEPT ![ws.gen] = NoSlot] ELSE arbiter
           /\ workers' = (workers \ {w}) \cup
                         (IF w.pc = "done" /\ left.out = <<>> THEN {} ELSE {left})
    /\ UNCHANGED <<project, publish, recorded, saves>>

\* The program dies; what was renamed stays renamed.
Crash ==
    /\ ws' = Closed /\ workers' = {} /\ saves' = [i \in 1..MaxSaves |-> NoSave]
    /\ arbiter' = [g \in DOMAIN arbiter |-> NoSlot]
    /\ UNCHANGED <<project, publish, recorded>>

-----------------------------------------------------------------------------
User ==
    \/ Open \/ Edit \/ Close \/ CancelPublish
    \/ \E k \in Derivatives : TogglePublishOutput(k)
    \/ \E close \in BOOLEAN : Save(close)
    \/ \E k \in Kinds : RetryPublishOutput(k)
    \/ RetryAllPublishOutputs \/ ShareSafeCopyRequested

Saves ==
    \E i \in 1..MaxSaves :
        SaveCommits(i) \/ SaveErrs(i) \/ SaveCompletes(i) \/ SaveFails(i) \/ SaveIsUnheard(i)

Work ==
    \E w \in workers : (Len(w.out) < MaxEvents /\ WorkerStep(w)) \/ Deliver(w)

Next ==
    (User \/ Saves \/ ShareFinishes \/ Crash \/ Work) /\ UNCHANGED budget

Spec == Init /\ [][Next]_vars

-----------------------------------------------------------------------------
TypeOK ==
    /\ project \in [rev : 1..MaxRevision, enabled : SUBSET Derivatives, imported : BOOLEAN]
    /\ publish \in Outputs /\ recorded \in Outputs
    /\ ws \in Workspace
    /\ arbiter \in Seq(Slot) /\ Len(arbiter) <= MaxOpens
    /\ workers \subseteq Worker
    /\ saves \in [1..MaxSaves -> SaveWorker]
    /\ budget \in [1..MaxOpens -> Nat]

\* What the state file and the files together call current was rendered from
\* the revision on the disk, whichever workers ran, failed or died in between.
CurrentIsTrue ==
    \A k \in Kinds : IsCurrent(k, project.rev) => publish[k] = project.rev

\* A late worker never takes away the output of a newer revision.
NewerIsKept ==
    \A w \in workers :
        w.pc \in {"install", "gate_install"} => \A k \in Kinds : w.old[k] <= w.rev

\* What is shown as "Updating" is being worked on, by a worker that will report
\* its end to the operation it belongs to, also after retries, a save that fails
\* or is answered late, a closed workspace's late events.  This holds of the
\* operations that are served.  The others stay "Updating" with nobody at work
\* until they are cancelled: those a save of a recorded guide begins, whose task
\* the host drops, and one left behind by a save whose job could not be built.
UpdatingHasWorker ==
    (ws.op.id # 0 /\ ws.op.served)
        => \E w \in workers : w.gen = ws.gen /\ w.id = ws.op.id /\ w.rev = ws.op.rev

\* The same of every operation, which the code does not keep.
EveryUpdateHasWorker ==
    ws.op.id # 0
        => \E w \in workers : w.gen = ws.gen /\ w.id = ws.op.id /\ w.rev = ws.op.rev

\* A safe copy asked for while an output is stale waits for the share gate
\* (spec 2026-07-17-action-guide-project-editing-design, line 615).  It need
\* not: the workspace goes by what it saw before the last save.
StaleIsNotShared ==
    [][(ShareSafeCopyRequested /\ ws'.share = "copying")
          => \A k \in EnabledKinds : IsCurrent(k, ws.base)]_vars

\* While the share waits for the gate, the gate is at work (same spec, line 617:
\* cancelling it aborts the share).  Cancelling forgets the share.
WaitingHasGate ==
    ws.share = "waiting" => \E w \in workers : w.gen = ws.gen /\ w.gate
=============================================================================
