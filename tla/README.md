# Rollshot: formal models, checks and proofs

This directory models the parts of Rollshot whose correctness depends on the
order of events: background jobs, UI messages that answer late, durable agent
tasks, agent runs that are cancelled or run out of budget, projects that several
programs edit, recordings that drop frames, crashes. Every definition is
translated from the source under `src/`; `PROJECT.json` maps each one to the
lines it stands for. `RA` below is `src/crates/rollshot-agent/src`, `RP` is
`src/crates/rollshot-app/src`, `RX` is `src/crates/rollshot-action/src`.

## 1. The system

Rollshot captures the screen (single shots, stitched scrolls, recorded action
guides), edits the results and lets an agent work on them. It is a Rust
workspace; the state that matters lives in these parts.

| Part | State | Operations | Interacts with |
|---|---|---|---|
| Live job registry (`RA/jobs.rs`) | table of jobs, tombstones, shutdown flag, a watch revision | admit, cancel, collect, prune, shutdown; through a reporter: mark_running, report, succeed, fail, cancelled, drop | UI thread and one worker per job, under one mutex; callbacks outside it |
| Home screen (`RP/action_guide_home`, `RP/action_guide_linux_product.rs`) | import coordinator, recording preflight, product phase | one message at a time; tasks answer with messages | registry, file dialogs, ffmpeg setup, project opening |
| Product tasks (`RA/product_task.rs`) | status, attempts, review and apply receipts | start, ready, apply, reject, stale, interrupt | task store |
| Task store and audit journal (`RP/agent_store`) | snapshot files, journal records, liveness and store locks | create, transition, append, reconcile, restore, prune, open | crashes between any two file operations, other processes |
| Agent run driver (`RA/driver.rs`, `RA/runtime.rs`) | rig's turns, budget usage, the batch at hand, the draft | model turns, tool calls, overflow recovery, cancellation, audit | provider, tools, authority, continuity, audit sink |
| Agent tools, authority, continuity (`RA/tools.rs`, `RA/authority.rs`, `RA/continuity.rs`) | the draft's source, generation and evidence; grants | edit, validate, dry run, submit; authorise; recover | driver |
| Project store (`RX/project`, `RP/timeline_workspace/project.rs`) | manifest, writer lock, workspace session | open, save, save as, close | other programs, crashes |
| Publisher (`RP/timeline_workspace/project_publish.rs`) | `publish/`, its state file, the arbiter | publish, retry, cancel, share gate | saves, closing and opening again |
| Suggestions (`RP/timeline_workspace/caption_agent.rs`, `visual_annotation_agent.rs`, `update.rs`) | review slot, guide, tasks | request, review, record a decision, restore | driver, task store, project |
| Motion worker (`RX/motion`) | mailbox of two frames, scheduler, scratch directory, ffmpeg | offer, take, fill, finish, cancel | recording thread (`rollshot-iced-overlay/src/driver.rs`) |
| Recorder and detector (`RX/recorder.rs`, `detector.rs`, `frame_store.rs`) | ring of frames, windows, waiting markers, steps | ingest frame, ingest event, finish | recording thread |
| Result workspace, image document, edit proposals | layers, history, pending proposals | edit, undo, apply | not modelled, see section 7 |
| Capture, overlay, stitcher, daemon, presets, vision, ffmpeg, exports | sessions, canvas | platform work | not modelled, see section 7 |

How they interact. The home screen starts imports as jobs of the registry and
recordings through the preflight. A recording runs the recorder and the motion
worker side by side and ends in a timeline workspace; so does an import. The
workspace is where a guide is edited, saved to a project, published, and where
captions and annotations are requested from the agent. A request creates a
product task in the task store, runs the driver, and ends in a review whose
decisions are recorded as transitions of the task.

What is hard here, and a unit test hardly reaches: answers of asynchronous
tasks that arrive after the operation they belong to is gone; a cancellation
racing a result; notifications that coalesce or are dropped; resources
reserved early and released by whoever comes last; a process that dies between
two file operations; two programs on one project; a lock that belongs to the
window and is relied upon by a worker; budgets that are checked before and
charged after; times compared across threads. `PROJECT.json` lists each such
hazard at its line, with the properties that watch over it.

## 2. Modules

| Module | Models | Uses |
|---|---|---|
| `JobRegistry` | `LiveJobRegistry` and `JobReporter`, complete | |
| `VideoImport` | the home screen's import, composed with the registry | EXTENDS `JobRegistry` |
| `RecordPreflight` | the preflight of a recording | |
| `ProductTask` | the snapshot of a durable task, its reducers, and the lifecycle it is promised | |
| `TaskStore` | `TaskStore` and the audit journal, complete; implements that lifecycle | EXTENDS `ProductTask` |
| `AgentTools` | the tools on the draft, evidence, recovery's view of it | |
| `AgentRun` | the driver's loop, its budgets, authority, cancellation, overflow recovery | EXTENDS `AgentTools` |
| `ProjectRegister` | abstract: a saved project is a register with one writer | |
| `ProjectSession` | windows, save and open workers, writer lock; implements the register | INSTANCE `ProjectRegister` |
| `ProjectPublish` | publish workers, arbiter, `publish/`, share gate | |
| `GuideReview` | captions and annotations from request to recorded decision | |
| `MotionRecording` | recording thread, mailbox, motion worker, ffmpeg | |
| `ActionRecorder` | recorder, detector, frame store | |
| `*Proofs` | theorems of the module they are named after; `HomeProofs` those of `JobRegistry`, `VideoImport` and `RecordPreflight` | TLAPS |
| `MC*` | small instances for TLC: symmetry sets, scenarios | |

### JobRegistry

`jobs` is the HashMap of records, `tombstones` the ids whose result expired,
`reporter` and `terminal_reported` the state of each worker's `JobReporter`.
Every method holds the mutex for its whole body, so a method is one action:
`Admitted`/`AdmitRefused` (both prune first), `Cancel`, `Shutdown`,
`Collected`, `Prune` (also every failing collect), `MarkRunning`,
`ReportProgress`, `Succeed`, `Fail`, `Cancelled`, `ReportRefused`,
`DropReporter`. The cancellation callback runs after the lock is released and
is an action of its own, `InvokeCallback`.

Pruning walks a HashMap, so entries of equal age come in any order:
`PruneTerminals` is the set of its possible results. `now` is the wall clock
of the callers (`now_unix_ms`); a worker may use a time up to `ClockLag` old,
because it reads the clock before it gets the lock, and with `ClockStepsBack`
the clock may be set back.

### VideoImport

Adds the `ImportCoordinator`, the tasks in flight, the product's phase, the
watch subscription (`unseen` is the changed flag of the watch receiver,
`notices` the `ImportJobsChanged` messages under way) and the worker. Every
action is a message handler of the update loop, a step of the subscription
stream, or a step of `run_import_task`; those that touch the registry conjoin
an action of `JobRegistry`. The update loop handles nothing while `cancel` runs
the job's callback (`UpdateLoopFree`). Messages to the home screen are dropped
outside `Phase::Home`, as in the code. File dialogs, toolchain resolution and
download, and ffmpeg itself answer in any order and with any outcome.

### RecordPreflight

The preflight of "Record new": the checkbox, the three phases, and the tasks
that resolve or download the toolchain. Their answers carry no identity, so an
answer meets whatever preflight is open. Its initial state and its actions have
names of their own (`PreflightInit`, `PreflightSpec`), so that one module of proofs
can use it beside the registry.

### ProductTask and TaskStore

`ProductTask` gives each reducer of `product_task.rs` as the set of snapshots it
may return: none when it refuses, because of the status, of a missing run
contract or because the time given lies before the last update. `Lifecycle` is
the abstract specification: a task is created once, every change is one
reducer applied to the snapshot that is there, and only a terminal task goes.

`TaskStore` is that lifecycle kept on disk by several processes. `task` is the
snapshot file, `pending` and `committed` the audit journal beside it,
`live_tasks` the processes whose liveness lock on the task others can see,
`lock` the store's file lock. An actor is a thread; `pc` and `op` are where it
stands in an operation and the two snapshots the operation carries, `mem` the
snapshot the thread works with. `create_audited` and `transition_audited` are
the six steps `Acquire` (lock, then reconcile the journal), `Prepare`,
`BeginTaskLiveness`, `WriteSnapshot` (compare, write, rename), `Commit`,
`Abort`; `reconcile_for_source` reads in one step and decides in another,
without the lock in between; `TaskStore::open` is `Open`, `ReconcileOnOpen`,
`RemoveOrphanJournals` and the sweep. Any file operation may fail, and a
failing append may have written its record or not. A process may die between
any two steps.

One task is followed: tasks share nothing but the lock. The `Aborted` records
are not kept, as no reader returns them. A crash is the death of a process: what
was written stays written, a loss of power is not modelled. `end_task_liveness`
removes the liveness file whoever holds it, and so does the model; a probe of
liveness is one step. Whether a task belongs to the source being opened is a
free choice (`RestoreSkips`). `now` is any member of `Times`: clocks of several
processes owe each other nothing.

### AgentTools and AgentRun

`AgentTools` holds the tools as operators on the draft: `ReplaceSource`,
`EditSource`, `ValidateSource`, `DryRun`, `SubmitForReview`, with the guards on
the generation the model names, and what they do to evidence and cached results.
`validate_source` and `dry_run` judge the source they are given, which need not
be the draft's.

`AgentRun` is the loop of `driver.rs`. Its three entry points
(`run_with_provider`, `run_visual_annotation_with_provider`,
`run_single_submit_with_provider`) are the profiles `redaction`, `visual` and
`single` of one loop, since they differ in their preflight and their tool turn.
A step ends where the code awaits: `Preflight`, `CallModel` (rig's next step),
`Dispatch`, the provider's answer (`TurnCompletes`, `StreamFails`, `Overflow`),
`LoadFails`/`Restart` for the continuity load, one call of a batch, the results
(`ResultsTooLarge`, `ResultsFail`, `ResultsTaken`), `AuditAnswers`. `Cancel` and
`DeadlinePasses` happen between any two, and the guards say which step looks at
them. `used` and `turn` are the `BudgetTracker`: `Fits` compares a charge with
`used` only, as `check_budget` does. Budget dimensions that are charged at the
same place in the same way are one; the module's comment lists them. `rig_core`
is external: a turn counter, a phase, a bound.

### ProjectRegister, ProjectSession, ProjectPublish

`ProjectRegister` is what store and lock promise together. `ProjectSession` is
several programs, each with one workspace (`ws`), their blocking save workers
(`workers`), the results not delivered yet (`inbox`), the manifests (`disk`) and
the lock files (`lock`). A save is `CheckRevision` twice, then `CommitManifest`;
a first save or Save As is `CommitNewProject`, then `LockNewProject`; between the
steps everything else may happen. The guard of a new lock waits in the slot of
the workspace that asked (`slot`; taking the lock and filling the slot are one
moment in the model). A result carries no identity of the workspace that asked:
`Deliver` applies it to the one that is shown. `Crash` ends a program's threads and
frees its locks. The content of a project is the set of edits in it. Workers and
results are sets, so two equal results of one workspace count as one.

The user may close a workspace that is saving (`CloseRequested`, `Discard`), and may
choose a Save As destination over a running save. Then results and saves no longer
belong together, and the code breaks what one would like to state of all
workspaces (section 6). The history `adrift` names the workspaces this
has happened to: those that left a save behind or started one over another
(`Drifts`), those that met a result that was not theirs (`Deliver`), and those whose
project one of these overwrote (`CommitManifest`, with everybody `Concerned` with the
project). `ProjectRegister` has the same history, as `stray`, and one more step for
it, `Overwrite`.

`ProjectPublish` takes the saves as they look from the publisher: a worker that
commits or fails, and a result that reaches whatever workspace is shown by then,
or none. It models the publish worker's steps from rendering to the two renames
and the state file, the arbiter that each workspace has of its own, retry, cancel,
the share gate, closing (also while a save is under way) and opening again. An output
is the revision it was rendered from. The project is an imported or a recorded one:
after the save of a recorded project the host drops the task of the publish that
follows, so `Begin` shows an operation without a worker. A save whose export job
cannot be built moves the revision and begins no operation. `served` marks the
operations that neither has happened to. `Prompt` says that the workers of two
workspaces do not commit at the same moment. One project is followed; and a
confirmed "save and close" that finds the workspace already marked saved by a result
that was not its own, and closes without cancelling the publish worker, is left out.

### GuideReview

One kind of suggestion at a time (`kind`), with the tasks in the store (`tasks`),
the background runs (`runs`), the review slot of the open workspace (`screen`),
the guide in memory and on disk, and the batches of transactions that record
decisions (`batches`). A transaction is a compare-and-swap on the status the
screen last saw; it can be lost, or reported as failed although it was
committed. A decision changes the guide at once and the store later. The answer of a
final decision clears the slot: of captions only the review, of annotations
whatever is there, a newer request too (`Emptied`). Accepting all needs nothing
pending and records what there is. Captions can also end before there is a task,
when no provider is configured (`CaptionContextPrepared`). Three
histories serve the properties: `written` is what was written into the guide,
`late` the tasks that work of an earlier opening may still move, and `crossed`
says that the answer of an earlier opening's batch ended the wait for another one
(answers name the task, not the opening; section 6).

### MotionRecording

`thread` and `worker` say where the recording thread and the motion worker are.
`Offer`, `Evict` and `Resend` are the three steps of `MotionFrameSender::offer`,
between which the worker may take. `Look`, `Take`, `NothingToTake` are the
worker's loop: the duration is received on one channel, the frames on another.
`TickOf`, `Emission` and `Remaining` are the scheduler's arithmetic at thirty
images a second; `video` is the sequence of images written. ffmpeg may die at
any moment; probing, renaming and hashing may fail. An ffmpeg that is alive but reads no
more is not modelled: writing an image and waiting for the exit return
(`RX/motion/worker.rs:376`, `:447`).

### ActionRecorder

`IngestFrame`, `IngestEvent` and `Finish` are whole calls of the recorder: the
detector's windows for clicks, typing and scrolling, the settle detector and the
debounce, then the frame store and the markers that wait for frames to come.
Pictures are numbers whose distance stands for the metrics; pictures of
different sizes do not compare. Stamps are arbitrary: those of the frames run from
the first frame and go back when the system clock is set back (the driver saturates
them to zero), those of the events run from the start of the input source, and a
screen at rest sends no frames, so any stamp can follow any other. The history
`early` says that an event which closed a click window was stamped a cooldown or
more before the last frame.

## 3. Runs

| Run | Instance | States | Shows |
|---|---|---|---|
| `job_registry` | 4 jobs, 1 active, 1 slot, 2 terminals, TTL 1, clock to 1, lag 1 | 615,000 | reporters, cancellation, the lifecycle of a record, results kept until their TTL under eviction |
| `video_import` | 2 jobs and imports, 1 active, 2 slots, 1 project dialog | 178,144 | no import behind the user's back, nothing cancelled opens, every import ends |
| `record_preflight` | 3 preflights, 3 tasks | 1,936 | no motion is kept before any consent |
| `task_store` | 2 processes, 1 fault or death anywhere | 65,881 | the lifecycle, write-ahead, no live run interrupted, operations end, an abandoned task is interrupted |
| `task_store_prune` | 2 clock readings, 2 faults, an ephemeral source | 2,352,584 | the journal tells the story, evidence outlives its task, with unlocked pruning |
| `agent_run` | 17 callers over the three profiles, 18 batches, 3 turns | 689,659 | budgets, evidence, dispatches, denial, cancellation, the run ends |
| `project_session` | 2 programs, 2 directories, 2 edits, 2 workspaces opened, 2 saves | 146,027 | the register with one writer, "saved" is true, saving ends, with workspaces closed while they save |
| `project_publish` | an imported or recorded project, 2 workspaces one after the other, 2 operations between them, 2 workers, 1 save at a time, 2 revisions | 3,303,405 | "current" is true, an operation that is served has a worker |
| `guide_review` | both kinds, 2 suggestions, 2 runs, 3 or 2 disturbances | 1,524,061 | one batch at a time, screen and store, receipts, nothing unseen is overwritten |
| `motion_recording` | mailbox of 2, 4 frames, 4 times, 3 durations, frames of a wrong size | 934,726 | the newest frame, the video's time, the scratch directory, stopping ends |
| `motion_recording_short` | 3 frames, 3 times | | refuted: the video is as long as the session (section 6) |
| `action_recorder` | ring of 4, 6 frames, 2 events, 4 pictures of 2 sizes, stamps 0, 3 and 6 in any order | 972,086 | order of steps, their context, markers that wait |

Bounds and why they are enough.

- Four jobs against a table of two make every limit bind, both eviction passes
  run and one admission be refused. Results expire, do not yet, and sort before
  and after each other with a TTL of one tick and a clock of one, because the
  lag of a worker's clock gives two readings at one time. Jobs never return once
  evicted, so more ids only repeat these cases. In `video_import` one job at a
  time may be active, as in the product, and the second import meets the first
  one's late answers and results; several active at once are covered by the
  theorems, which hold for all limits.
- `MaxPreflights` lets two stale answers meet a third, live preflight.
- A task passes through at most six revisions, all of which two threads reach in
  any interleaving; two faults, in `task_store_prune`, are what it takes to lose
  an operation and then the attempt to repair it. One clock reading suffices
  where time plays no part; two give every comparison with `PruneAge` and
  `LaunchGrace` both outcomes.
- The callers of `MCAgentRun` lack one operation, or run out in one dimension, or
  have everything; the batches are every call alone and the pairs and triples
  whose order matters. Three turns allow an edit, its checks and a submission,
  or an overflow, its recovery and a turn more.
- Two programs and two directories give every conflict of two savers, a Save As
  onto a project that another creates, and a result that meets the next
  workspace. Two saves are what it takes to lose an update, or to mix up two results
  of one workspace; `CleanIsAlwaysSaved` fails in this instance, so the states
  `adrift` is about are in it.
- Publishing needs a worker of a closed workspace, one of the next, and a save
  between them, whose result may reach the second workspace. The two operations are
  both of one workspace, for retries, or one of each, so that event numbers
  coincide. `EveryUpdateHasWorker` fails in this instance: operations that are not
  served occur.
- Two suggestions are one accepted and one not, a partial decision and a first
  and a final one; two runs are a stale one and a live one. A disturbance is an
  edit, a save, an opening or a failed transaction; the interesting cases take
  two, captions get three.
- Four frames fill the mailbox twice over; the times hold two frames in one tick,
  a gap, and, since they may come in any order, a clock set back.
- Six frames are the window before a marker, the marker, its window after and two
  by which a second one moves the ring of four on. Stamps 0, 3 and 6 with a cooldown
  of 4 and windows of 3 let a cooldown pass within one gap or not, within several
  gaps, and, since they may come in any order, never. `WaitingLosesNothing` is not
  vacuous, as `lost = {}` fails; neither is the exception in `StepsInOrder`, as a
  strict order fails.

Fairness, where a run states liveness:

- `FairImportSpec`: weak fairness of message handling, of the subscription
  stream and of each worker's next step, as the executor runs what is ready; the
  decoder is assumed to return. Nothing is assumed of the user: no liveness
  property waits for a dialog.
- `FairStoreSpec`: a thread that has begun an operation runs on (weak fairness),
  and whoever waits for the file lock gets it in the end (strong fairness of the
  steps that take it, `Locking`): the lock is blocking, and its holders release
  it or die. Nobody is obliged to begin an operation. Opening the store logs a
  failure and goes on, so an abandoned task is interrupted only if nothing fails
  meanwhile; `AbandonedIsInterrupted` says so.
- `LiveSpec` of `AgentRun`: the runtime polls a ready future (`DriverStep`) and
  time passes (`DeadlinePasses`). The provider may be silent for ever.
- `FairSpec` of `ProjectSession`: blocking threads run and the event loop
  delivers. The user need not act.
- `FairSpec` of `MotionRecording`: the operating system runs the worker, and the
  recording thread once it waits for it. ffmpeg reads what it is given until it
  exits or dies.

Deadlock is not checked (`CHECK_DEADLOCK FALSE`): these are programs that may
rest, when the bounded inputs are used up.

Every property of a passing run has a mutant in `PROJECT.json`: a definition with
a plausible bug (marked `mutant:` in the modules), with which TLC finds the
property violated.

Type invariants are proved (section 4) and are not among the runs' properties;
`ActionRecorder`, whose data are records of one thread, states none, and its types
are part of the invariant that is proved (`Base`, `Watching`). The inductive
invariants of `ProjectPublishProofs`, `GuideReviewProofs` and `ActionRecorderProofs`
were evaluated with TLC on the instances of the runs before they were proved. So were invariants that the modules state and no run
lists because a stronger one does: `SlotsBounded`, `RecordsBounded`,
`ActiveNeverEvicted` (theorems), `RecordsConsistent`, `CancelledEnds`,
`NewerIsKept`, `AnswerIsHeard`, and, with `MaxProjectPickers = 0`,
`WaitingHasSource` and `BoundJobWillBeReconciled`: with a project dialog both
fail, because a message that arrives while a project opens is dropped (section 6).

## 4. Proofs

All are safety properties, proved for every value of the constants.

### The registry and the home screen

`HomeProofs`, for every set of jobs, all limits and any clock:
`TypeCorrect`, `SlotsAlwaysBounded`, `RecordsAlwaysBounded`,
`ActiveAlwaysHasReporter`, `CancelAlwaysHonoured`, `TerminalAlwaysFinal`,
`ActiveIsNeverEvicted`; and `ResultsDropOnlyAtTtl` under two assumptions, that
the clock never steps back and that there are fewer result slots than terminal
records (4 and 128 in the code).

The inductive invariant `IInv` has three parts. `TypeOK`. `PerJob`: the flags of
each record fit its state (`RecordsConsistent`), active records have a live
reporter, callbacks belong to requested cancellations, and nothing is known of
an id before it is admitted (`IdsFresh`, without which an admission could revive
an old id). `Bounds`: the limits, with finiteness of the table, because
cardinalities of unknown sets say nothing. `TableLemma` splits every step in two:
the table shrinks and no record becomes active or gains a result, or a job is
admitted after pruning; the limits follow from these shapes alone.
`EvictionSparesResults` is a counting argument: if a live result were evicted,
every plain terminal would be gone and at least `MAX_TERMINAL_JOBS` live results
would remain, more than there are slots.

The same module, for any number of jobs, operation ids, dialogs and any
clock: `ImportImplementsRegistry` (every behaviour of the home screen and its
workers is a behaviour of `JobRegistry`, so all of the above holds in the
product), `NoImportBehindTheUser` and `CancelledImportNeverOpens`. The invariant
`HomeInv` is `IInv` with three parts more. `ScreenTypes`. `Waits`: at most one
answer is pending for the screen's operation and none once a job is bound;
without it a late answer could admit a second job and forget the first.
`Claims`: the two properties, and that a bound job is neither cancelled nor
opened and was admitted. `NothingAdmitted` says that a step that hands out no
reporter makes nothing active and takes no slot, so only `ToolchainAvailable`
and the handlers that unbind a job need an argument of their own.

The same module, for any number of preflights and tasks:
`PreflightTypeCorrect`, `MotionAlwaysFollowsConsent`. Answers carry no identity, so
the invariant is about consent as such (`Consented`): while no preflight was
consented to, no task is under way and the one that is open (`OneOpen`) has not
left its first phase.

### The task store

`TaskStoreProofs`, for any number of processes, threads, clock readings and
faults: `StoreTypeCorrect`; `StoreImplementsLifecycle` (the refinement of
`ProductTask`'s lifecycle); `SnapshotsAreWrittenAhead`;
`EvidenceOutlivesTheTask`; `RunsAreLeftAlone`; and, assuming that the directory
opens after every rename, `JournalTellsAll`. Without that assumption the last is
false. There are four inductive invariants.

- `Ordered`: exactly the actor in a critical step holds the lock, a process that
  is down runs nothing, and an operation carries a snapshot that follows the
  one it replaces by a reducer (`OpFits`). Types are part of it.
- `Meaning`: a task is created by one actor only, and before its snapshot is
  written there is nothing of it anywhere (`Untouched`); this is what keeps a
  pruned task from coming back. A transaction about to be written is the one
  prepared (`Prepared`); what a reader saw as terminal is still there or gone
  (`Past`), so pruning without the lock is safe.
- `Working`: whoever works on a task holds its liveness lock until the run is
  over (`Owned`), and if somebody has decided to interrupt an unfinished run
  then nobody works on it (`Orphaned`). The second is needed because the
  decision is taken before the lock is: it must stay true until the write.
- `Told`: a prepared transaction is either still ahead of the snapshot, with the
  story so far complete, or it is the one event the journal lacks. So the
  reconciler's choice, made from the snapshot alone, completes the story
  either way.

### The agent run

`AgentRunProofs`, for any callers (profile, budget, grants, sinks), any number of
turns, any batches, sources and amounts: `RunTypeCorrect`,
`SuccessStaysWithinBudget`, `ReadyIsAlwaysEvidenced`, `EvidenceAlwaysHasResult`,
`DispatchesAlwaysBounded`, `DenialAlwaysEndsTheRun`, `CancelAlwaysStopsWork`.

The invariant `IInv` has five parts. `TypeOK`. `Turns`: what rig has used and what
is left of its bound add up to `MaxTurns` with the turns already started, across
the second rig of a recovered run, and each dispatch but the one in the air has
been charged. `Flow`: where a batch may have stopped, and where a denial may have
led. `Kept`, with `DraftOK`: evidence of the current generation has its result, and
a handoff is the current source with both kinds of evidence; every tool keeps it
(`Sound`, one lemma for each tool), and so every call of a batch does
(`ExecuteKeeps`). `Spent`: what `check_budget` overlooks, by profile. The redaction
and visual runs charge each dimension once between two settlements, so that used and
charged together never exceed the budget; the single-submit run may exceed it
within a batch of auxiliary calls, but it can succeed only from a turn that
completed after that, and the completed turn's charge is compared with the whole.
Every step that ends the run goes through one lemma, `EndKeeps`.

### Projects

`ProjectSessionProofs`, for any programs, directories, edits, workspaces and saves:
`SessionTypeCorrect`; `EditorHoldsLock` (whoever may edit holds the lock);
`SaveIsExclusive` (the lock is held from the first reading of the revision to the
rename, and the revision read last is the one replaced); `ShownAsSavedIsSaved`; and
`SessionImplementsRegister`, that store and lock implement `ProjectRegister`. None
has a condition on what the user does. All but the first speak of the workspaces that are
not `adrift`, and what they show is that the others, which are there all the time and
write without a lock, do no harm to these: a workspace is adrift only through a
save or a result of its own that was mixed up, or because its project was
overwritten. Of the workspaces adrift the same is false (section 6).

Every step is a step of one program, so the invariant `IInv` is a statement
`AppInv(a)` about each program with little that is global: workspaces are never
confused (`Gens`), what is in flight is of the workspace shown or of one adrift
(`Owned`), and what is locked, or being saved, exists. `AppInv(a)` says of a workspace
that is not adrift (`FineInv`) that a save of its own in flight is alone and finds
it waiting (`InFlight`, `Alone`); this is what makes results without identity harmless
for it. `Reaches` and `Contains` say that what was read or written as a revision is
still there or was followed by revisions that contain it; they are stable under the
commits of others (`ReachesOn`, `ContainsOn`), or else the project was overwritten and
everybody `Concerned` is adrift. `OwnStep` is a step of a program's own workspace and
`WorkerMoves` one of a worker; both leave the other programs `Untouched`, which keeps
their statements.

`ProjectPublishProofs`, for any derivatives, revisions, openings, operations,
workers and events: `PublishTypeCorrect`; `UpdatingAlwaysHasWorker`; and, assuming
`Prompt \/ MaxOpens <= 1`, `DiskAlwaysHolds`, `CurrentIsAlwaysTrue` and
`NewerIsAlwaysKept`. The assumption is that of the run: either the workers of two
workspaces do not commit at the same moment, or only one workspace is opened, whose
arbiter then does what it is for. Without it `CurrentIsTrue` is false (section 6).
There are two invariants.

- `Records` needs no assumption. `Opened`: a served operation that is shown is about
  the revision the workspace is based on, so an event for it is never refused for
  its revision; a late save result that changes the revision begins an operation or
  leaves one that is not served. `Endings`: a worker that is done has `Finished` as the last event it
  holds. So a worker goes only when its `Finished` is delivered, and if it is the
  worker of what is shown, this is what ends the operation; the worker of another
  workspace with the same numbers can only end it early.
- `OnDisk`. `Saved`: an entry of the state file is no newer than a file that is
  there (`Behind`), and neither is newer than the saved project. `Alone`: one worker
  commits at a time. `Committing`: what it has put aside, and would put back, is of
  its revision or older, and the entries it would restore are no newer than the
  files; between the renames of the share gate there is nothing in `publish/`. This
  survives every rename or write that fails and a death at any point, because none
  of the parts speaks of a worker having to finish.

The steps come in two kinds. A worker's step is one of the five shapes of `Moves`
(it rests, takes the lock, swaps, notes, or commits a share); a step of the
workspace is `Tended`: it leaves the files alone, and the workers that commit are,
one to one, those that did before. Each action is shown to have its shape, and the
shapes alone keep `OnDisk`.

### Suggestions and their review

`GuideReviewProofs`, for both kinds, any suggestions, runs, texts and disturbances:
`ReviewTypeCorrect`, `WorkerAlwaysSettlesTask`, `RunningAlwaysHasWorker`,
`AlwaysOneBatch`, `ScreenAlwaysFollowsStore`, `ReceiptIsAlwaysTrue`,
`NothingUnseenIsEverOverwritten`, all from one invariant (`ReviewInvariant`) whose
parts go from the worker to the store:

- `Settling`, `Asking`, `Numbered`: how far the task of a run has come at each point
  of its worker, that asking for annotations takes the place of the review, and that
  no run has a number the workspace has not given out; from these
  `RunningHasWorker`.
- `LateIsKnown`, `ShownIsHeard`, `WaitsForBatch`, with `OneBatchAtATime`: which task
  can still be moved by work of an earlier opening, that a review which is shown is
  about a task whose worker is through, and that while a batch of this opening is
  out the screen waits for it and refuses decisions, unless a foreign answer
  `crossed` it.
- `Phases`, `Following`, with `ScreenFollowsStore`: how far a batch has come, what
  the store then holds, and what it will tell the screen. The two cannot be proved
  one without the other: that a batch finds the snapshot it was given needs that
  the screen followed the store when the batch began.
- `Accounted`, `WrittenIsNewer`, `BasedOnRun`: what the screen and its batches call
  accepted is what was written since the guide was opened; a guide that was written
  into is unsaved or at a newer revision than the run that suggested it, so a review
  that is restored has written nothing; and the review is based on the texts its run
  has seen. Receipts and overwriting follow from these.

### Motion recording

`MotionRecordingProofs`, for any mailbox, number of frames and times:
`MotionTypeCorrect`; `NewestFrameSurvives`; `ScratchAlwaysHasOwner`;
`VideoAlwaysKeepsTime`. The invariant of the first two says where the two threads can be at once
(`Together`); that the mailbox is within its bound, has a place free when the
thread is about to send again, and is empty once the worker has drained it
(`Bounded`); and that between two offers the newest frame captured is the last in
the mailbox or, if that is empty, the last taken (`Newest`). The third is about
which of worker, thread and holder the files belong to at each step of each
failure. For the last (`TimeInv`), `Due` is the latest tick of the frames so far,
which has to be shown because it is defined by a choice (`DueIsLatest`), and while
images are written the video ends with the tick of the scheduler, every image being
that of the last frame due before it (`WrittenInTime`).

### The recorder

`ActionRecorderProofs`, for any ring, windows, thresholds and pictures and whatever
stamps frames and events have: `StepsAlwaysInOrder`, `StepsAlwaysHaveContext` and
`WaitingNeverLoses`. None has a condition; what the code does not keep is part of
what is stated.

- The debounce goes by times. Whether one passed is a `saturating_sub`, so a stamp
  that is too late only ends it, and the frame found last is not offered again. An
  event that is stamped a cooldown or more before the last frame (`early`) sets the
  debounce back: `finish` may then find the last frame a second time. So
  `StepsInOrder` lets the last step repeat the one before it in that case, and with a
  cooldown of zero, which only tests set. The strict order is false.
- A marker for a frame that is long past can come too late whatever it waits for: a
  click window that is still open when more frames came in than the ring holds (sixty
  by default, with a window of 600 ms) is closed by the next event, and the
  frame is gone. `WaitingLosesNothing` says that this is the only loss: the frame was
  out of the ring one frame after the marker was made, and no marker of an event is
  looked at earlier. `lost = {}` is false.

One invariant `IInv` serves the three. While the recording goes on it is

- `Watching`: the detector has at most one owner of a change, and what its windows
  and its settle detector have seen are frames of this recording;
- `Waiting`: a marker is due when the frames after its own are there, or it was
  overtaken by them and waits for the next frame only; nothing overdue waits;
- `Ordered`: steps and waiting markers are in the order of their frames, and
  whatever the detector may still report lies after all of them. That is the
  heart of the first theorem: each way to close a window is shown to empty every
  window that has seen the frame it reports or an earlier one;
- `Rested`, as long as no event was `early`: if the last frame was found, the cooldown
  since is not over.

Once it has ended, the three properties are what is left of it.

A queue of markers is filtered by position (`Nth`, `Only`) and not by a recursive
operator, so that what a filter keeps follows from the counting of positions: the
lemmas on `Only` say that it keeps order and loses nobody. The detector is proved
about one piece at a time, each window and each way to close it with its lemma,
and `ObserveFrame` and `ObserveEvent` are put together from these.

### What stays with TLC

Liveness under fairness: `ImportEnds`, `OperationsEnd`, `AbandonedIsInterrupted`,
`RunEnds`, `SaveEnds`, `StopEnds`. Every other property of a passing run is a
theorem.

## 5. Assumptions on the constants

Each module names them (`LimitsAssumption`, `ClockAssumption`, `RunAssumption`,
`SessionAssumption` and so on); TLC evaluates them on every run. They say that
numbers are numbers, which bounds are not zero, and that the values standing for
"nothing" (`NoSource`, `NoRoot`, `NoWriter`, `NoProject`) are not among the others.
Only `RecorderAssumption` says more: the ring is larger than the two windows, as
the defaults of the code are, and the thresholds are above zero. Some theorems
assume more in their statement: a directory that opens after every rename, a clock
that does not step back, publish workers that are `Prompt` or a single workspace.

## 6. Where the code and its texts disagree

Model-checking the statements of specs and comments showed these; the first is
kept as a run, the others as properties of the modules, with the name in
parentheses.

- The video of a recording whose first frame was evicted is shorter than the
  session: the images before the first tick are counted and not written
  (`VideoIsComplete`, `RX/motion/worker.rs:374` against `timing.rs:58`).
- A save result names no workspace. It meets the next workspace when the window was
  closed while it saved (the close button asks only about a dirty project,
  `RP/timeline_workspace/update.rs:993`), and the result of a save meets a Save As that
  was chosen over it; either marks edits as saved that are not
  (`CleanIsAlwaysSaved`, `update.rs:5388`; the design of project editing, line 479:
  "Mark the workspace clean only after the manifest replacement succeeds"). The lock of
  the closed workspace is free while its worker still writes, so that worker can
  overwrite what another program committed (`SaverHoldsLock` for workspaces adrift;
  `Overwrite` of `ProjectRegister`).
- The first save of a recorded guide never starts: it has no frame source
  (`FirstSaveStarts`, `update.rs:5335`).
- A share after a save goes by the freshness cached before it
  (`StaleIsNotShared`, `update.rs:4235`); cancelling the publish of a share gate
  leaves the share waiting (`WaitingHasGate`, `update.rs:4083`); the workers of a
  closed and a newly opened workspace may commit together and an old file end up
  as current (`CurrentIsTrue` with `Prompt` FALSE, `project_publish.rs:239`).
- The Linux host answers `Effect::ProjectSaved` with no task
  (`action_guide_linux_product.rs:189`), which drops the publish that follows the save
  of every project that was not imported: its outputs show "Updating" with nobody at
  work. So does the operation left behind by a save whose export job could not be
  built (`update.rs:3789`), since its worker's events are of another revision
  (`EveryUpdateHasWorker`).
- The answer of a final decision about annotations sets the slot to Idle whatever
  it holds, although a new request is not refused meanwhile: its consent prompt, or its
  run, is gone from the screen while the worker goes on (`RequestIsKept`,
  `update.rs:2462`).
- Decisions stay refused for good when the task leaves the review slot before its
  batch answers (`WaitingIsForABatch`, `update.rs:5076`).
- A writer with a stale snapshot that dies after `Prepared` blocks the task's
  journal (`AlwaysResolvable`, `task_store.rs:1161`); a directory that does not
  open after a rename loses an event (`JournalTellsTheStory` with `DirOpenFails`,
  `:705`); a restored review has no liveness lock and is interrupted while it is
  applied (`ApplyIsNotInterrupted`, `:1124`).
- A denied call after results that are too large is not recorded
  (`DenialIsRecorded`, `RA/driver.rs:1723`); the retry after an overflow may be
  dispatched with no model call left (`RetryIsFunded`, `:977`).
- A home-screen message that arrives while a project opens is dropped: a lost
  notification or a lost answer of the file dialog leaves the import waiting for
  ever (`BoundJobWillBeReconciled`, `WaitingHasSource`,
  `action_guide_linux_product.rs:101`). `ImportEnds` excludes it.
- A late toolchain answer starts a recording with motion for a reopened preflight
  whose checkbox is off, if an earlier one was consented to (`MotionNeedsConsent`).
  `MotionFollowsConsent`, which holds, says no more than that some preflight was.

Smaller ones, met while modelling: terminal records exceed their cap of 128 until
the next admission; the tombstone set once full takes no more; a failed
preflight download stays in Resolving; opening the store leaves the prepared
journal of a creation that died before its snapshot; two writers that move one
snapshot to the same status within a millisecond prepare equal receipts; a late
caption result carries no run id, and its review is decided against the snapshot
the screen loaded, not the one persisted; an annotation run without a suggestion
leaves its task Running until restart; the answer of a batch names its task, so one
of an earlier opening ends the wait for a batch of this one, and decisions are then
taken against a snapshot that is about to change; a failed "accept all" leaves the proposal
Idle instead of visible; the spec of annotation reviews has a rebase that the
code calls with revision zero; frames of a wrong size are skipped, and the
images they would have been are not written; an ffmpeg that does not start
leaves an empty scratch directory (`worker.rs:186`); `MotionRecorder::status`
reports a failed recorder as off; in the detector a picture that settles during
the debounce becomes the baseline, so its change is never a step, and an event
polled after the frame that shows its effect takes that frame as baseline.

## 7. Not modelled

- The result workspace: a second client of the driver, the task store and the
  proposal validation modelled here, with an editor of its own. Its update
  function would need a model of the document to be faithful.
- Image document, history and edit proposals: a sequential library on pixel data.
- Automation language, skills and repository access: functions of their inputs.
- Stitcher, vision, OCR, exports, encoding: numeric work out of TLC's reach.
- Capture session, daemon, overlay windows, presets, platform bindings, ffmpeg's
  own behaviour: thin clients of services, or files with one writer.
- Within the modelled parts: progress values, captions, diagnostics, layout,
  digests; the byte format of journals and manifests; the loss of power; an ffmpeg
  that is alive but stalled; the
  media tools and the teaser of the timeline workspace.

`PROJECT.json` lists every component with its status and reason.
