----------------------------- MODULE VideoImport -----------------------------
(***************************************************************************)
(* Importing a recording, from the home screen of the action guide to the  *)
(* timeline (src/crates/rollshot-app/src/action_guide_home and             *)
(* action_guide_linux_product.rs), composed with the job registry.         *)
(*                                                                         *)
(* Three parties interleave: the iced update loop, which handles one       *)
(* message at a time; the tasks it starts (file dialogs, toolchain         *)
(* resolution and download), each of which answers with one message; and   *)
(* one blocking worker per admitted job.  The subscription to the registry *)
(* watch only says "something changed"; the update loop then reads the     *)
(* snapshot (reconcile_import_job).                                        *)
(*                                                                         *)
(* An Option is a set with at most one element.  The three states in which *)
(* a job is bound (Preflight, AnalyzingPass1, ExtractingPass2) differ only *)
(* in the progress text and are one state here, "Importing".               *)
(***************************************************************************)
EXTENDS JobRegistry

CONSTANTS
    MaxOperations,        \* bound: how often the user starts an import
    MaxProjectPickers     \* bound: how many "Open Project" dialogs may be open at once

ASSUME ImportAssumption ==
    /\ MaxOperations \in Nat
    /\ MaxProjectPickers \in Nat

VARIABLES
    import_state,         \* ImportCoordinator.state
    operation_id,         \* the current operation, if any
    next_operation_id,
    job_id,               \* the job bound to the current operation, if any
    tasks,                \* tasks in flight, each to answer with one message
    project_pickers,      \* "Open Project" dialogs not yet answered
    phase,                \* State.phase of the product
    worker,               \* per job: "none", "queued", "importing", "ended", "exited"
    unseen,               \* has the watch changed since the subscription looked?
    notices,              \* ImportJobsChanged messages in flight, by their sender
    abandoned,            \* history: the jobs the user has cancelled
    opened                \* history: the jobs whose result was opened as a timeline

coordinator == <<import_state, operation_id, next_operation_id, job_id>>
product == <<tasks, project_pickers, phase>>
history == <<abandoned, opened>>
import_vars == <<coordinator, product, worker, unseen, notices, history>>

Operations == 0..MaxOperations
Option(S) == {{}} \cup {{x} : x \in S}
Task == [kind : {"PickRecording"}]
            \cup [kind : {"ResolveImportToolchain", "SetupImportToolchain"},
                  operation : Operations]
PickRecording == [kind |-> "PickRecording"]
Resolve(op) == [kind |-> "ResolveImportToolchain", operation |-> op]
Setup(op) == [kind |-> "SetupImportToolchain", operation |-> op]

ImportTypeOK ==
    /\ TypeOK
    /\ import_state \in {"Idle", "Picking", "ResolvingToolchain", "SettingUp",
                         "Importing"}
    /\ operation_id \in Option({op \in Operations : op < next_operation_id})
    /\ next_operation_id \in Operations
    /\ job_id \in Option(Jobs)
    /\ tasks \subseteq Task
    /\ project_pickers \in 0..MaxProjectPickers
    /\ phase \in {"Home", "Opening", "LockConflict", "Timeline"}
    /\ worker \in [Jobs -> {"none", "queued", "importing", "ended", "exited"}]
    /\ unseen \in BOOLEAN
    /\ notices \subseteq Jobs \cup {"watch"}
    /\ abandoned \subseteq Jobs
    /\ opened \subseteq Jobs

ImportInit ==
    /\ Init
    /\ import_state = "Idle"
    /\ operation_id = {}
    /\ next_operation_id = 0
    /\ job_id = {}
    /\ tasks = {}
    /\ project_pickers = 0
    /\ phase = "Home"
    /\ worker = [j \in Jobs |-> "none"]
    /\ unseen = FALSE
    /\ notices = {}
    /\ abandoned = {}
    /\ opened = {}

-----------------------------------------------------------------------------
(* ImportCoordinator                                                       *)
FinishIdle ==
    /\ import_state' = "Idle"
    /\ operation_id' = {}
    /\ job_id' = {}
    /\ UNCHANGED next_operation_id

Begin ==
    /\ operation_id' = {next_operation_id}
    /\ next_operation_id' = next_operation_id + 1
    /\ import_state' = "ResolvingToolchain"
    /\ job_id' = {}

BindJob(j) ==
    /\ job_id' = {j}
    /\ import_state' = "Importing"
    /\ UNCHANGED <<operation_id, next_operation_id>>

MarkSettingUp ==
    /\ import_state' = "SettingUp"
    /\ UNCHANGED <<operation_id, next_operation_id, job_id>>

-----------------------------------------------------------------------------
(* Messages to the home screen.  They are dropped outside Phase::Home, and *)
(* the update loop is busy while Cancel runs the job's callback.           *)
UpdateLoopFree == callbacks = {}
AtHome == phase = "Home" /\ UpdateLoopFree

(* The buttons of home_view, which is shown only when nothing is imported. *)
ImportRecording ==
    /\ AtHome /\ import_state = "Idle" /\ next_operation_id < MaxOperations
    /\ import_state' = "Picking"
    /\ tasks' = tasks \cup {PickRecording}
    /\ UNCHANGED <<operation_id, next_operation_id, job_id, project_pickers,
                   phase, worker, unseen, notices, history, vars>>

OpenPicker ==
    /\ AtHome /\ import_state = "Idle" /\ project_pickers < MaxProjectPickers
    /\ project_pickers' = project_pickers + 1
    /\ UNCHANGED <<coordinator, tasks, phase, worker, unseen, notices, history, vars>>

RecentSelected ==
    /\ AtHome /\ import_state = "Idle"
    /\ phase' = "Opening"
    /\ UNCHANGED <<coordinator, tasks, project_pickers, worker, unseen,
                   notices, history, vars>>

Answered(t) == t \in tasks /\ AtHome

ImportPickerSelected ==
    /\ Answered(PickRecording)
    /\ Begin
    /\ tasks' = (tasks \ {PickRecording}) \cup {Resolve(next_operation_id)}
    /\ UNCHANGED <<project_pickers, phase, worker, unseen, notices, history, vars>>

(* The dialog was cancelled, or the file has no video extension.           *)
ImportPickerCancelled ==
    /\ Answered(PickRecording)
    /\ FinishIdle
    /\ tasks' = tasks \ {PickRecording}
    /\ UNCHANGED <<project_pickers, phase, worker, unseen, notices, history, vars>>

ToolchainAvailableLate(op, j) ==     \* mutant: stale answers are not ignored
    /\ Answered(Resolve(op))
    /\ Admitted(j)
    /\ BindJob(j)
    /\ tasks' = tasks \ {Resolve(op)}
    /\ worker' = [worker EXCEPT ![j] = "queued"]
    /\ unseen' = TRUE
    /\ UNCHANGED <<project_pickers, phase, notices, history>>

(* ImportToolchainResolved, Available: admit a job, bind it, start it.     *)
ToolchainAvailable(op, j) ==
    /\ Answered(Resolve(op))
    /\ op \in operation_id
    /\ Admitted(j)
    /\ BindJob(j)
    /\ tasks' = tasks \ {Resolve(op)}
    /\ worker' = [worker EXCEPT ![j] = "queued"]
    /\ unseen' = TRUE
    /\ UNCHANGED <<project_pickers, phase, notices, history>>

ToolchainAvailableRefused(op) ==
    /\ Answered(Resolve(op))
    /\ op \in operation_id
    /\ AdmitRefused
    /\ FinishIdle
    /\ tasks' = tasks \ {Resolve(op)}
    /\ UNCHANGED <<project_pickers, phase, worker, unseen, notices, history>>

ToolchainNeedsSetup(op) ==
    /\ Answered(Resolve(op))
    /\ op \in operation_id
    /\ MarkSettingUp
    /\ tasks' = (tasks \ {Resolve(op)}) \cup {Setup(op)}
    /\ UNCHANGED <<project_pickers, phase, worker, unseen, notices, history, vars>>

ImportSetupFinished(op, ok) ==
    /\ Answered(Setup(op))
    /\ op \in operation_id
    /\ IF ok
       THEN /\ tasks' = (tasks \ {Setup(op)}) \cup {Resolve(op)}
            /\ UNCHANGED coordinator
       ELSE /\ tasks' = tasks \ {Setup(op)}
            /\ FinishIdle
    /\ UNCHANGED <<project_pickers, phase, worker, unseen, notices, history, vars>>

(* An answer for an operation that has moved on, or to a screen that is    *)
(* not shown.                                                              *)
AnswerIgnored(t) ==
    /\ t \in tasks /\ UpdateLoopFree
    /\ phase # "Home" \/ (t # PickRecording /\ t.operation \notin operation_id)
    /\ tasks' = tasks \ {t}
    /\ UNCHANGED <<coordinator, project_pickers, phase, worker, unseen,
                   notices, history, vars>>

CancelJobIfActive(j) ==              \* mutant: detaches only if cancel succeeds
    /\ AtHome /\ j \in job_id
    /\ \/ Cancel(j) /\ unseen' = TRUE /\ FinishIdle
       \/ j \notin Cancellable /\ UNCHANGED <<vars, unseen, coordinator>>
    /\ abandoned' = abandoned \cup {j}
    /\ UNCHANGED <<product, worker, notices, opened>>

(* CancelImport.  A job that has ended cannot be cancelled; the screen     *)
(* detaches from it all the same.                                          *)
CancelJob(j) ==
    /\ AtHome /\ j \in job_id
    /\ \/ Cancel(j) /\ unseen' = TRUE
       \/ j \notin Cancellable /\ UNCHANGED <<vars, unseen>>
    /\ FinishIdle
    /\ abandoned' = abandoned \cup {j}
    /\ UNCHANGED <<product, worker, notices, opened>>

CancelBeforeJob ==
    /\ AtHome /\ job_id = {} /\ operation_id # {}
    /\ FinishIdle
    /\ UNCHANGED <<product, worker, unseen, notices, history, vars>>

-----------------------------------------------------------------------------
(* reconcile_import_job, the handler of ImportJobsChanged.                 *)
Notice(n) ==
    /\ n \in notices /\ AtHome
    /\ notices' = notices \ {n}

NothingToReconcileBut(n) ==          \* mutant: a failed job is passed over
    /\ Notice(n)
    /\ \A j \in job_id : j \in DOMAIN jobs /\ jobs[j].state # "Succeeded"
    /\ UNCHANGED <<coordinator, product, worker, unseen, history, vars>>

(* No job is bound, or the bound one is still at work.                     *)
NothingToReconcile(n) ==
    /\ Notice(n)
    /\ job_id \subseteq Active(jobs)
    /\ UNCHANGED <<coordinator, product, worker, unseen, history, vars>>

(* Failed, cancelled, or evicted.                                          *)
ReconcileEnded(n) ==
    /\ Notice(n)
    /\ \E j \in job_id : j \in DOMAIN jobs => jobs[j].state \in {"Failed", "Cancelled"}
    /\ FinishIdle
    /\ UNCHANGED <<product, worker, unseen, history, vars>>

(* Collect once and open the timeline.                                     *)
ReconcileSucceeded(n) ==
    /\ Notice(n)
    /\ \E j \in job_id :
          /\ Collected(j)
          /\ opened' = opened \cup {j}
    /\ FinishIdle
    /\ phase' = "Timeline"
    /\ UNCHANGED <<tasks, project_pickers, worker, unseen, abandoned>>

(* The result has expired, perhaps in this very call of collect.           *)
ReconcileExpired(n) ==
    /\ Notice(n)
    /\ \E j \in job_id \cap DOMAIN jobs : jobs[j].state = "Succeeded"
    /\ Prune
    /\ \A j \in job_id : j \in DOMAIN jobs' => ~jobs'[j].result
    /\ FinishIdle
    /\ UNCHANGED <<product, worker, unseen, history>>

NoticeIgnored(n) ==
    /\ n \in notices /\ phase # "Home" /\ UpdateLoopFree
    /\ notices' = notices \ {n}
    /\ UNCHANGED <<coordinator, product, worker, unseen, history, vars>>

(* The subscription stream sees the watch change and sends one message;    *)
(* its channel holds one, so changes coalesce.  It runs unless the         *)
(* timeline is shown.                                                      *)
WatchChanged ==
    /\ phase # "Timeline" /\ unseen /\ "watch" \notin notices
    /\ unseen' = FALSE
    /\ notices' = notices \cup {"watch"}
    /\ UNCHANGED <<coordinator, product, worker, history, vars>>

-----------------------------------------------------------------------------
(* Opening a project, and coming back.                                     *)
ProjectPickerAnswered(p) ==
    /\ project_pickers > 0 /\ UpdateLoopFree
    /\ p = phase \/ (phase = "Home" /\ p = "Opening")
    /\ phase' = p
    /\ project_pickers' = project_pickers - 1
    /\ UNCHANGED <<coordinator, tasks, worker, unseen, notices, history, vars>>

Opened(p) ==
    /\ UpdateLoopFree
    /\ \/ phase = "Opening" /\ p \in {"Home", "LockConflict", "Timeline"}
       \/ phase = "LockConflict" /\ p \in {"Home", "Opening"}
    /\ phase' = p
    /\ UNCHANGED <<coordinator, tasks, project_pickers, worker, unseen,
                   notices, history, vars>>

(* The subscription starts afresh, from the receiver made with the         *)
(* registry: every change there ever was counts as unseen.                 *)
CloseWorkspace ==
    /\ phase = "Timeline" /\ UpdateLoopFree
    /\ phase' = "Home"
    /\ unseen' = \E j \in Jobs : reporter[j] # "none"
    /\ UNCHANGED <<coordinator, tasks, project_pickers, worker, notices,
                   history, vars>>

-----------------------------------------------------------------------------
(* The worker, run_import_task.                                            *)
WorkerStep(j, from, to) ==
    /\ worker[j] = from
    /\ worker' = [worker EXCEPT ![j] = to]
    /\ UNCHANGED <<coordinator, product, history>>

Start(j) ==
    /\ WorkerStep(j, "queued", "importing")
    /\ MarkRunning(j)
    /\ unseen' = TRUE
    /\ UNCHANGED notices

(* mark_running refuses a job that was cancelled before it started.        *)
StartRefused(j) ==
    /\ WorkerStep(j, "queued", "ended")
    /\ j \in DOMAIN jobs => jobs[j].state # "Starting"
    /\ UNCHANGED <<unseen, notices, vars>>

Progress(j) ==
    /\ WorkerStep(j, "importing", "importing")
    /\ ReportProgress(j)
    /\ unseen' = TRUE
    /\ UNCHANGED notices

(* import_video returns: with a seed, an error, or, once it has seen the   *)
(* cancellation flag, with Cancelled.                                      *)
Report(j) ==
    /\ WorkerStep(j, "importing", "ended")
    /\ Succeed(j) \/ Fail(j) \/ (j \in signalled /\ Cancelled(j))
    /\ unseen' = TRUE
    /\ UNCHANGED notices

(* The closure ends: the reporter is dropped, and the task's own message   *)
(* follows.                                                                *)
Exit(j) ==
    /\ WorkerStep(j, "ended", "exited")
    /\ DropReporter(j)
    /\ unseen' = (unseen \/ jobs' # jobs)
    /\ notices' = notices \cup {j}

CallbackRuns(j) == InvokeCallback(j) /\ UNCHANGED import_vars
TimePasses == Tick /\ UNCHANGED import_vars

-----------------------------------------------------------------------------
HomeStep ==
    \/ ImportRecording \/ OpenPicker \/ RecentSelected
    \/ ImportPickerSelected \/ ImportPickerCancelled \/ CancelBeforeJob
    \/ \E j \in Jobs : CancelJob(j)
    \/ \E op \in Operations :
          \/ \E j \in Jobs : ToolchainAvailable(op, j)
          \/ ToolchainAvailableRefused(op) \/ ToolchainNeedsSetup(op)
          \/ \E ok \in BOOLEAN : ImportSetupFinished(op, ok)
    \/ \E t \in tasks : AnswerIgnored(t)

ReconcileStep ==
    \E n \in Jobs \cup {"watch"} :
        \/ NothingToReconcile(n) \/ ReconcileEnded(n) \/ ReconcileSucceeded(n)
        \/ ReconcileExpired(n) \/ NoticeIgnored(n)

ProjectStep ==
    \/ \E p \in {"Home", "Opening", "LockConflict", "Timeline"} :
          ProjectPickerAnswered(p) \/ Opened(p)
    \/ CloseWorkspace

WorkerEnds(j) == Start(j) \/ StartRefused(j) \/ Report(j) \/ Exit(j)

ImportNext ==
    \/ HomeStep \/ ReconcileStep \/ WatchChanged \/ ProjectStep \/ TimePasses
    \/ \E j \in Jobs : WorkerEnds(j) \/ Progress(j) \/ CallbackRuns(j)

all_vars == <<vars, import_vars>>

(* The executor runs what is ready: messages are handled, callbacks and    *)
(* the stream run, and a worker that is not stuck in the decoder returns.  *)
(* Nothing is assumed of the user.                                         *)
ImportFairness ==
    /\ WF_all_vars(ReconcileStep)
    /\ WF_all_vars(WatchChanged)
    /\ \A j \in Jobs : WF_all_vars(WorkerEnds(j)) /\ WF_all_vars(CallbackRuns(j))

ImportSpec == ImportInit /\ [][ImportNext]_all_vars
FairImportSpec == ImportSpec /\ ImportFairness
-----------------------------------------------------------------------------
(* No import runs, and no slot is taken, behind the user's back: a job     *)
(* that is active or holds a result is the one the home screen is bound    *)
(* to, or one the user cancelled, and then, if active, is on its way out.  *)
(* Late answers and stale operations never start a second import.          *)
ReservedIsBoundOrCancelled ==
    \A j \in Reserved(jobs) \ job_id :
        /\ j \in abandoned
        /\ j \in Active(jobs) => jobs[j].state = "Cancelling"

(* While the home screen waits, what it waits for is still to come: the    *)
(* file dialog, the resolution or the download of its own operation. True  *)
(* unless a project dialog is open as well (see ImportEnds).               *)
WaitingHasSource ==
    /\ import_state = "Picking" => PickRecording \in tasks
    /\ import_state = "ResolvingToolchain" => \E op \in operation_id : Resolve(op) \in tasks
    /\ import_state = "SettingUp" =>
          \E op \in operation_id : {Setup(op), Resolve(op)} \cap tasks # {}

(* A lost or coalesced notification is repaired: when the bound job has    *)
(* ended, another look at the registry is still to come. True unless a     *)
(* project dialog is open as well (see ImportEnds).                        *)
BoundJobWillBeReconciled ==
    \A j \in job_id \ Active(jobs) :
        unseen \/ {"watch", j} \cap notices # {} \/ worker[j] # "exited"

(* An import the user cancelled never opens, however late its result.      *)
CancelledNeverOpens == opened \cap abandoned = {}

(* A bound import always ends and the home screen becomes usable again,    *)
(* unless the user has a project dialog open as well: the notification     *)
(* that arrives while the project of its answer opens is dropped           *)
(* (src/crates/rollshot-app/src/action_guide_home/update.rs:802).          *)
ImportEnds ==
    [](project_pickers = 0) => \A j \in Jobs : (j \in job_id) ~> (j \notin job_id)

(* A cancelled import gives up its slot: every worker whose callback ran,  *)
(* or was about to run, lets its job end.                                  *)
CancelledEnds ==
    \A j \in Jobs : (j \in abandoned) ~> (j \notin Active(jobs))
=============================================================================
