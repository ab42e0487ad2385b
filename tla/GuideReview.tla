----------------------------- MODULE GuideReview -----------------------------
(***************************************************************************)
(* An agent's suggestions for an action guide, from the request to the     *)
(* recorded decision (rollshot-app/timeline_workspace): captions for its   *)
(* steps, or annotations of the selected step.  A worker prepares what the *)
(* model sees, runs it under a durable task and promotes the suggestions;  *)
(* the workspace shows them; every decision is applied to the guide in     *)
(* memory at once and recorded by a background batch of transactions,      *)
(* each a compare-and-swap on the snapshot the screen holds.               *)
(* Task r belongs to run r: a run creates one task.                        *)
(***************************************************************************)
EXTENDS Naturals, FiniteSets

CONSTANTS
    Kinds,         \* which suggestions are explored: "captions", "visual"
    Suggestions,   \* the steps captioned, or the annotations suggested
    MaxRuns,       \* bound: runs the user asks for
    MaxTexts,      \* bound: texts 1..MaxTexts the user gives a step
    MaxTrouble     \* bound, for each kind: edits, saves, repeated openings, failed
                   \* transactions and (counted twice) repeated runs, all together

ASSUME ReviewAssumption ==
    /\ Kinds \subseteq {"captions", "visual"}
    /\ MaxRuns \in Nat \ {0} /\ MaxTexts \in Nat
    /\ MaxTrouble \in [Kinds -> Nat]

VARIABLES
    kind,      \* the suggestions followed here
    guide,     \* the open guide: its text, the text it was loaded with, whether it is saved
    disk,      \* the saved project: revision and text
    tasks,     \* the durable tasks, in the store
    runs,      \* the background workers
    screen,    \* the review slot of the open workspace
    batches,   \* decisions being recorded
    opens,     \* how often the project was opened
    edits,     \* edits of the guide so far
    faults,    \* transactions that failed so far
    written    \* history: suggestions written into the guide since it was opened

vars == <<kind, guide, disk, tasks, runs, screen, batches, opens, edits, faults, written>>

Runs == 1..MaxRuns
NoTask == 0
Texts == [Suggestions -> 0..(MaxTexts + MaxRuns)]
SuggestedBy(r) == MaxTexts + r      \* the text run r suggests for a step

Active == {"Created", "Running", "ReadyForReview", "Applying"}
Final == {"Completed", "Rejected"}
TaskStatus == Active \cup Final \cup {"None", "Stale", "Failed", "Interrupted"}
Decisions == {"Pending", "Accepted", "Rejected", "Stale"}
Undecided == [s \in Suggestions |-> "Pending"]
Blank == [s \in Suggestions |-> 0]

IdleScreen(open) ==
    [open |-> open, id |-> 0, running |-> FALSE, consent |-> FALSE, task |-> NoTask,
     shown |-> FALSE, items |-> Undecided, base |-> Blank, snap |-> "None",
     waiting |-> FALSE, late |-> {}, crossed |-> FALSE]

Loaded(text) == [text |-> text, loaded |-> text, clean |-> TRUE]

Init ==
    /\ kind \in Kinds
    /\ disk = [rev |-> 0, text |-> Blank]
    /\ guide = Loaded(disk.text)
    /\ tasks = [r \in Runs |-> [status |-> "None", live |-> FALSE, applied |-> {}]]
    /\ runs = [r \in Runs |-> [pc |-> "idle", id |-> 0, cancelled |-> FALSE,
                               durable |-> FALSE, rev |-> 0, base |-> Blank,
                               result |-> "none", excused |-> FALSE]]
    /\ screen = IdleScreen(TRUE)
    /\ batches = {}
    /\ opens = 1
    /\ edits = 0
    /\ faults = 0
    /\ written = {}

(* Every scenario takes its choice of at most MaxTrouble disturbances.     *)
Repeats == IF runs[1].pc = "idle" THEN 0
           ELSE Cardinality({r \in Runs : runs[r].pc # "idle"}) - 1
Trouble == edits + disk.rev + faults + (opens - 1) + 2 * Repeats
Stirs == Trouble < MaxTrouble[kind]
MayRepeat == runs[1].pc = "idle" \/ Trouble + 2 <= MaxTrouble[kind]

-----------------------------------------------------------------------------
(* A transaction moves task t between two statuses if the store still      *)
(* holds the first.  One that fails is either lost or reported as failed   *)
(* although it was committed, as when only its audit record is missing.    *)

Moved(t, to, applied) ==
    [tasks EXCEPT ![t] = [status |-> to, live |-> @.live /\ to \in Active,
                          applied |-> applied]]

Transaction(t, from, to, applied) ==
    LET next == IF tasks[t].status = from THEN Moved(t, to, applied) ELSE tasks IN
    {[tasks |-> next, ok |-> tasks[t].status = from, faults |-> faults]}
      \cup {[tasks |-> n, ok |-> FALSE, faults |-> faults + 1] :
            n \in IF Stirs THEN {tasks, next} ELSE {}}

CommitAs(o) == tasks' = o.tasks /\ faults' = o.faults

Goes(r, pc, result, excused) ==
    runs' = [runs EXCEPT ![r] = [@ EXCEPT !.pc = pc, !.result = result,
                                          !.excused = excused]]
GoesOn(r, pc) == Goes(r, pc, runs[r].result, runs[r].excused)
Done(r) == runs' = [runs EXCEPT ![r] = [@ EXCEPT !.pc = "done", !.id = 0, !.result = "none",
                                                 !.cancelled = FALSE]]

(* The review leaves the screen; the task it was about keeps the slot.     *)
Hidden(on) == [on EXCEPT !.shown = FALSE, !.items = Undecided, !.base = Blank]

Refusal == IF kind = "captions" THEN "err" ELSE "none"

-----------------------------------------------------------------------------
(* The worker.  A run on a saved, clean guide reads the project again;     *)
(* another works from the guide it was given.                              *)
Prepare(r) ==
    /\ runs[r].pc = "prepare"
    /\ LET readable == runs[r].durable => disk.rev = runs[r].rev IN
       CASE kind = "captions" ->
              runs' = [runs EXCEPT ![r] =
                         [@ EXCEPT !.pc = "prepared",
                                   !.base = IF runs[r].durable THEN disk.text ELSE runs[r].base,
                                   !.result = IF readable THEN "ok" ELSE "err"]]
         [] OTHER ->
              IF readable THEN GoesOn(r, "create") ELSE Goes(r, "answer", "none", FALSE)
    /\ UNCHANGED <<kind, guide, disk, tasks, screen, batches, opens, edits, faults, written>>

(* The workspace gets the prepared caption context and starts the worker,  *)
(* unless the guide has changed or no provider can be set up.              *)
CaptionContextPrepared(r) ==
    /\ runs[r].pc = "prepared"
    /\ IF ~screen.open \/ runs[r].id # screen.id
       THEN Done(r) /\ UNCHANGED screen
       ELSE \/ Done(r) /\ screen' = [screen EXCEPT !.running = FALSE]
            \/ /\ runs[r].result = "ok" /\ (runs[r].durable => guide.clean)
               /\ GoesOn(r, "create")
               /\ UNCHANGED screen
    /\ UNCHANGED <<kind, guide, disk, tasks, batches, opens, edits, faults, written>>

CreateTask(r) ==
    /\ runs[r].pc = "create"
    /\ \/ /\ tasks' = [tasks EXCEPT ![r] = [@ EXCEPT !.status = "Created", !.live = TRUE]]
          /\ GoesOn(r, "start")
          /\ UNCHANGED faults
       \/ /\ Stirs
          /\ faults' = faults + 1
          /\ \/ UNCHANGED tasks
             \/ tasks' = [tasks EXCEPT ![r] = [@ EXCEPT !.status = "Created", !.live = TRUE]]
          /\ Goes(r, "answer", "err", TRUE)
    /\ UNCHANGED <<kind, guide, disk, screen, batches, opens, edits, written>>

StartAttempt(r) ==
    /\ runs[r].pc = "start"
    /\ \E o \in Transaction(r, "Created", "Running", {}) :
         /\ CommitAs(o)
         /\ IF o.ok THEN GoesOn(r, "work")
                    ELSE Goes(r, "fail", Refusal, TRUE)
    /\ UNCHANGED <<kind, guide, disk, screen, batches, opens, edits, written>>

(* The model suggests, declines (annotations only), or the run fails or is *)
(* cancelled.  A declined run leaves its task as it is.                    *)
Work(r) ==
    /\ runs[r].pc = "work"
    /\ \/ ~runs[r].cancelled /\ GoesOn(r, "promote")
       \/ ~runs[r].cancelled /\ kind = "visual" /\ Goes(r, "answer", "none", TRUE)
       \/ Goes(r, "fail", Refusal, FALSE)
    /\ UNCHANGED <<kind, guide, disk, tasks, screen, batches, opens, edits, faults, written>>

(* After a promotion reported as failed the annotation worker looks what   *)
(* the store holds; the caption worker records a failure at once.          *)
Promote(r) ==
    /\ runs[r].pc = "promote"
    /\ \E o \in Transaction(r, "Running", "ReadyForReview", {}) :
         /\ CommitAs(o)
         /\ IF o.ok \/ (kind = "visual" /\ o.tasks[r].status = "ReadyForReview")
            THEN Goes(r, "answer", "ok", FALSE)
            ELSE Goes(r, "fail", Refusal, FALSE)
    /\ UNCHANGED <<kind, guide, disk, screen, batches, opens, edits, written>>

(* A terminal is recorded on a task the store holds as running.            *)
(* mutant: a failed run only reports to the workspace.                     *)
PersistTerminalNot(r) ==
    /\ runs[r].pc = "fail"
    /\ GoesOn(r, "answer")
    /\ UNCHANGED <<kind, guide, disk, tasks, screen, batches, opens, edits, faults, written>>

PersistTerminal(r) ==
    /\ runs[r].pc = "fail"
    /\ IF tasks[r].status = "Running"
       THEN \E o \in Transaction(r, "Running", "Failed", {}) :
              /\ CommitAs(o)
              /\ Goes(r, "answer", Refusal, ~o.ok)
       ELSE GoesOn(r, "answer") /\ UNCHANGED <<tasks, faults>>
    /\ UNCHANGED <<kind, guide, disk, screen, batches, opens, edits, written>>

Show(t, base) ==
    screen' = [screen EXCEPT !.running = FALSE, !.shown = TRUE, !.task = t,
                             !.items = Undecided, !.base = base,
                             !.snap = "ReadyForReview"]

(* The worker's result reaches the open workspace.  For captions it names  *)
(* no run; for annotations it must name the run on screen.                 *)
(* mutant: only a result with suggestions ends the wait.                   *)
ProposalLoadedOnly(r) ==
    /\ runs[r].pc = "answer"
    /\ Done(r)
    /\ IF /\ screen.open /\ runs[r].result = "ok"
          /\ kind = "captions" \/ (screen.running /\ runs[r].id = screen.id)
       THEN Show(r, runs[r].base)
       ELSE UNCHANGED screen
    /\ UNCHANGED <<kind, guide, disk, tasks, batches, opens, edits, faults, written>>

ProposalLoaded(r) ==
    /\ runs[r].pc = "answer"
    /\ Done(r)
    /\ CASE ~screen.open \/ (kind = "visual" /\ (~screen.running \/ runs[r].id # screen.id)) ->
              UNCHANGED screen
         [] OTHER ->
              CASE runs[r].result = "ok" -> Show(r, runs[r].base)
                [] runs[r].result = "err" /\ kind = "visual" ->
                     screen' = [screen EXCEPT !.running = FALSE, !.task = NoTask,
                                              !.snap = "None"]
                [] OTHER -> screen' = [screen EXCEPT !.running = FALSE]
    /\ UNCHANGED <<kind, guide, disk, tasks, batches, opens, edits, faults, written>>

-----------------------------------------------------------------------------
(* Asking for suggestions.  A new run takes the next unused number.        *)
Begin(r) ==
    /\ runs[r].pc = "idle" /\ MayRepeat
    /\ \A q \in Runs : q < r => runs[q].pc # "idle"
    /\ runs' = [runs EXCEPT ![r] =
                  [@ EXCEPT !.pc = "prepare", !.id = screen.id + 1,
                            !.durable = guide.clean, !.rev = disk.rev,
                            !.base = guide.text]]
    /\ screen' = [screen EXCEPT !.id = @ + 1, !.running = TRUE, !.consent = FALSE]
    /\ UNCHANGED <<kind, guide, disk, tasks, batches, opens, edits, faults, written>>

SuggestCaptionsRequested(r) ==
    /\ kind = "captions" /\ screen.open
    /\ ~screen.running /\ ~screen.waiting
    /\ Begin(r)

(* The consent question takes the place of whatever review is on screen.   *)
SuggestVisualAnnotationsRequested ==
    /\ kind = "visual" /\ screen.open
    /\ ~screen.running /\ ~screen.consent
    /\ screen' = [Hidden(screen) EXCEPT !.consent = TRUE]
    /\ UNCHANGED <<kind, guide, disk, tasks, runs, batches, opens, edits, faults, written>>

VisualSuggestionConsentConfirmed(r) ==
    /\ screen.consent
    /\ Begin(r)

Cancelled ==
    [r \in Runs |-> [runs[r] EXCEPT !.cancelled =
                       @ \/ (screen.running /\ runs[r].id = screen.id
                               /\ runs[r].pc \in {"prepare", "prepared", "create", "start",
                                                   "work"})]]

CancelVisualAnnotationSuggestion ==
    /\ kind = "visual"
    /\ screen.running \/ screen.consent
    /\ runs' = Cancelled
    /\ screen' = [screen EXCEPT !.running = FALSE, !.consent = FALSE]
    /\ UNCHANGED <<kind, guide, disk, tasks, batches, opens, edits, faults, written>>

-----------------------------------------------------------------------------
(* Deciding.  The decision is applied to the guide and put in the hands of *)
(* one background batch; until it answers no other decision is taken.      *)
Schedule(items, base, shown) ==
    /\ batches' = batches \cup {[task |-> screen.task, snap |-> screen.snap, open |-> opens,
                                 items |-> items, pc |-> "begin", ok |-> FALSE]}
    /\ LET next == [screen EXCEPT !.items = items, !.base = base, !.waiting = TRUE] IN
       screen' = IF shown THEN next ELSE Hidden(next)

(* mutant: decisions are taken while one is being recorded.                *)
MayDecideMeanwhile == screen.open /\ screen.shown

MayDecide == screen.open /\ screen.shown /\ ~screen.waiting

Write(S) ==
    /\ guide' = [guide EXCEPT
                   !.text = [s \in Suggestions |->
                               IF s \in S THEN SuggestedBy(screen.task) ELSE @[s]],
                   !.clean = @ /\ S = {}]
    /\ written' = written \cup ({screen.task} \X S)

(* A caption suggested for a saved project applies to a clean one only at  *)
(* the same revision; otherwise each step must read as the model saw it.   *)
RevisionFits == runs[screen.task].durable /\ guide.clean => runs[screen.task].rev = disk.rev

(* mutant: the revision alone decides whether captions fit.                *)
FittingByRevision == IF kind = "captions"
                     THEN {s \in Suggestions : RevisionFits}
                     ELSE {s \in Suggestions : guide.text = screen.base}

Fitting == IF kind = "captions"
           THEN {s \in Suggestions : RevisionFits /\ guide.text[s] = screen.base[s]}
           ELSE {s \in Suggestions : guide.text = screen.base}

PendingIn(items) == {s \in Suggestions : items[s] = "Pending"}

Accept(S, shown) ==
    LET good == S \cap Fitting
        items == [s \in Suggestions |->
                    IF s \notin S THEN screen.items[s]
                    ELSE IF s \in good THEN "Accepted" ELSE "Stale"]
    IN /\ Write(good)
       /\ Schedule(items, IF kind = "visual" /\ good # {} THEN guide'.text ELSE screen.base,
                   shown)
       /\ UNCHANGED <<kind, disk, tasks, runs, opens, edits, faults>>

AcceptSuggestion(s) ==
    /\ MayDecide /\ s \in PendingIn(screen.items)
    /\ Accept({s}, TRUE)

(* Accepting all annotations takes the review off the screen at once.      *)
AcceptAllSuggestions ==
    /\ MayDecide
    /\ Accept(PendingIn(screen.items), kind = "captions")

Reject(S) ==
    /\ Schedule([s \in Suggestions |-> IF s \in S THEN "Rejected" ELSE screen.items[s]],
                screen.base, TRUE)
    /\ UNCHANGED <<kind, guide, disk, tasks, runs, opens, edits, faults, written>>

RejectSuggestion(s) ==
    /\ MayDecide /\ s \in PendingIn(screen.items)
    /\ Reject({s})

RejectVisualAnnotationSuggestion ==
    /\ kind = "visual" /\ MayDecide
    /\ Reject(PendingIn(screen.items))

(* Dismissing only takes the review off the screen.                        *)
DismissProposal ==
    /\ screen.open /\ screen.shown
    /\ screen' = Hidden(screen)
    /\ UNCHANGED <<kind, guide, disk, tasks, runs, batches, opens, edits, faults, written>>

-----------------------------------------------------------------------------
(* Recording.  A batch works from the snapshot the screen held when it was *)
(* scheduled: it enters Applying first, and ends the task once nothing is  *)
(* pending.                                                                *)
Batch(b, changed) == batches' = (batches \ {b}) \cup {changed}

(* mutant: a suggestion found stale counts as applied.                     *)
AcceptedInOrStale(items) == {s \in Suggestions : items[s] \notin {"Pending", "Rejected"}}

AcceptedIn(items) == {s \in Suggestions : items[s] = "Accepted"}

(* mutant: the batch answers with the snapshot it started from.            *)
BeginApplyKeepsSnapshot(b) ==
    /\ b.pc = "begin"
    /\ IF b.snap = "ReadyForReview"
       THEN \E o \in Transaction(b.task, "ReadyForReview", "Applying", {}) :
              /\ CommitAs(o)
              /\ Batch(b, [b EXCEPT !.pc = IF o.ok THEN "final" ELSE "answer"])
       ELSE Batch(b, [b EXCEPT !.pc = "final"]) /\ UNCHANGED <<tasks, faults>>
    /\ UNCHANGED <<kind, guide, disk, runs, screen, opens, edits, written>>

BeginApply(b) ==
    /\ b.pc = "begin"
    /\ IF b.snap = "ReadyForReview"
       THEN \E o \in Transaction(b.task, "ReadyForReview", "Applying", {}) :
              /\ CommitAs(o)
              /\ Batch(b, IF o.ok THEN [b EXCEPT !.pc = "final", !.snap = "Applying"]
                                  ELSE [b EXCEPT !.pc = "answer"])
       ELSE Batch(b, [b EXCEPT !.pc = "final"]) /\ UNCHANGED <<tasks, faults>>
    /\ UNCHANGED <<kind, guide, disk, runs, screen, opens, edits, written>>

Outcome(items) == IF AcceptedIn(items) = {} THEN "Rejected" ELSE "Completed"

FinishApply(b) ==
    /\ b.pc = "final"
    /\ IF PendingIn(b.items) # {}
       THEN Batch(b, [b EXCEPT !.pc = "answer", !.ok = TRUE]) /\ UNCHANGED <<tasks, faults>>
       ELSE IF b.snap # "Applying"
       THEN Batch(b, [b EXCEPT !.pc = "answer"]) /\ UNCHANGED <<tasks, faults>>
       ELSE \E o \in Transaction(b.task, "Applying", Outcome(b.items), AcceptedIn(b.items)) :
              /\ CommitAs(o)
              /\ Batch(b, IF o.ok
                          THEN [b EXCEPT !.pc = "answer", !.ok = TRUE, !.snap = Outcome(b.items)]
                          ELSE [b EXCEPT !.pc = "answer"])
    /\ UNCHANGED <<kind, guide, disk, runs, screen, opens, edits, written>>

(* The answer is matched with the slot by the task alone; the screen's     *)
(* history "crossed" remembers one that was meant for an earlier opening.  *)
(* A final decision ends what the slot shows: for captions the review, for *)
(* annotations whatever is there, a question or a run of a newer request   *)
(* too.  That run goes on, and its result is ignored.                      *)
Emptied(on) ==
    IF kind = "captions" THEN Hidden(on)
    ELSE [Hidden(on) EXCEPT !.running = FALSE, !.consent = FALSE]

ReviewPersisted(b) ==
    /\ b.pc = "answer"
    /\ batches' = batches \ {b}
    /\ IF screen.open /\ screen.task = b.task
       THEN LET next == [screen EXCEPT !.waiting = FALSE, !.snap = IF b.ok THEN b.snap ELSE @,
                                       !.crossed = @ \/ b.open # opens] IN
            screen' = IF b.ok /\ b.snap \in Final THEN Emptied(next) ELSE next
       ELSE UNCHANGED screen
    /\ UNCHANGED <<kind, guide, disk, tasks, runs, opens, edits, faults, written>>

-----------------------------------------------------------------------------
(* The user at the guide.  An edit of the annotations, or leaving the step,*)
(* takes their review away and marks an untouched task stale.              *)
DismissStaleReview ==
    IF kind = "visual" /\ screen.shown
    THEN /\ screen' = [Hidden(screen) EXCEPT !.task = NoTask, !.snap = "None"]
         /\ IF screen.snap = "ReadyForReview"
            THEN \E o \in Transaction(screen.task, "ReadyForReview", "Stale", {}) : CommitAs(o)
            ELSE UNCHANGED <<tasks, faults>>
    ELSE UNCHANGED <<screen, tasks, faults>>

Edit(s, v) ==
    /\ screen.open /\ v # guide.text[s] /\ Stirs
    /\ edits' = edits + 1
    /\ guide' = [guide EXCEPT !.text[s] = v, !.clean = FALSE]
    /\ DismissStaleReview
    /\ UNCHANGED <<kind, disk, runs, batches, opens, written>>

SelectStep ==
    /\ kind = "visual" /\ screen.open /\ screen.shown
    /\ DismissStaleReview
    /\ UNCHANGED <<kind, guide, disk, runs, batches, opens, edits, written>>

Save ==
    /\ screen.open /\ ~guide.clean /\ Stirs
    /\ disk' = [rev |-> disk.rev + 1, text |-> guide.text]
    /\ guide' = [guide EXCEPT !.clean = TRUE]
    /\ UNCHANGED <<kind, tasks, runs, screen, batches, opens, edits, faults, written>>

-----------------------------------------------------------------------------
(* Tasks of this project in the store are reconciled with what the project *)
(* reads now; a review left ready that still fits it is shown again.       *)
Fresh(r, text) ==
    /\ tasks[r].status = "ReadyForReview" /\ runs[r].durable
    /\ runs[r].rev = disk.rev /\ runs[r].base = text

Reconciled(text) ==
    [r \in Runs |->
       IF ~runs[r].durable THEN tasks[r]
       ELSE IF tasks[r].status \in {"Created", "Running", "Applying"} /\ ~tasks[r].live
       THEN [tasks[r] EXCEPT !.status = "Interrupted"]
       ELSE IF tasks[r].status = "ReadyForReview" /\ ~Fresh(r, text)
       THEN [tasks[r] EXCEPT !.status = "Stale", !.live = FALSE]
       ELSE tasks[r]]

(* The newest of the fitting reviews is restored; which of two runs was    *)
(* promoted last is left open.                                             *)
Restored(on, text, base) ==
    IF \E r \in Runs : Fresh(r, text)
    THEN \E r \in Runs :
           /\ Fresh(r, text)
           /\ screen' = [on EXCEPT !.shown = TRUE, !.task = r, !.items = Undecided,
                                   !.base = base, !.snap = "ReadyForReview"]
    ELSE screen' = on

(* The selected step's frame is there.  A restored annotation is based on  *)
(* state 0 of the document, the one it was loaded with.                    *)
RestoreVisualProposal ==
    /\ kind = "visual" /\ screen.open /\ guide.clean
    /\ ~screen.running /\ ~screen.consent /\ ~screen.waiting
    /\ tasks' = Reconciled(guide.text)
    /\ Restored(screen, guide.text, guide.loaded)
    /\ UNCHANGED <<kind, guide, disk, runs, batches, opens, edits, faults, written>>

(* Workers and batches that are out when the workspace closes go on; the   *)
(* screen's history "late" remembers their tasks.                          *)
UnderWay == {r \in Runs : runs[r].pc \notin {"idle", "done"}} \cup {b.task : b \in batches}

Close ==
    /\ screen.open
    /\ runs' = IF kind = "captions" THEN Cancelled ELSE runs
    /\ screen' = [IdleScreen(FALSE) EXCEPT !.late = screen.late \cup UnderWay]
    /\ guide' = Loaded(Blank)
    /\ UNCHANGED <<kind, disk, tasks, batches, opens, edits, faults, written>>

Open ==
    /\ ~screen.open /\ Stirs
    /\ opens' = opens + 1
    /\ guide' = Loaded(disk.text)
    /\ written' = {}
    /\ LET fresh == [IdleScreen(TRUE) EXCEPT !.late = screen.late] IN
       IF kind = "captions"
       THEN tasks' = Reconciled(disk.text) /\ Restored(fresh, disk.text, disk.text)
       ELSE screen' = fresh /\ UNCHANGED tasks
    /\ UNCHANGED <<kind, disk, runs, batches, edits, faults>>

(* The process ends, with its workers and batches, and is started again:   *)
(* the store's sweep closes what nobody works on.                          *)
Restart ==
    /\ Stirs
    /\ screen' = IdleScreen(FALSE)
    /\ guide' = Loaded(Blank)
    /\ written' = {}
    /\ runs' = [r \in Runs |-> IF runs[r].pc = "idle" THEN runs[r]
                               ELSE [runs[r] EXCEPT !.pc = "done", !.id = 0, !.result = "none",
                                                    !.cancelled = FALSE]]
    /\ batches' = {}
    /\ tasks' = [r \in Runs |->
                   [tasks[r] EXCEPT
                      !.live = FALSE,
                      !.status = IF @ \in {"Created", "Running", "Applying"} THEN "Interrupted"
                                 ELSE IF @ = "ReadyForReview" /\ ~runs[r].durable THEN "Stale"
                                 ELSE @]]
    /\ UNCHANGED <<kind, disk, opens, edits, faults>>

-----------------------------------------------------------------------------
Worker(r) ==
    \/ Prepare(r) \/ CaptionContextPrepared(r) \/ CreateTask(r) \/ StartAttempt(r)
    \/ Work(r) \/ Promote(r) \/ PersistTerminal(r) \/ ProposalLoaded(r)

Record == \E b \in batches : BeginApply(b) \/ FinishApply(b) \/ ReviewPersisted(b)

User ==
    \/ \E r \in Runs : SuggestCaptionsRequested(r) \/ VisualSuggestionConsentConfirmed(r)
    \/ SuggestVisualAnnotationsRequested \/ CancelVisualAnnotationSuggestion
    \/ \E s \in Suggestions : AcceptSuggestion(s) \/ RejectSuggestion(s)
    \/ AcceptAllSuggestions \/ RejectVisualAnnotationSuggestion \/ DismissProposal
    \/ \E s \in Suggestions, v \in 0..MaxTexts : Edit(s, v)
    \/ SelectStep \/ Save \/ RestoreVisualProposal \/ Close \/ Open

Next == (\E r \in Runs : Worker(r)) \/ Record \/ User \/ Restart

Spec == Init /\ [][Next]_vars

-----------------------------------------------------------------------------
Task == [status : TaskStatus, live : BOOLEAN, applied : SUBSET Suggestions]

Run == [pc : {"idle", "prepare", "prepared", "create", "start", "work", "promote", "fail",
              "answer", "done"},
        id : Nat, cancelled : BOOLEAN, durable : BOOLEAN, rev : Nat, base : Texts,
        result : {"none", "ok", "err"}, excused : BOOLEAN]

Screen == [open : BOOLEAN, id : Nat, running : BOOLEAN, consent : BOOLEAN,
           task : Runs \cup {NoTask}, shown : BOOLEAN, items : [Suggestions -> Decisions],
           base : Texts, snap : TaskStatus, waiting : BOOLEAN, late : SUBSET Runs,
           crossed : BOOLEAN]

Batches == [task : Runs, snap : {"ReadyForReview", "Applying"} \cup Final, open : Nat,
            items : [Suggestions -> Decisions], pc : {"begin", "final", "answer"},
            ok : BOOLEAN]

TypeOK ==
    /\ kind \in Kinds
    /\ guide \in [text : Texts, loaded : Texts, clean : BOOLEAN]
    /\ disk \in [rev : Nat, text : Texts]
    /\ tasks \in [Runs -> Task]
    /\ runs \in [Runs -> Run]
    /\ screen \in Screen
    /\ screen.shown => screen.task \in Runs /\ screen.snap \in {"ReadyForReview", "Applying"}
    /\ batches \subseteq Batches
    /\ opens \in Nat /\ edits \in Nat /\ faults \in Nat
    /\ written \subseteq Runs \X Suggestions

(* Decisions are recorded in order: an open workspace never has two of its *)
(* batches out.  Only the late answer of a batch of an earlier opening     *)
(* lets a second one start, whatever task that one is about.               *)
OneBatchAtATime ==
    screen.open /\ ~screen.crossed
      => \A b, c \in batches : b.open = opens /\ c.open = opens => b = c

(* What a receipt calls applied is what was written into the guide, by     *)
(* the review that was recorded in the same opening.                       *)
ReceiptIsTrue ==
    [][\A b \in batches :
         LET t == b.task IN
         (/\ b.open = opens /\ b.pc = "final" /\ t \notin screen.late /\ ~screen.crossed
          /\ tasks[t].status # tasks'[t].status /\ tasks'[t].status \in Final)
         => /\ {t} \X tasks'[t].applied = written \cap ({t} \X Suggestions)
            /\ (tasks'[t].status = "Completed") = (tasks'[t].applied # {})]_vars

(* A suggestion is never written over a text its run has not seen, apart   *)
(* from what that run itself suggested.                                    *)
NothingUnseenIsOverwritten ==
    [][\A r \in Runs, s \in Suggestions :
         <<r, s>> \in written' \ written
         => \A x \in (IF kind = "visual" THEN Suggestions ELSE {s}) :
              guide.text[x] \in {runs[r].base[x], SuggestedBy(r)}]_vars

(* While no batch is out and no transaction failed, the screen holds the   *)
(* snapshot the store holds, so that the next decision can be recorded;    *)
(* only a reconciliation of the project may close a task under its review, *)
(* and work left over from an earlier opening may move it.                 *)
ClosedUnderReview == tasks[screen.task].status \in {"Stale", "Interrupted"}

ScreenFollowsStore ==
    (/\ screen.open /\ screen.shown /\ ~screen.waiting /\ faults = 0
     /\ screen.task \notin screen.late /\ ~screen.crossed)
      => screen.snap = tasks[screen.task].status \/ ClosedUnderReview

(* The wait for a batch ends with its answer, unless another task takes    *)
(* the slot first.                                                         *)
InFlight == \E b \in batches : b.task = screen.task /\ b.open = opens

AnswerIsHeard ==
    [][screen.waiting /\ InFlight /\ screen'.open /\ screen'.waiting
         => InFlight' \/ screen'.task # screen.task]_vars

(* A caption task that runs is closed or promoted before its worker is     *)
(* done, unless the store failed; an annotation task may also be declined. *)
WorkerSettlesTask ==
    \A r \in Runs : runs[r].pc \in {"answer", "done"} /\ ~runs[r].excused
                      => tasks[r].status \notin {"Created", "Running"}

(* The workspace shows that suggestions are being prepared only while the  *)
(* run it asked for is under way: nothing that happens to an older review, *)
(* a cancellation or a reopening leaves it waiting for nobody.             *)
RunningHasWorker ==
    screen.open /\ screen.running
      => \E r \in Runs : runs[r].id = screen.id /\ runs[r].pc \notin {"idle", "done"}

(* The converse: a wait for suggestions ends with their arrival, or with   *)
(* the user who cancels, closes the project or ends the program.  The code *)
(* breaks it for annotations: the answer of an older, final decision takes *)
(* the new request off the screen.                                         *)
RequestIsKept ==
    [][screen.open /\ (screen.running \/ screen.consent) /\ screen'.open
         => \/ screen'.running \/ screen'.consent
            \/ CancelVisualAnnotationSuggestion
            \/ \E r \in Runs : CaptionContextPrepared(r) \/ ProposalLoaded(r)]_vars

(* While decisions are refused because one is being recorded, one is: "a  *)
(* review-persistence-in-flight flag ... While persistence is in flight,   *)
(* subsequent review messages are ignored" (docs/superpowers/specs/        *)
(* 2026-07-29-action-guide-agent-foundation-visual-annotation-design.md,   *)
(* lines 408-412).  The code leaves the flag set when the task leaves the  *)
(* slot before the batch answers.                                          *)
WaitingIsForABatch ==
    screen.open /\ screen.waiting => \E b \in batches : b.open = opens
=============================================================================
