--------------------------- MODULE ProjectSession ---------------------------
(***************************************************************************)
(* Action Guide projects between the disk and the windows that edit them:  *)
(* the save transactions of rollshot-action's project store, the advisory  *)
(* writer lock, the blocking workers that save and open, and the Timeline  *)
(* Workspace that starts them and applies their results.  Several programs *)
(* run at once; each shows one workspace at a time, and a workspace that   *)
(* is closed leaves its workers running.                                   *)
(*                                                                         *)
(* The contents of a project are the set of edits it is made of: frames,   *)
(* captions, annotations and the motion asset stay below this level.  A    *)
(* manifest is replaced by one rename, so a half-written one is never      *)
(* read.                                                                   *)
(*                                                                         *)
(* A result names no workspace and the user may close one that is saving,  *)
(* so a result can meet a workspace it is not of, and a workspace can have *)
(* two saves in flight.  The history variable adrift collects the          *)
(* workspaces this happened to, and those whose project such a workspace   *)
(* overwrote; what is promised of the others is promised without them.     *)
(***************************************************************************)
EXTENDS Integers, FiniteSets

CONSTANTS Apps,       \* running programs
          Roots,      \* directories a project can be saved to
          Saved,      \* those that hold a project at the start
          NoRoot, NoProject, NoWriter,
          MaxEdits,   \* bound: edits made in a behaviour
          MaxOpens,   \* bound: workspaces opened in a behaviour
          MaxSaves    \* bound: save workers started in a behaviour

ASSUME SessionAssumption ==
    /\ Saved \subseteq Roots /\ NoRoot \notin Roots
    /\ MaxEdits \in Nat /\ MaxOpens \in Nat /\ MaxSaves \in Nat
    /\ NoWriter \notin 0..MaxOpens
    /\ NoProject \notin [rev : Nat, edits : SUBSET (1..MaxEdits)]

VARIABLES disk,      \* the committed manifest of each directory
          lock,      \* who holds the lock file of each directory
          ws,        \* what each program shows
          workers,   \* save workers on blocking threads
          inbox,     \* their results, not yet delivered
          made,      \* how many edits were made
          opened,    \* how many workspaces were opened
          saves,     \* how many save workers were started
          adrift     \* history: the workspaces that met a save not their own,
                     \* or two of their own, or were overwritten by these

vars == <<disk, lock, ws, workers, inbox, made, opened, saves, adrift>>

Edits == 1..MaxEdits
Writers == 1..MaxOpens

Phases == {"home", "opening", "loading", "conflict", "timeline"}
SaveStates == {"Unsaved", "Dirty", "Saving", "Clean"}
Accesses == {"none", "writable", "readonly"}

\* `session` tells a recorded guide ("none"), an imported one ("unsaved") and
\* one that has a project ("saved") apart; `frames` is the frame source a
\* snapshot is built from; `slot` is the project whose new guard waits to be
\* picked up by the workspace.
Workspace ==
    [phase : Phases, gen : 0..MaxOpens, session : {"none", "unsaved", "saved"},
     root : Roots \cup {NoRoot}, base : Nat, access : Accesses,
     save : SaveStates, edits : SUBSET Edits, frames : BOOLEAN,
     picking : BOOLEAN, closing : BOOLEAN, slot : Roots \cup {NoRoot}]

Worker ==
    [app : Apps, gen : Writers, root : Roots, base : Nat,
     edits : SUBSET Edits,
     pc : {"preflight", "recheck", "commit", "create", "lock"}]

Result ==
    [app : Apps, gen : Writers, root : Roots, rev : Nat,
     kind : {"ExistingSaved", "NewWritable", "NewReadOnly", "Failed"}]

Manifest == [rev : Nat \ {0}, edits : SUBSET Edits]

\* A workspace before anything is known of it, the g-th of the behaviour.
NewWorkspace(g) ==
    [phase |-> "home", gen |-> g, session |-> "none", root |-> NoRoot,
     base |-> 0, access |-> "none", save |-> "Clean", edits |-> {},
     frames |-> FALSE, picking |-> FALSE, closing |-> FALSE, slot |-> NoRoot]

Home == NewWorkspace(0)

Init ==
    /\ disk = [r \in Roots |->
                 IF r \in Saved THEN [rev |-> 1, edits |-> {}] ELSE NoProject]
    /\ lock = [r \in Roots |-> NoWriter]
    /\ ws = [a \in Apps |-> Home]
    /\ workers = {} /\ inbox = {} /\ made = 0 /\ opened = 0
    /\ saves = 0 /\ adrift = {}

\* A dropped guard unlocks the file: what is left of the locks when the
\* holders H are gone.
Without(H) == [r \in Roots |-> IF lock[r] \in H THEN NoWriter ELSE lock[r]]

\* The workspaces that have to do with the project at r.
Concerned(r) ==
    {g \in Writers : \/ lock[r] = g
                     \/ \E a \in Apps : ws[a].gen = g /\ ws[a].root = r
                     \/ \E f \in workers \cup inbox : f.gen = g /\ f.root = r}

-----------------------------------------------------------------------------
(* Opening *)

StartOpen(a, r) ==
    /\ ws[a].phase = "home" /\ opened < MaxOpens
    /\ disk[r] # NoProject
    /\ ws' = [ws EXCEPT ![a] =
                [NewWorkspace(opened + 1) EXCEPT !.phase = "opening", !.root = r]]
    /\ opened' = opened + 1
    /\ UNCHANGED <<disk, lock, workers, inbox, made, saves, adrift>>

\* The worker takes the lock before it reads the manifest.
OpenLocks(a) ==
    /\ ws[a].phase = "opening"
    /\ IF lock[ws[a].root] = NoWriter
       THEN /\ lock' = [lock EXCEPT ![ws[a].root] = ws[a].gen]
            /\ ws' = [ws EXCEPT ![a].phase = "loading", ![a].access = "writable"]
       ELSE /\ ws' = [ws EXCEPT ![a].phase = "conflict"]
            /\ UNCHANGED lock
    /\ UNCHANGED <<disk, workers, inbox, made, opened, saves, adrift>>

OpenReadOnly(a) ==
    /\ ws[a].phase = "conflict"
    /\ ws' = [ws EXCEPT ![a].phase = "loading", ![a].access = "readonly"]
    /\ UNCHANGED <<disk, lock, workers, inbox, made, opened, saves, adrift>>

CancelLockedOpen(a) ==
    /\ ws[a].phase = "conflict"
    /\ ws' = [ws EXCEPT ![a] = Home]
    /\ UNCHANGED <<disk, lock, workers, inbox, made, opened, saves, adrift>>

OpenLoads(a) ==
    /\ ws[a].phase = "loading"
    /\ LET m == disk[ws[a].root] IN
         ws' = [ws EXCEPT ![a] =
                  [@ EXCEPT !.phase = "timeline", !.session = "saved",
                            !.base = m.rev, !.edits = m.edits, !.frames = TRUE]]
    /\ UNCHANGED <<disk, lock, workers, inbox, made, opened, saves, adrift>>

\* A digest or a manifest that does not validate: back home, guard dropped.
OpenFails(a) ==
    /\ ws[a].phase = "loading"
    /\ ws' = [ws EXCEPT ![a] = Home]
    /\ lock' = Without({ws[a].gen})
    /\ UNCHANGED <<disk, workers, inbox, made, opened, saves, adrift>>

\* A finished recording or a decoded video becomes a workspace of its own; the
\* recording keeps its frames in memory and has no frame source.
NewGuide(a, recorded) ==
    /\ ws[a].phase = "home" /\ opened < MaxOpens /\ made < MaxEdits
    /\ made' = made + 1 /\ opened' = opened + 1
    /\ ws' = [ws EXCEPT ![a] =
                [NewWorkspace(opened + 1) EXCEPT
                   !.phase = "timeline", !.edits = {made + 1},
                   !.session = IF recorded THEN "none" ELSE "unsaved",
                   !.save = IF recorded THEN "Unsaved" ELSE "Dirty",
                   !.frames = ~recorded]]
    /\ UNCHANGED <<disk, lock, workers, inbox, saves, adrift>>

-----------------------------------------------------------------------------
(* Editing and saving *)

MutateWhileSaving(a) == ws[a].access # "readonly"    \* mutant: edits during a save

CanMutate(a) == ws[a].save # "Saving" /\ ws[a].access # "readonly"

Edit(a) ==
    /\ ws[a].phase = "timeline" /\ CanMutate(a) /\ made < MaxEdits
    /\ made' = made + 1
    /\ ws' = [ws EXCEPT ![a].edits = @ \cup {made + 1},
                        ![a].save = IF @ = "Clean" THEN "Dirty" ELSE @]
    /\ UNCHANGED <<disk, lock, workers, inbox, opened, saves, adrift>>

SaveWorker(a, r, pc) ==
    [app |-> a, gen |-> ws[a].gen, root |-> r, base |-> ws[a].base,
     edits |-> ws[a].edits, pc |-> pc]

Starts(w) ==
    /\ workers' = workers \cup {w}
    /\ saves < MaxSaves /\ saves' = saves + 1

\* A workspace that leaves a save behind, or starts one over another.
Drifts(a) ==
    adrift' = IF ws[a].save = "Saving" THEN adrift \cup {ws[a].gen} ELSE adrift

\* The Save button; Save and Close passes here as well.  A guide without a
\* project has the button in its first-save prompt, which the picker hides.
Save(a, close) ==
    /\ ws[a].phase = "timeline"
    /\ ws[a].save = IF ws[a].session = "none" THEN "Unsaved" ELSE "Dirty"
    /\ ws[a].session = "none" => ~close /\ ~ws[a].picking
    /\ IF ws[a].session = "saved"
       THEN /\ ws' = [ws EXCEPT ![a] =
                        [@ EXCEPT !.save = "Saving", !.closing = ws[a].closing \/ close]]
            /\ Starts(SaveWorker(a, ws[a].root, "preflight"))
       ELSE /\ ws' = [ws EXCEPT ![a] =
                        [@ EXCEPT !.picking = TRUE, !.closing = ws[a].closing \/ close]]
            /\ UNCHANGED <<workers, saves>>
    /\ UNCHANGED <<disk, lock, inbox, made, opened, adrift>>

SaveAs(a) ==
    /\ ws[a].phase = "timeline" /\ ws[a].session = "saved"
    /\ ws[a].save # "Saving" /\ ws[a].access = "writable"
    /\ ws' = [ws EXCEPT ![a].picking = TRUE]
    /\ UNCHANGED <<disk, lock, workers, inbox, made, opened, saves, adrift>>

\* The picker answers, whatever the workspace does by now.  Without a frame
\* source no snapshot can be built.
DestinationChosen(a, r) ==
    /\ ws[a].phase = "timeline" /\ ws[a].picking
    /\ IF ws[a].frames
       THEN /\ ws' = [ws EXCEPT ![a] = [@ EXCEPT !.picking = FALSE, !.save = "Saving"]]
            /\ Starts(SaveWorker(a, r, "create")) /\ Drifts(a)
       ELSE /\ ws' = [ws EXCEPT ![a] = [@ EXCEPT !.picking = FALSE, !.save = "Dirty"]]
            /\ UNCHANGED <<workers, saves, adrift>>
    /\ UNCHANGED <<disk, lock, inbox, made, opened>>

PickerCancelled(a) ==
    /\ ws[a].phase = "timeline" /\ ws[a].picking
    /\ ws' = [ws EXCEPT ![a] = [@ EXCEPT !.picking = FALSE, !.closing = FALSE]]
    /\ UNCHANGED <<disk, lock, workers, inbox, made, opened, saves, adrift>>

-----------------------------------------------------------------------------
(* The save worker *)

Finish(w, kind, rev) ==
    /\ workers' = workers \ {w}
    /\ inbox' = inbox \cup {[app |-> w.app, gen |-> w.gen, root |-> w.root,
                             rev |-> rev, kind |-> kind]}

Advance(w, pc) ==
    /\ workers' = (workers \ {w}) \cup {[w EXCEPT !.pc = pc]}
    /\ UNCHANGED inbox

\* Any read or write before the commit can fail; nothing is committed then.
WorkerFails(w) ==
    /\ Finish(w, "Failed", 0)
    /\ UNCHANGED <<disk, lock, ws, made, opened, saves, adrift>>

\* The manifest is read twice, before the frames are written and again right
\* before the commit; a revision other than the expected one ends the save.
CheckRevision(w, from, to) ==
    /\ w.pc = from
    /\ IF disk[w.root].rev = w.base
       THEN Advance(w, to)
       ELSE Finish(w, "Failed", 0)
    /\ UNCHANGED <<disk, lock, ws, made, opened, saves, adrift>>

\* The rename is the commit point.  The directory is synced after it, and a
\* failure of that is reported as a failure of the save.
CommitManifest(w) ==
    /\ w.pc = "commit"
    /\ disk' = [disk EXCEPT ![w.root] = [rev |-> w.base + 1, edits |-> w.edits]]
    /\ adrift' = IF w.gen \in adrift THEN adrift \cup Concerned(w.root) ELSE adrift
    /\ \/ Finish(w, "ExistingSaved", w.base + 1)
       \/ Finish(w, "Failed", 0)
    /\ UNCHANGED <<lock, ws, made, opened, saves>>

ReplaceProject(w) ==                 \* mutant: rename without NOREPLACE
    /\ w.pc = "create"
    /\ disk' = [disk EXCEPT ![w.root] = [rev |-> 1, edits |-> w.edits]]
    /\ Advance(w, "lock") \/ Finish(w, "Failed", 0)
    /\ UNCHANGED <<lock, ws, made, opened, saves, adrift>>

\* The whole new project moves in with one rename that never replaces.
CommitNewProject(w) ==
    /\ w.pc = "create"
    /\ IF disk[w.root] # NoProject
       THEN Finish(w, "Failed", 0) /\ UNCHANGED disk
       ELSE /\ disk' = [disk EXCEPT ![w.root] = [rev |-> 1, edits |-> w.edits]]
            /\ Advance(w, "lock") \/ Finish(w, "Failed", 0)
    /\ UNCHANGED <<lock, ws, made, opened, saves, adrift>>

\* The guard of the new lock goes to the slot of the workspace that asked, in
\* the place of one nobody picked up.  With the workspace its slot is gone.
Guards(w) ==
    IF ws[w.app].gen = w.gen
    THEN /\ ws' = [ws EXCEPT ![w.app].slot = w.root]
         /\ lock' = [r \in Roots |->
                       IF r = w.root THEN w.gen
                       ELSE IF r = ws[w.app].slot /\ lock[r] = w.gen THEN NoWriter
                       ELSE lock[r]]
    ELSE UNCHANGED <<ws, lock>>

\* The lock of the new project is taken after the project is there for all.
LockNewProject(w) ==
    /\ w.pc = "lock"
    /\ IF lock[w.root] = NoWriter
       THEN Finish(w, "NewWritable", 1) /\ Guards(w)
       ELSE Finish(w, "NewReadOnly", 1) /\ UNCHANGED <<ws, lock>>
    /\ UNCHANGED <<disk, made, opened, saves, adrift>>

WorkerStep(w) ==
    \/ CheckRevision(w, "preflight", "recheck")
    \/ CheckRevision(w, "recheck", "commit")
    \/ CommitManifest(w) \/ CommitNewProject(w) \/ LockNewProject(w)

-----------------------------------------------------------------------------
(* Results and closing *)

AppliedOnSuccess(w, m) ==            \* mutant: a failure leaves the state
    CASE m.kind = "Failed" -> [w EXCEPT !.closing = FALSE]
      [] m.kind = "ExistingSaved" ->
           [w EXCEPT !.save = "Clean",
                     !.base = IF w.session = "saved" THEN m.rev ELSE @]
      [] OTHER ->
           [w EXCEPT !.save = "Clean", !.session = "saved", !.root = m.root,
                     !.base = m.rev, !.frames = TRUE, !.access = "writable"]

\* The workspace a result leaves behind.  A result names no workspace: it is
\* applied to the one that is shown, with the guard of that one's slot.
Applied(w, m) ==
    CASE m.kind = "Failed" -> [w EXCEPT !.save = "Dirty", !.closing = FALSE]
      [] m.kind = "ExistingSaved" ->
           [w EXCEPT !.save = "Clean",
                     !.base = IF w.session = "saved" THEN m.rev ELSE @]
      [] m.kind = "NewWritable" ->
           [w EXCEPT !.save = "Clean", !.session = "saved", !.root = m.root,
                     !.base = m.rev, !.frames = TRUE, !.slot = NoRoot,
                     !.access = IF w.slot # NoRoot THEN "writable" ELSE "readonly"]
      [] m.kind = "NewReadOnly" ->
           [w EXCEPT !.save = "Clean", !.session = "saved", !.root = m.root,
                     !.base = m.rev, !.frames = TRUE, !.access = "readonly"]

\* A session that is replaced drops its guard; the one of the slot is kept.
LocksAfter(a, m) ==
    [r \in Roots |->
       IF /\ m.kind \in {"NewWritable", "NewReadOnly"}
          /\ lock[r] = ws[a].gen /\ r # ws[a].slot
       THEN NoWriter ELSE lock[r]]

Deliver(m) ==
    LET a == m.app
        shown == ws[a].phase = "timeline"
        closes == shown /\ ws[a].closing /\ m.kind # "Failed"
    IN  /\ inbox' = inbox \ {m}
        /\ ws' = [ws EXCEPT ![a] = IF closes THEN Home
                                   ELSE IF shown THEN Applied(ws[a], m)
                                   ELSE @]
        /\ lock' = IF closes THEN Without({ws[a].gen})
                   ELSE IF shown THEN LocksAfter(a, m)
                   ELSE lock
        /\ adrift' = IF shown /\ m.gen # ws[a].gen THEN adrift \cup {ws[a].gen}
                     ELSE adrift
        /\ UNCHANGED <<disk, workers, made, opened, saves>>

\* Workers go on without their workspace.
Close(a) ==
    /\ ws' = [ws EXCEPT ![a] = Home]
    /\ lock' = Without({ws[a].gen})
    /\ Drifts(a)
    /\ UNCHANGED <<disk, workers, inbox, made, opened, saves>>

\* The window's close button, also during a save: only a dirty project is asked
\* about, which withdraws an earlier Save and Close.
CloseRequested(a) ==
    /\ ws[a].phase = "timeline" /\ ws[a].session # "none"
    /\ IF ws[a].save = "Dirty"
       THEN /\ ws' = [ws EXCEPT ![a].closing = FALSE]
            /\ UNCHANGED <<disk, lock, workers, inbox, made, opened, saves, adrift>>
       ELSE Close(a)

\* Discard, in the dialog of the close button or on its own.
Discard(a) == ws[a].phase = "timeline" /\ Close(a)

\* The program dies: its threads stop and the system unlocks its files.
Crash(a) ==
    /\ ws' = [ws EXCEPT ![a] = Home]
    /\ lock' = Without({ws[a].gen})
    /\ workers' = {w \in workers : w.app # a}
    /\ inbox' = {m \in inbox : m.app # a}
    /\ UNCHANGED <<disk, made, opened, saves, adrift>>

-----------------------------------------------------------------------------
User(a) ==
    \/ \E r \in Roots : StartOpen(a, r) \/ DestinationChosen(a, r)
    \/ OpenReadOnly(a) \/ CancelLockedOpen(a)
    \/ \E recorded \in BOOLEAN : NewGuide(a, recorded)
    \/ Edit(a) \/ SaveAs(a) \/ PickerCancelled(a)
    \/ \E close \in BOOLEAN : Save(a, close)
    \/ CloseRequested(a) \/ Discard(a)

Open(a) == OpenLocks(a) \/ OpenLoads(a) \/ OpenFails(a)

WorkerRuns(a) == \E w \in workers : w.app = a /\ (WorkerStep(w) \/ WorkerFails(w))

Delivers(a) == \E m \in inbox : m.app = a /\ Deliver(m)

Next ==
    \E a \in Apps : User(a) \/ Open(a) \/ Crash(a) \/ WorkerRuns(a) \/ Delivers(a)

Spec == Init /\ [][Next]_vars

\* The blocking threads run and the event loop delivers; the user need not act.
Fairness == \A a \in Apps : WF_vars(WorkerRuns(a)) /\ WF_vars(Delivers(a))

FairSpec == Spec /\ Fairness

-----------------------------------------------------------------------------
TypeOK ==
    /\ disk \in [Roots -> Manifest \cup {NoProject}]
    /\ lock \in [Roots -> Writers \cup {NoWriter}]
    /\ ws \in [Apps -> Workspace]
    /\ workers \subseteq Worker /\ inbox \subseteq Result
    /\ made \in 0..MaxEdits /\ opened \in 0..MaxOpens
    /\ saves \in 0..MaxSaves /\ adrift \subseteq Writers

\* Opening, Save As and a lock that changes hands never make two workspaces
\* writable on one project: whoever may edit holds the lock file.
WritableHoldsLock ==
    \A a \in Apps :
        /\ ws[a].phase \in {"loading", "timeline"} /\ ws[a].access = "writable"
        /\ ws[a].gen \notin adrift
        => lock[ws[a].root] = ws[a].gen

\* A save worker reads the revision, writes frames, reads it again and renames.
\* Nothing but the lock keeps another writer out of that window, and the lock
\* belongs to the workspace, not to the worker.
SaverHoldsLock ==
    \A w \in workers :
        w.pc \in {"preflight", "recheck", "commit"} /\ w.gen \notin adrift
            => lock[w.root] = w.gen

\* "Saved" in the header is true: what the workspace shows is in the committed
\* manifest, whichever saves finished in whichever order, as long as its saves
\* and the results it meets belong to each other.
CleanIsSaved ==
    \A a \in Apps :
        ws[a].phase = "timeline" /\ ws[a].save = "Clean" /\ ws[a].gen \notin adrift
            => /\ ws[a].session = "saved"
               /\ ws[a].edits \subseteq disk[ws[a].root].edits

\* What the header says without that condition.  It is not true: a result is
\* applied to whatever workspace is shown.
CleanIsAlwaysSaved ==
    \A a \in Apps :
        ws[a].phase = "timeline" /\ ws[a].save = "Clean"
            => /\ ws[a].session = "saved"
               /\ ws[a].edits \subseteq disk[ws[a].root].edits

\* What the second reading of the revision found still holds at the rename,
\* which follows it without another look.
CommitIsCurrent ==
    \A w \in workers :
        w.pc = "commit" /\ w.gen \notin adrift
            => disk[w.root] # NoProject /\ disk[w.root].rev = w.base

\* The store and the lock implement a register with one writer: no commit is
\* lost, no project replaced, no revision skipped, except by a workspace adrift.
Register == INSTANCE ProjectRegister WITH project <- disk, writer <- lock, stray <- adrift
SingleWriterRegister == Register!RegisterSpec

\* A guide that was just recorded can be saved: the destination the user picks
\* starts a save worker (spec 2026-07-17-action-guide-project-editing-design,
\* line 725).  It does not: no frame source was ever set.
FirstSaveStarts ==
    [][\A a \in Apps, r \in Roots : DestinationChosen(a, r) => workers' # workers]_vars

\* A save that was started ends, and the workspace can be edited again.
SaveEnds ==
    \A a \in Apps : ws[a].save = "Saving" ~> ws[a].save # "Saving"
=============================================================================
