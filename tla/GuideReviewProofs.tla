-------------------------- MODULE GuideReviewProofs --------------------------
(***************************************************************************)
(* What holds of the review of an agent's suggestions for any number of    *)
(* suggestions, runs, openings, edits, saves and failed transactions: runs *)
(* settle their tasks, decisions are recorded one batch at a time and as   *)
(* they were taken, the screen holds the snapshot the store holds, and     *)
(* nothing is written over a text the model has not seen.                  *)
(***************************************************************************)
EXTENDS GuideReview, TLAPS

(* Where a run has no task yet, and where it is at work.                   *)
Early == {"idle", "prepare", "prepared", "create"}
AtRest == {"idle", "done"}

Closed(t) == tasks[t].status \in {"Stale", "Interrupted"}

(* A task exists from the creation on and is left settled, unless the      *)
(* store failed.                                                           *)
Settled(r) ==
    /\ runs[r].pc \in Early => tasks[r].status = "None"
    /\ runs[r].pc \in {"work", "promote"} => tasks[r].status # "Created"
    /\ runs[r].pc = "fail" /\ ~runs[r].excused => tasks[r].status # "Created"
    /\ runs[r].pc \in {"answer", "done"} /\ ~runs[r].excused
          => tasks[r].status \notin {"Created", "Running"}
    /\ runs[r].pc = "fail" => runs[r].result # "ok"

Settling == \A r \in Runs : Settled(r)

(* Asking for annotations takes the place of the review on screen.         *)
Asking ==
    /\ screen.consent => kind = "visual" /\ screen.open /\ ~screen.running /\ ~screen.shown
    /\ kind = "visual" /\ screen.running => ~screen.shown

(* A run at rest answers to no number, and a run of this opening to none   *)
(* the workspace has not given out.                                        *)
Numbered ==
    /\ \A r \in Runs : runs[r].pc \in AtRest => runs[r].id = 0
    /\ screen.open => \A r \in Runs \ screen.late : runs[r].id <= screen.id

(* What is left over from an earlier opening is remembered as late.        *)
LateIsKnown ==
    /\ \A b \in batches :
          /\ b.open <= opens
          /\ (b.open = opens /\ screen.open) \/ (b.task \in screen.late)
    /\ ~screen.open => \A r \in Runs : (runs[r].pc \in AtRest) \/ r \in screen.late

(* A run whose suggestions were shown has given its answer, or will not be *)
(* heard in this opening.                                                  *)
MatchesScreen(r) == screen.open /\ screen.running /\ runs[r].id = screen.id

WasShown(r) ==
    \/ screen.task = r
    \/ \E b \in batches : b.task = r
    \/ \E s \in Suggestions : <<r, s>> \in written

Heard(r) ==
    \/ runs[r].pc = "done"
    \/ r \in screen.late
    \/ kind = "visual" /\ ~MatchesScreen(r)

ShownIsHeard == \A r \in Runs : WasShown(r) => runs[r].pc \notin Early /\ Heard(r)

(* The wait of the screen is for the one batch of this opening.            *)
WaitsForBatch ==
    screen.open /\ ~screen.crossed => \A b \in batches : b.open = opens => screen.waiting

(* Where the snapshots a batch and a promoted run hold agree with the      *)
(* store.                                                                  *)
BatchFollows(b) ==
    /\ tasks[b.task].status = b.snap \/ Closed(b.task)
    /\ b.pc = "answer" /\ ~b.ok => Closed(b.task)

WillBeShown(r) ==
    /\ runs[r].pc = "answer" /\ runs[r].result = "ok" /\ r \notin screen.late
    /\ kind = "visual" => MatchesScreen(r)

Following ==
    faults = 0 =>
      /\ screen.open /\ ~screen.crossed =>
            \A b \in batches : b.open = opens /\ b.task \notin screen.late => BatchFollows(b)
      /\ \A r \in Runs : WillBeShown(r) => tasks[r].status = "ReadyForReview" \/ Closed(r)

Phases ==
    \A b \in batches :
        /\ b.pc = "begin" => b.snap \in {"ReadyForReview", "Applying"}
        /\ b.pc = "final" => b.snap = "Applying"

(* What is written is what was accepted.                                   *)
WrittenBy(t) == {s \in Suggestions : <<t, s>> \in written}

Accounted ==
    screen.open /\ ~screen.crossed =>
      /\ \A b \in batches :
            b.open = opens /\ b.task \notin screen.late => AcceptedIn(b.items) = WrittenBy(b.task)
      /\ screen.shown /\ screen.task \notin screen.late
            => AcceptedIn(screen.items) = WrittenBy(screen.task)

(* A saved project that was written into is at another revision.           *)
WrittenIsNewer ==
    /\ \A r \in Runs : runs[r].rev <= disk.rev
    /\ screen.open => \A r \in Runs : runs[r].durable /\ WrittenBy(r) # {}
                         => ~guide.clean \/ runs[r].rev < disk.rev

(* What the guide may read where a suggestion fits.                        *)
Known(r, text) == \A x \in Suggestions : text[x] \in {runs[r].base[x], SuggestedBy(r)}

BasedOnRun ==
    screen.shown =>
      IF kind = "visual"
      THEN guide.text = screen.base => Known(screen.task, guide.text)
      ELSE screen.base = runs[screen.task].base

IInv == /\ TypeOK /\ Settling /\ Asking /\ Numbered /\ RunningHasWorker /\ LateIsKnown
        /\ ShownIsHeard /\ WaitsForBatch /\ OneBatchAtATime /\ Phases
        /\ Following /\ ScreenFollowsStore /\ Accounted /\ WrittenIsNewer /\ BasedOnRun
-----------------------------------------------------------------------------
(* Constants, texts and suggestions.                                       *)
LEMMA Constants ==
    /\ MaxRuns \in Nat /\ MaxTexts \in Nat
    /\ Runs \subseteq Nat /\ NoTask \notin Runs
    /\ kind \in Kinds => kind \in {"captions", "visual"}
<1>1. MaxRuns \in Nat /\ MaxTexts \in Nat
  BY ReviewAssumption DEF ReviewAssumption
<1>2. Runs \subseteq Nat /\ NoTask \notin Runs
  BY <1>1 DEF Runs, NoTask
<1>3. kind \in Kinds => kind \in {"captions", "visual"}
  <2>1. Kinds \subseteq {"captions", "visual"}
    BY ReviewAssumption DEF ReviewAssumption
  <2> QED
    BY <2>1
<1> QED
  BY <1>1, <1>2, <1>3

LEMMA TextsHold ==
    /\ Blank \in Texts
    /\ \A r \in Runs : SuggestedBy(r) \in 0..(MaxTexts + MaxRuns)
    /\ \A v \in 0..MaxTexts : v \in 0..(MaxTexts + MaxRuns)
BY ReviewAssumption DEF ReviewAssumption, Blank, Texts, SuggestedBy, Runs

LEMMA LoadedHolds ==
    ASSUME NEW text \in Texts
    PROVE  Loaded(text) \in [text : Texts, loaded : Texts, clean : BOOLEAN]
BY DEF Loaded

LEMMA UndecidedHolds == Undecided \in [Suggestions -> Decisions]
BY DEF Undecided, Decisions

LEMMA IdleHolds ==
    ASSUME NEW open \in BOOLEAN
    PROVE  IdleScreen(open) \in Screen
<1>1. 0 \in Nat /\ NoTask \in Runs \cup {NoTask} /\ "None" \in TaskStatus
  BY DEF TaskStatus
<1> QED
  BY <1>1, UndecidedHolds, TextsHold DEF IdleScreen, Screen

LEMMA HiddenHolds ==
    ASSUME NEW on \in Screen
    PROVE  Hidden(on) \in Screen
BY UndecidedHolds, TextsHold DEF Hidden, Screen

(* A review that leaves the screen keeps the rest of the slot.             *)
LEMMA HiddenIs ==
    ASSUME NEW on \in Screen
    PROVE  LET h == Hidden(on) IN
           /\ h.open = on.open /\ h.id = on.id /\ h.running = on.running
           /\ h.consent = on.consent /\ h.task = on.task /\ h.snap = on.snap
           /\ h.waiting = on.waiting /\ h.late = on.late /\ h.crossed = on.crossed
           /\ ~h.shown /\ h.items = Undecided /\ h.base = Blank
BY DEF Hidden, Screen

-----------------------------------------------------------------------------
(* What a transaction may do to the store.                                 *)
LEMMA MovedIs ==
    ASSUME tasks \in [Runs -> Task], NEW t \in Runs, NEW to \in TaskStatus,
           NEW applied \in SUBSET Suggestions
    PROVE  /\ Moved(t, to, applied) \in [Runs -> Task]
           /\ Moved(t, to, applied)[t].status = to
           /\ Moved(t, to, applied)[t].applied = applied
           /\ \A q \in Runs : q # t => Moved(t, to, applied)[q] = tasks[q]
BY DEF Moved, Task

Attempted(o, t, from, to, applied) ==
    /\ o.tasks \in [Runs -> Task] /\ o.ok \in BOOLEAN /\ o.faults \in Nat
    /\ \A q \in Runs : q # t => o.tasks[q] = tasks[q]
    /\ \/ o.tasks = tasks
       \/ /\ tasks[t].status = from
          /\ o.tasks[t].status = to /\ o.tasks[t].applied = applied
    /\ o.ok => /\ tasks[t].status = from
               /\ o.tasks[t].status = to /\ o.tasks[t].applied = applied
    /\ o.faults = 0 => /\ faults = 0
                       /\ o.ok = (tasks[t].status = from)
                       /\ ~o.ok => o.tasks = tasks

LEMMA TransactionIs ==
    ASSUME tasks \in [Runs -> Task], faults \in Nat, NEW t \in Runs, NEW from,
           NEW to \in TaskStatus, NEW applied \in SUBSET Suggestions,
           NEW o \in Transaction(t, from, to, applied)
    PROVE  Attempted(o, t, from, to, applied)
<1> DEFINE next == IF tasks[t].status = from THEN Moved(t, to, applied) ELSE tasks
<1>1. /\ next \in [Runs -> Task]
      /\ \A q \in Runs : q # t => next[q] = tasks[q]
      /\ tasks[t].status = from => next[t].status = to /\ next[t].applied = applied
      /\ tasks[t].status # from => next = tasks
  BY MovedIs
<1>2. \/ o = [tasks |-> next, ok |-> tasks[t].status = from, faults |-> faults]
      \/ \E n \in {tasks, next} : o = [tasks |-> n, ok |-> FALSE, faults |-> faults + 1]
  BY DEF Transaction
<1> HIDE DEF next
<1>3. CASE o = [tasks |-> next, ok |-> tasks[t].status = from, faults |-> faults]
  BY <1>1, <1>3 DEF Attempted
<1>4. ASSUME NEW n \in {tasks, next}, o = [tasks |-> n, ok |-> FALSE, faults |-> faults + 1]
      PROVE  /\ o.tasks = n /\ ~o.ok /\ o.ok \in BOOLEAN
             /\ o.faults \in Nat /\ o.faults # 0
  BY <1>4
<1>5. CASE \E n \in {tasks, next} : o = [tasks |-> n, ok |-> FALSE, faults |-> faults + 1]
  BY <1>1, <1>4, <1>5 DEF Attempted
<1> QED
  BY <1>2, <1>3, <1>5

-----------------------------------------------------------------------------
(* What the steps do to the screen and to the guide.                       *)
Slot == <<screen.open, screen.id, screen.task, screen.snap, screen.late, screen.crossed>>
Request == <<screen.running, screen.consent>>
Review == <<screen.shown, screen.items, screen.base>>

(* A decision: a suggestion fitting the guide is written, the review is    *)
(* brought up to date and one batch is handed the result.                  *)
Decided(b, good, items) ==
    /\ good \subseteq Fitting /\ items \in [Suggestions -> Decisions]
    /\ b = [task |-> screen.task, snap |-> screen.snap, open |-> opens,
            items |-> items, pc |-> "begin", ok |-> FALSE]
    /\ batches' = batches \cup {b}
    /\ AcceptedIn(items) = AcceptedIn(screen.items) \cup good
    /\ guide' \in [text : Texts, loaded : Texts, clean : BOOLEAN]
    /\ guide'.text = [s \in Suggestions |->
                        IF s \in good THEN SuggestedBy(screen.task) ELSE guide.text[s]]
    /\ guide'.loaded = guide.loaded /\ guide'.clean = (guide.clean /\ good = {})
    /\ good = {} => guide' = guide
    /\ written' = written \cup ({screen.task} \X good)
    /\ screen' \in Screen /\ screen'.waiting /\ Slot' = Slot /\ Request' = Request
    /\ screen'.shown => /\ screen'.items = items
                        /\ screen'.base = IF kind = "visual" /\ good # {}
                                          THEN guide'.text ELSE screen.base
    /\ UNCHANGED <<kind, disk, tasks, runs, opens, edits, faults>>

Decision == MayDecide /\ \E b, good, items : Decided(b, good, items)

(* What scheduling a batch leaves on the screen.                           *)
LEMMA ScheduleIs ==
    ASSUME TypeOK, NEW items \in [Suggestions -> Decisions], NEW base \in Texts,
           NEW shown \in BOOLEAN, Schedule(items, base, shown), screen.shown
    PROVE  /\ screen' \in Screen /\ screen'.waiting /\ Slot' = Slot /\ Request' = Request
           /\ screen'.shown => screen'.items = items /\ screen'.base = base
           /\ batches' = batches \cup
                {[task |-> screen.task, snap |-> screen.snap, open |-> opens,
                  items |-> items, pc |-> "begin", ok |-> FALSE]}
<1> DEFINE next == [screen EXCEPT !.items = items, !.base = base, !.waiting = TRUE]
<1>1. screen \in Screen
  BY DEF TypeOK
<1>2. /\ next \in Screen /\ next.waiting /\ next.items = items /\ next.base = base
      /\ <<next.open, next.id, next.task, next.snap, next.late, next.crossed>> = Slot
      /\ <<next.running, next.consent>> = Request
  BY <1>1 DEF Screen, Slot, Request
<1>3. screen' = IF shown THEN next ELSE Hidden(next)
  BY DEF Schedule
<1> HIDE DEF next
<1>4. CASE shown
  BY <1>2, <1>3, <1>4 DEF Schedule, Slot, Request
<1>5. CASE ~shown
  <2>1. screen' = Hidden(next)
    BY <1>3, <1>5
  <2>2. /\ screen' \in Screen /\ screen'.waiting /\ ~screen'.shown
        /\ screen'.open = next.open /\ screen'.id = next.id
        /\ screen'.running = next.running /\ screen'.consent = next.consent
        /\ screen'.task = next.task /\ screen'.snap = next.snap
        /\ screen'.late = next.late /\ screen'.crossed = next.crossed
    BY <1>2, <2>1, HiddenHolds, HiddenIs
  <2> QED
    BY <1>2, <2>2 DEF Schedule, Slot, Request
<1> QED
  BY <1>4, <1>5

LEMMA WriteIs ==
    ASSUME TypeOK, screen.task \in Runs, NEW good \in SUBSET Suggestions, Write(good)
    PROVE  /\ guide' \in [text : Texts, loaded : Texts, clean : BOOLEAN]
           /\ guide'.text = [s \in Suggestions |->
                               IF s \in good THEN SuggestedBy(screen.task) ELSE guide.text[s]]
           /\ guide'.loaded = guide.loaded /\ guide'.clean = (guide.clean /\ good = {})
           /\ good = {} => guide' = guide
           /\ written' = written \cup ({screen.task} \X good)
<1>1. guide \in [text : Texts, loaded : Texts, clean : BOOLEAN]
  BY DEF TypeOK
<1>2. PICK text : text = [s \in Suggestions |->
                            IF s \in good THEN SuggestedBy(screen.task) ELSE guide.text[s]]
  OBVIOUS
<1>3. text \in Texts
  BY <1>1, <1>2, TextsHold DEF Texts
<1>4. guide' = [guide EXCEPT !.text = text, !.clean = guide.clean /\ good = {}]
  BY <1>2 DEF Write
<1>5. good = {} => text = guide.text
  BY <1>1, <1>2 DEF Texts
<1>6. good = {} => guide' = guide
  BY <1>1, <1>4, <1>5
<1> QED
  BY <1>1, <1>2, <1>3, <1>4, <1>6 DEF Write

LEMMA AcceptIs ==
    ASSUME TypeOK, MayDecide, NEW S \in SUBSET Suggestions, NEW shown \in BOOLEAN,
           S \subseteq PendingIn(screen.items), Accept(S, shown)
    PROVE  Decision
<1>1. PICK good : good = S \cap Fitting
  OBVIOUS
<1>2. PICK items : items = [s \in Suggestions |->
                              IF s \notin S THEN screen.items[s]
                              ELSE IF s \in good THEN "Accepted" ELSE "Stale"]
  OBVIOUS
<1>3. screen.shown /\ screen.task \in Runs /\ screen \in Screen
  BY DEF TypeOK, MayDecide
<1>4. good \in SUBSET Suggestions /\ good \subseteq Fitting /\ good \subseteq S
  BY <1>1
<1>5. items \in [Suggestions -> Decisions]
  BY <1>2, <1>3 DEF Screen, Decisions
<1>6. AcceptedIn(items) = AcceptedIn(screen.items) \cup good
  BY <1>2, <1>3, <1>4 DEF AcceptedIn, PendingIn, Screen
<1>7. /\ Write(good)
      /\ Schedule(items, IF kind = "visual" /\ good # {} THEN guide'.text ELSE screen.base,
                  shown)
      /\ UNCHANGED <<kind, disk, tasks, runs, opens, edits, faults>>
  BY <1>1, <1>2 DEF Accept
<1>8. PICK base : base = IF kind = "visual" /\ good # {} THEN guide'.text ELSE screen.base
  OBVIOUS
<1>9. /\ guide' \in [text : Texts, loaded : Texts, clean : BOOLEAN]
      /\ guide'.text = [s \in Suggestions |->
                          IF s \in good THEN SuggestedBy(screen.task) ELSE guide.text[s]]
      /\ guide'.loaded = guide.loaded /\ guide'.clean = (guide.clean /\ good = {})
      /\ good = {} => guide' = guide
      /\ written' = written \cup ({screen.task} \X good)
  BY <1>3, <1>4, <1>7, WriteIs
<1>10. base \in Texts
  BY <1>3, <1>8, <1>9 DEF Screen
<1>11. Schedule(items, base, shown)
  BY <1>7, <1>8
<1>12. PICK b : b = [task |-> screen.task, snap |-> screen.snap, open |-> opens,
                     items |-> items, pc |-> "begin", ok |-> FALSE]
  OBVIOUS
<1>13. /\ screen' \in Screen /\ screen'.waiting /\ Slot' = Slot /\ Request' = Request
       /\ screen'.shown => screen'.items = items /\ screen'.base = base
       /\ batches' = batches \cup {b}
  BY <1>3, <1>5, <1>10, <1>11, <1>12, ScheduleIs
<1>14. Decided(b, good, items)
  BY <1>4, <1>5, <1>6, <1>7, <1>8, <1>9, <1>12, <1>13 DEF Decided
<1> QED
  BY <1>14 DEF Decision

LEMMA RejectIs ==
    ASSUME TypeOK, MayDecide, NEW S \in SUBSET Suggestions,
           S \subseteq PendingIn(screen.items), Reject(S)
    PROVE  Decision
<1>2. PICK items : items = [s \in Suggestions |->
                              IF s \in S THEN "Rejected" ELSE screen.items[s]]
  OBVIOUS
<1>3. screen.shown /\ screen.task \in Runs /\ screen \in Screen
  BY DEF TypeOK, MayDecide
<1>5. items \in [Suggestions -> Decisions] /\ screen.base \in Texts
  BY <1>2, <1>3 DEF Screen, Decisions
<1>6. AcceptedIn(items) = AcceptedIn(screen.items) \cup {}
  BY <1>2, <1>3 DEF AcceptedIn, PendingIn, Screen
<1>7. /\ Schedule(items, screen.base, TRUE)
      /\ UNCHANGED <<kind, guide, disk, tasks, runs, opens, edits, faults, written>>
  BY <1>2 DEF Reject
<1>8. guide \in [text : Texts, loaded : Texts, clean : BOOLEAN]
  BY DEF TypeOK
<1>9. guide.text = [s \in Suggestions |->
                      IF s \in {} THEN SuggestedBy(screen.task) ELSE guide.text[s]]
  BY <1>8 DEF Texts
<1>12. PICK b : b = [task |-> screen.task, snap |-> screen.snap, open |-> opens,
                     items |-> items, pc |-> "begin", ok |-> FALSE]
  OBVIOUS
<1>13. /\ screen' \in Screen /\ screen'.waiting /\ Slot' = Slot /\ Request' = Request
       /\ screen'.shown => screen'.items = items /\ screen'.base = screen.base
       /\ batches' = batches \cup {b}
  BY <1>3, <1>5, <1>7, <1>12, ScheduleIs
<1>14. Decided(b, {}, items)
  BY <1>5, <1>6, <1>7, <1>8, <1>9, <1>12, <1>13 DEF Decided
<1> QED
  BY <1>14 DEF Decision

(* Every way to decide is a decision.                                      *)
LEMMA DecidingIs ==
    ASSUME TypeOK,
           \/ \E s \in Suggestions : AcceptSuggestion(s) \/ RejectSuggestion(s)
           \/ AcceptAllSuggestions \/ RejectVisualAnnotationSuggestion
    PROVE  Decision
<1>1. \A s \in Suggestions : AcceptSuggestion(s) => Decision
  BY AcceptIs DEF AcceptSuggestion, PendingIn
<1>2. \A s \in Suggestions : RejectSuggestion(s) => Decision
  BY RejectIs DEF RejectSuggestion, PendingIn
<1>3. AcceptAllSuggestions => Decision
  BY AcceptIs DEF AcceptAllSuggestions, PendingIn
<1>4. RejectVisualAnnotationSuggestion => Decision
  BY RejectIs DEF RejectVisualAnnotationSuggestion, PendingIn
<1> QED
  BY <1>1, <1>2, <1>3, <1>4

-----------------------------------------------------------------------------
(* What the steps do to the workers.  A run keeps what it was asked for.   *)
Positions == {"idle", "prepare", "prepared", "create", "start", "work", "promote", "fail",
              "answer", "done"}

Only(r) == runs' \in [Runs -> Run] /\ \A q \in Runs : q # r => runs'[q] = runs[q]

Keeps(r) == /\ runs'[r].durable = runs[r].durable
            /\ runs'[r].rev = runs[r].rev /\ runs'[r].base = runs[r].base

LEMMA GoesIs ==
    ASSUME runs \in [Runs -> Run], NEW r \in Runs, NEW pc \in Positions,
           NEW result \in {"none", "ok", "err"}, NEW excused \in BOOLEAN,
           Goes(r, pc, result, excused)
    PROVE  /\ Only(r) /\ Keeps(r)
           /\ runs'[r].pc = pc /\ runs'[r].result = result /\ runs'[r].excused = excused
           /\ runs'[r].id = runs[r].id
<1>1. runs' = [runs EXCEPT ![r] = [runs[r] EXCEPT !.pc = pc, !.result = result,
                                                  !.excused = excused]]
  BY DEF Goes
<1>2. PICK y : y = [runs[r] EXCEPT !.pc = pc, !.result = result, !.excused = excused]
  OBVIOUS
<1>3. /\ y \in Run /\ y.pc = pc /\ y.result = result /\ y.excused = excused
      /\ y.id = runs[r].id /\ y.durable = runs[r].durable
      /\ y.rev = runs[r].rev /\ y.base = runs[r].base
  BY <1>2, ZenonT(60) DEF Run, Positions
<1>4. runs' = [runs EXCEPT ![r] = y]
  BY <1>1, <1>2
<1> QED
  BY <1>3, <1>4, SMTT(20) DEF Only, Keeps

LEMMA GoesOnIs ==
    ASSUME runs \in [Runs -> Run], NEW r \in Runs, NEW pc \in Positions, GoesOn(r, pc)
    PROVE  /\ Only(r) /\ Keeps(r)
           /\ runs'[r].pc = pc /\ runs'[r].result = runs[r].result
           /\ runs'[r].excused = runs[r].excused /\ runs'[r].id = runs[r].id
<1>1. runs[r].result \in {"none", "ok", "err"} /\ runs[r].excused \in BOOLEAN
  BY DEF Run
<1> QED
  BY <1>1, GoesIs DEF GoesOn

LEMMA DoneIs ==
    ASSUME runs \in [Runs -> Run], NEW r \in Runs, Done(r)
    PROVE  /\ Only(r) /\ Keeps(r)
           /\ runs'[r].pc = "done" /\ runs'[r].result = "none" /\ runs'[r].id = 0
           /\ runs'[r].excused = runs[r].excused
<1>1. runs' = [runs EXCEPT ![r] = [runs[r] EXCEPT !.pc = "done", !.id = 0, !.result = "none",
                                                  !.cancelled = FALSE]]
  BY DEF Done
<1>2. PICK y : y = [runs[r] EXCEPT !.pc = "done", !.id = 0, !.result = "none",
                                   !.cancelled = FALSE]
  OBVIOUS
<1>3. /\ y \in Run /\ y.pc = "done" /\ y.result = "none" /\ y.id = 0
      /\ y.excused = runs[r].excused /\ y.durable = runs[r].durable
      /\ y.rev = runs[r].rev /\ y.base = runs[r].base
  BY <1>2, ZenonT(60) DEF Run
<1>4. runs' = [runs EXCEPT ![r] = y]
  BY <1>1, <1>2
<1> QED
  BY <1>3, <1>4, SMTT(20) DEF Only, Keeps

LEMMA CancelledIs ==
    ASSUME runs \in [Runs -> Run]
    PROVE  /\ Cancelled \in [Runs -> Run]
           /\ \A q \in Runs :
                /\ Cancelled[q].pc = runs[q].pc /\ Cancelled[q].id = runs[q].id
                /\ Cancelled[q].result = runs[q].result
                /\ Cancelled[q].excused = runs[q].excused
                /\ Cancelled[q].durable = runs[q].durable
                /\ Cancelled[q].rev = runs[q].rev /\ Cancelled[q].base = runs[q].base
<1>1. ASSUME NEW q \in Runs
      PROVE  \E c \in BOOLEAN : Cancelled[q] = [runs[q] EXCEPT !.cancelled = c]
  <2>1. runs[q].cancelled \in BOOLEAN
    BY DEF Run
  <2>2. PICK c : c = (\/ runs[q].cancelled
                      \/ (screen.running /\ runs[q].id = screen.id
                          /\ runs[q].pc \in {"prepare", "prepared", "create", "start", "work"}))
    OBVIOUS
  <2>3. c \in BOOLEAN
    BY <2>1, <2>2
  <2>4. Cancelled[q] = [runs[q] EXCEPT !.cancelled = c]
    BY <2>2 DEF Cancelled
  <2> QED
    BY <2>3, <2>4
<1>2. ASSUME NEW q \in Runs, NEW c \in BOOLEAN, NEW y, y = [runs[q] EXCEPT !.cancelled = c]
      PROVE  /\ y \in Run
             /\ y.pc = runs[q].pc /\ y.id = runs[q].id /\ y.result = runs[q].result
             /\ y.excused = runs[q].excused /\ y.durable = runs[q].durable
             /\ y.rev = runs[q].rev /\ y.base = runs[q].base
  BY <1>2 DEF Run
<1>3. ASSUME NEW q \in Runs
      PROVE  /\ Cancelled[q] \in Run
             /\ Cancelled[q].pc = runs[q].pc /\ Cancelled[q].id = runs[q].id
             /\ Cancelled[q].result = runs[q].result
             /\ Cancelled[q].excused = runs[q].excused
             /\ Cancelled[q].durable = runs[q].durable
             /\ Cancelled[q].rev = runs[q].rev /\ Cancelled[q].base = runs[q].base
  <2>1. PICK c \in BOOLEAN : Cancelled[q] = [runs[q] EXCEPT !.cancelled = c]
    BY <1>1
  <2>2. PICK y : y = Cancelled[q]
    OBVIOUS
  <2> QED
    BY <1>2, <2>1, <2>2
<1>4. Cancelled = [q \in Runs |-> Cancelled[q]]
  BY DEF Cancelled
<1> QED
  BY <1>3, <1>4

(* A run is asked for and takes the next number of this opening.           *)
Asks(r) ==
    /\ Only(r) /\ runs[r].pc = "idle"
    /\ runs'[r].pc = "prepare" /\ runs'[r].id = screen.id + 1
    /\ runs'[r].durable = guide.clean /\ runs'[r].rev = disk.rev
    /\ runs'[r].base = guide.text
    /\ screen' \in Screen /\ screen'.id = screen.id + 1 /\ screen'.running
    /\ ~screen'.consent /\ screen'.open = screen.open /\ screen'.task = screen.task
    /\ screen'.shown = screen.shown /\ screen'.items = screen.items
    /\ screen'.base = screen.base /\ screen'.snap = screen.snap
    /\ screen'.waiting = screen.waiting /\ screen'.late = screen.late
    /\ screen'.crossed = screen.crossed
    /\ UNCHANGED <<kind, guide, disk, tasks, batches, opens, edits, faults, written>>

LEMMA BeginIs ==
    ASSUME TypeOK, NEW r \in Runs, Begin(r)
    PROVE  Asks(r)
<1> USE DEF Asks
<1>1. /\ runs \in [Runs -> Run] /\ screen \in Screen /\ disk.rev \in Nat
      /\ guide.clean \in BOOLEAN /\ guide.text \in Texts
  BY DEF TypeOK
<1>8. screen.id \in Nat /\ screen.id + 1 \in Nat
  BY <1>1 DEF Screen
<1>9. runs[r] \in Run
  BY <1>1
<1>2. PICK y : y = [runs[r] EXCEPT !.pc = "prepare", !.id = screen.id + 1,
                                   !.durable = guide.clean, !.rev = disk.rev,
                                   !.base = guide.text]
  OBVIOUS
<1>3. /\ y \in Run /\ y.pc = "prepare" /\ y.id = screen.id + 1
      /\ y.durable = guide.clean /\ y.rev = disk.rev /\ y.base = guide.text
  BY <1>1, <1>2, <1>8, <1>9 DEF Run
<1>4. runs' = [runs EXCEPT ![r] = y]
  BY <1>2 DEF Begin
<1>5. Only(r) /\ runs'[r] = y
  BY <1>1, <1>3, <1>4 DEF Only
<1>6. screen' = [screen EXCEPT !.id = screen.id + 1, !.running = TRUE, !.consent = FALSE]
  BY DEF Begin
<1>7. /\ screen' \in Screen /\ screen'.id = screen.id + 1 /\ screen'.running
      /\ ~screen'.consent /\ screen'.open = screen.open /\ screen'.task = screen.task
      /\ screen'.shown = screen.shown /\ screen'.items = screen.items
      /\ screen'.base = screen.base /\ screen'.snap = screen.snap
      /\ screen'.waiting = screen.waiting /\ screen'.late = screen.late
      /\ screen'.crossed = screen.crossed
  <2>1. PICK n \in Nat : n = screen.id + 1
    BY <1>8
  <2>2. screen' = [screen EXCEPT !.id = n, !.running = TRUE, !.consent = FALSE]
    BY <1>6, <2>1
  <2> QED
    BY <1>1, <2>1, <2>2 DEF Screen
<1> QED
  BY <1>3, <1>5, <1>7 DEF Begin

(* A review comes onto the screen, at the end of a run or of a wait.       *)
Shows(on, t, base) ==
    /\ screen' \in Screen /\ screen'.shown /\ screen'.task = t /\ screen'.items = Undecided
    /\ screen'.base = base /\ screen'.snap = "ReadyForReview"
    /\ screen'.open = on.open /\ screen'.id = on.id /\ screen'.consent = on.consent
    /\ screen'.waiting = on.waiting /\ screen'.late = on.late
    /\ screen'.crossed = on.crossed

LEMMA ShowIs ==
    ASSUME screen \in Screen, NEW t \in Runs, NEW base \in Texts, Show(t, base)
    PROVE  Shows(screen, t, base) /\ ~screen'.running
BY UndecidedHolds DEF Show, Shows, Screen, TaskStatus, Active, Final

LEMMA RestoredIs ==
    ASSUME NEW on \in Screen, NEW text, NEW base \in Texts, Restored(on, text, base)
    PROVE  \/ screen' = on
           \/ \E r \in Runs : Fresh(r, text) /\ Shows(on, r, base)
                                /\ screen'.running = on.running
<1>1. \/ screen' = on
      \/ \E r \in Runs :
           /\ Fresh(r, text)
           /\ screen' = [on EXCEPT !.shown = TRUE, !.task = r, !.items = Undecided,
                                   !.base = base, !.snap = "ReadyForReview"]
  BY DEF Restored
<1>2. ASSUME NEW r \in Runs,
             screen' = [on EXCEPT !.shown = TRUE, !.task = r, !.items = Undecided,
                                  !.base = base, !.snap = "ReadyForReview"]
      PROVE  Shows(on, r, base) /\ screen'.running = on.running
  BY <1>2, UndecidedHolds DEF Shows, Screen, TaskStatus, Active, Final
<1> QED
  BY <1>1, <1>2

(* Reconciliation only closes tasks.                                       *)
LEMMA ReconciledIs ==
    ASSUME TypeOK, NEW text
    PROVE  /\ Reconciled(text) \in [Runs -> Task]
           /\ \A r \in Runs :
                /\ Reconciled(text)[r].applied = tasks[r].applied
                /\ \/ Reconciled(text)[r] = tasks[r]
                   \/ /\ Reconciled(text)[r].status \in {"Stale", "Interrupted"}
                      /\ tasks[r].status \in Active
                /\ Fresh(r, text) => Reconciled(text)[r] = tasks[r]
<1>1. ASSUME NEW r \in Runs
      PROVE  /\ Reconciled(text)[r] \in Task
             /\ Reconciled(text)[r].applied = tasks[r].applied
             /\ \/ Reconciled(text)[r] = tasks[r]
                \/ /\ Reconciled(text)[r].status \in {"Stale", "Interrupted"}
                   /\ tasks[r].status \in Active
             /\ Fresh(r, text) => Reconciled(text)[r] = tasks[r]
  <2>1. tasks[r] \in Task
    BY DEF TypeOK
  <2>2. PICK y : y = Reconciled(text)[r]
    OBVIOUS
  <2>3. \/ y = tasks[r]
        \/ /\ tasks[r].status \in {"Created", "Running", "Applying"}
           /\ y = [tasks[r] EXCEPT !.status = "Interrupted"]
        \/ /\ tasks[r].status = "ReadyForReview" /\ ~Fresh(r, text)
           /\ y = [tasks[r] EXCEPT !.status = "Stale", !.live = FALSE]
    BY <2>2 DEF Reconciled
  <2>4. tasks[r].status # "ReadyForReview" => ~Fresh(r, text)
    BY DEF Fresh
  <2> QED
    BY <2>1, <2>2, <2>3, <2>4 DEF Task, TaskStatus, Active
<1>2. Reconciled(text) = [r \in Runs |-> Reconciled(text)[r]]
  BY DEF Reconciled
<1> QED
  BY <1>1, <1>2

(* Leaving a step takes its review away and may mark its task stale.       *)
DismissesStale ==
    \/ UNCHANGED <<screen, tasks, faults>> /\ ~(kind = "visual" /\ screen.shown)
    \/ /\ kind = "visual" /\ screen.shown
       /\ screen' \in Screen /\ ~screen'.shown /\ screen'.task = NoTask
       /\ screen'.open = screen.open /\ screen'.id = screen.id
       /\ screen'.running = screen.running /\ screen'.consent = screen.consent
       /\ screen'.waiting = screen.waiting /\ screen'.late = screen.late
       /\ screen'.crossed = screen.crossed
       /\ tasks' \in [Runs -> Task] /\ faults' \in Nat
       /\ \A q \in Runs : q # screen.task => tasks'[q] = tasks[q]
       /\ \/ tasks' = tasks
          \/ /\ tasks[screen.task].status = "ReadyForReview"
             /\ tasks'[screen.task].status = "Stale"
       /\ faults' = 0 => faults = 0

LEMMA DismissStaleIs ==
    ASSUME TypeOK, DismissStaleReview
    PROVE  DismissesStale
<1> USE DEF DismissesStale
<1>1. CASE ~(kind = "visual" /\ screen.shown)
  BY <1>1 DEF DismissStaleReview
<1>2. CASE kind = "visual" /\ screen.shown
  <2>1. screen' = [Hidden(screen) EXCEPT !.task = NoTask, !.snap = "None"]
    BY <1>2 DEF DismissStaleReview
  <2>2. PICK h : h = Hidden(screen)
    OBVIOUS
  <2>3. screen \in Screen /\ tasks \in [Runs -> Task] /\ faults \in Nat /\ screen.task \in Runs
    BY <1>2 DEF TypeOK
  <2>4. /\ h \in Screen /\ ~h.shown /\ h.open = screen.open /\ h.id = screen.id
        /\ h.running = screen.running /\ h.consent = screen.consent
        /\ h.waiting = screen.waiting /\ h.late = screen.late /\ h.crossed = screen.crossed
    BY <2>2, <2>3, HiddenHolds, HiddenIs
  <2>5. screen' = [h EXCEPT !.task = NoTask, !.snap = "None"]
    BY <2>1, <2>2
  <2>6. /\ screen' \in Screen /\ ~screen'.shown /\ screen'.task = NoTask
        /\ screen'.open = h.open /\ screen'.id = h.id
        /\ screen'.running = h.running /\ screen'.consent = h.consent
        /\ screen'.waiting = h.waiting /\ screen'.late = h.late /\ screen'.crossed = h.crossed
    BY <2>4, <2>5 DEF Screen, TaskStatus
  <2>7. CASE screen.snap = "ReadyForReview"
    <3>4. PICK t \in Runs : t = screen.task
      BY <2>3
    <3>1. PICK o \in Transaction(t, "ReadyForReview", "Stale", {}) : CommitAs(o)
      BY <1>2, <2>7, <3>4 DEF DismissStaleReview
    <3>2. "Stale" \in TaskStatus /\ {} \in SUBSET Suggestions
      BY DEF TaskStatus
    <3>6. tasks \in [Runs -> Task] /\ faults \in Nat
      BY <2>3
    <3>3. Attempted(o, t, "ReadyForReview", "Stale", {})
      BY <3>6, <3>1, <3>2, TransactionIs
    <3>5. /\ tasks' \in [Runs -> Task] /\ faults' \in Nat
          /\ \A q \in Runs : q # screen.task => tasks'[q] = tasks[q]
          /\ \/ tasks' = tasks
             \/ /\ tasks[screen.task].status = "ReadyForReview"
                /\ tasks'[screen.task].status = "Stale"
          /\ faults' = 0 => faults = 0
      BY <3>1, <3>3, <3>4 DEF CommitAs, Attempted
    <3> QED
      BY <1>2, <2>4, <2>6, <3>5
  <2>8. CASE screen.snap # "ReadyForReview"
    <3>1. UNCHANGED <<tasks, faults>>
      BY <1>2, <2>8 DEF DismissStaleReview
    <3> QED
      BY <1>2, <2>3, <2>4, <2>6, <3>1
  <2> QED
    BY <2>7, <2>8
<1> QED
  BY <1>1, <1>2

-----------------------------------------------------------------------------
(* What a worker at its task does: only its own run and task change, and   *)
(* the task only from the creation on and while it is created or running.  *)
WorksOn(r) ==
    /\ Only(r) /\ Keeps(r) /\ runs'[r].id = runs[r].id
    /\ runs[r].pc \notin {"idle", "prepare", "prepared", "answer", "done"}
    /\ runs'[r].pc \notin Early \cup AtRest
    /\ tasks' \in [Runs -> Task] /\ \A q \in Runs : q # r => tasks'[q] = tasks[q]
    /\ \/ tasks'[r] = tasks[r]
       \/ runs[r].pc = "create"
       \/ tasks[r].status \in {"Created", "Running"} /\ tasks'[r].status \notin Final
    /\ faults' \in Nat /\ (faults' = 0 => faults = 0)
    /\ UNCHANGED <<kind, guide, disk, screen, batches, opens, edits, written>>

LEMMA RefusalHolds == Refusal \in {"none", "ok", "err"} /\ Refusal # "ok"
BY DEF Refusal

(* The context of a run is prepared; its worker goes on or gives up.       *)
Prepares(r) ==
    /\ Only(r) /\ runs[r].pc = "prepare"
    /\ runs'[r].id = runs[r].id /\ runs'[r].durable = runs[r].durable
    /\ runs'[r].rev = runs[r].rev
    /\ \/ runs'[r].pc \in {"prepared", "create"}
       \/ runs'[r].pc = "answer" /\ runs'[r].result = "none"
    /\ UNCHANGED <<kind, guide, disk, tasks, screen, batches, opens, edits, faults,
                   written>>

LEMMA PrepareIs ==
    ASSUME TypeOK, NEW r \in Runs, Prepare(r)
    PROVE  Prepares(r)
<1> USE DEF Prepares
<1>1. /\ runs \in [Runs -> Run] /\ runs[r] \in Run /\ disk.text \in Texts
      /\ runs[r].pc = "prepare"
  BY DEF TypeOK, Prepare
<1>2. CASE kind = "captions"
  <2>1. PICK y : y = [runs[r] EXCEPT
                        !.pc = "prepared",
                        !.base = IF runs[r].durable THEN disk.text ELSE runs[r].base,
                        !.result = IF runs[r].durable => disk.rev = runs[r].rev
                                   THEN "ok" ELSE "err"]
    OBVIOUS
  <2>2. /\ y \in Run /\ y.pc = "prepared" /\ y.id = runs[r].id
        /\ y.durable = runs[r].durable /\ y.rev = runs[r].rev
    BY <1>1, <2>1 DEF Run
  <2>3. runs' = [runs EXCEPT ![r] = y]
    BY <1>2, <2>1 DEF Prepare
  <2> QED
    BY <1>1, <2>2, <2>3 DEF Only, Prepare
<1>3. CASE kind # "captions"
  <2>1. GoesOn(r, "create") \/ Goes(r, "answer", "none", FALSE)
    BY <1>3 DEF Prepare
  <2>2. "create" \in Positions /\ "answer" \in Positions
    BY DEF Positions
  <2> QED
    BY <1>1, <2>1, <2>2, GoesIs, GoesOnIs DEF Prepare, Keeps
<1> QED
  BY <1>2, <1>3

(* The workspace lets a caption worker begin, or ends the run.             *)
Enters(r) ==
    /\ Only(r) /\ Keeps(r) /\ runs[r].pc = "prepared"
    /\ \/ /\ runs'[r].pc = "create" /\ runs'[r].id = runs[r].id
          /\ UNCHANGED screen
       \/ /\ runs'[r].pc = "done" /\ runs'[r].id = 0
          /\ \/ UNCHANGED screen /\ (~screen.open \/ runs[r].id # screen.id)
             \/ screen' = [screen EXCEPT !.running = FALSE]
    /\ UNCHANGED <<kind, guide, disk, tasks, batches, opens, edits, faults, written>>

LEMMA CaptionContextPreparedIs ==
    ASSUME TypeOK, NEW r \in Runs, CaptionContextPrepared(r)
    PROVE  Enters(r)
<1> USE DEF Enters
<1>1. runs \in [Runs -> Run] /\ runs[r].pc = "prepared" /\ "create" \in Positions
  BY DEF TypeOK, CaptionContextPrepared, Positions
<1>2. \/ Done(r) /\ UNCHANGED screen /\ (~screen.open \/ runs[r].id # screen.id)
      \/ Done(r) /\ screen' = [screen EXCEPT !.running = FALSE]
      \/ GoesOn(r, "create") /\ UNCHANGED screen
  BY DEF CaptionContextPrepared
<1> QED
  BY <1>1, <1>2, DoneIs, GoesOnIs DEF CaptionContextPrepared

(* The task is created, or its creation is reported as failed.             *)
Creates(r) ==
    /\ WorksOn(r) /\ runs[r].pc = "create"
    /\ tasks'[r] = tasks[r] \/ tasks'[r].status = "Created"
    /\ \/ runs'[r].pc = "start"
       \/ runs'[r].pc = "answer" /\ runs'[r].excused /\ runs'[r].result = "err"

LEMMA CreateTaskIs ==
    ASSUME TypeOK, NEW r \in Runs, CreateTask(r)
    PROVE  Creates(r)
<1> USE DEF Creates
<1>1. /\ runs \in [Runs -> Run] /\ tasks \in [Runs -> Task] /\ faults \in Nat
      /\ runs[r].pc = "create" /\ "start" \in Positions /\ "answer" \in Positions
      /\ UNCHANGED <<kind, guide, disk, screen, batches, opens, edits, written>>
  BY DEF TypeOK, CreateTask, Positions
<1>2. PICK y : y = [tasks[r] EXCEPT !.status = "Created", !.live = TRUE]
  OBVIOUS
<1>3. y \in Task /\ y.status = "Created"
  BY <1>1, <1>2 DEF Task, TaskStatus, Active
<1>4. \/ GoesOn(r, "start") /\ UNCHANGED faults
      \/ Goes(r, "answer", "err", TRUE) /\ faults' = faults + 1
  BY DEF CreateTask
<1>5. UNCHANGED tasks \/ tasks' = [tasks EXCEPT ![r] = y]
  BY <1>2 DEF CreateTask
<1>6. /\ tasks' \in [Runs -> Task] /\ \A q \in Runs : q # r => tasks'[q] = tasks[q]
      /\ tasks'[r] = tasks[r] \/ tasks'[r].status = "Created"
  BY <1>1, <1>3, <1>5
<1>7. faults' \in Nat /\ (faults' = 0 => faults = 0)
  <2>1. faults \in Nat /\ (faults' = faults \/ faults' = faults + 1)
    BY <1>1, <1>4
  <2> QED
    BY <2>1
<1>8. /\ Only(r) /\ Keeps(r) /\ runs'[r].id = runs[r].id
      /\ \/ runs'[r].pc = "start"
         \/ runs'[r].pc = "answer" /\ runs'[r].excused /\ runs'[r].result = "err"
  BY <1>1, <1>4, GoesIs, GoesOnIs
<1> QED
  BY <1>1, <1>6, <1>7, <1>8 DEF WorksOn, Early, AtRest

(* The task runs, or the start is reported as failed.                      *)
Starts(r) ==
    /\ WorksOn(r) /\ runs[r].pc = "start"
    /\ tasks'[r] = tasks[r] \/ tasks'[r].status = "Running"
    /\ \/ runs'[r].pc = "work" /\ tasks'[r].status = "Running"
       \/ runs'[r].pc = "fail" /\ runs'[r].excused /\ runs'[r].result # "ok"

LEMMA StartAttemptIs ==
    ASSUME TypeOK, NEW r \in Runs, StartAttempt(r)
    PROVE  Starts(r)
<1> USE DEF Starts
<1>1. /\ runs \in [Runs -> Run] /\ tasks \in [Runs -> Task] /\ faults \in Nat
      /\ runs[r].pc = "start" /\ "work" \in Positions /\ "fail" \in Positions
      /\ "Running" \in TaskStatus /\ {} \in SUBSET Suggestions
      /\ UNCHANGED <<kind, guide, disk, screen, batches, opens, edits, written>>
  BY DEF TypeOK, StartAttempt, Positions, TaskStatus, Active
<1>2. PICK o \in Transaction(r, "Created", "Running", {}) :
           /\ tasks' = o.tasks /\ faults' = o.faults
           /\ IF o.ok THEN GoesOn(r, "work") ELSE Goes(r, "fail", Refusal, TRUE)
  BY DEF StartAttempt, CommitAs
<1>3. Attempted(o, r, "Created", "Running", {})
  BY <1>1, <1>2, TransactionIs
<1>5. o.ok \in BOOLEAN
  BY <1>3 DEF Attempted
<1>4. /\ Only(r) /\ Keeps(r) /\ runs'[r].id = runs[r].id
      /\ \/ runs'[r].pc = "work" /\ o.ok
         \/ runs'[r].pc = "fail" /\ runs'[r].excused /\ runs'[r].result # "ok"
  <2>1. CASE o.ok
    BY <1>1, <1>2, <1>5, <2>1, GoesOnIs
  <2>2. CASE ~o.ok
    <3>1. Goes(r, "fail", Refusal, TRUE)
      BY <1>2, <1>5, <2>2
    <3>2. /\ Only(r) /\ Keeps(r) /\ runs'[r].id = runs[r].id
          /\ runs'[r].pc = "fail" /\ runs'[r].excused /\ runs'[r].result # "ok"
      <4>1. PICK result \in {"none", "ok", "err"} : result = Refusal /\ result # "ok"
        BY RefusalHolds
      <4>2. PICK excused \in BOOLEAN : excused = TRUE
        OBVIOUS
      <4>3. Goes(r, "fail", result, excused)
        BY <3>1, <4>1, <4>2
      <4>4. /\ Only(r) /\ Keeps(r) /\ runs'[r].id = runs[r].id
            /\ runs'[r].pc = "fail" /\ runs'[r].excused = excused /\ runs'[r].result = result
        BY <1>1, <4>3, GoesIs
      <4> QED
        BY <4>1, <4>2, <4>4
    <3> QED
      BY <3>2
  <2> QED
    BY <2>1, <2>2
<1> QED
  BY <1>1, <1>2, <1>3, <1>4 DEF WorksOn, Early, AtRest, Attempted, Final

(* The model suggests, declines or fails.                                  *)
Proposes(r) ==
    /\ WorksOn(r) /\ runs[r].pc = "work" /\ UNCHANGED <<tasks, faults>>
    /\ \/ runs'[r].pc = "promote"
       \/ runs'[r].pc = "answer" /\ runs'[r].excused /\ runs'[r].result = "none"
       \/ runs'[r].pc = "fail" /\ runs'[r].result # "ok"

LEMMA WorkIs ==
    ASSUME TypeOK, NEW r \in Runs, Work(r)
    PROVE  Proposes(r)
<1> USE DEF Proposes
<1>1. /\ runs \in [Runs -> Run] /\ tasks \in [Runs -> Task] /\ faults \in Nat
      /\ runs[r].pc = "work"
      /\ "promote" \in Positions /\ "answer" \in Positions /\ "fail" \in Positions
      /\ UNCHANGED <<kind, guide, disk, tasks, screen, batches, opens, edits, faults, written>>
  BY DEF TypeOK, Work, Positions
<1>2. \/ GoesOn(r, "promote")
      \/ Goes(r, "answer", "none", TRUE)
      \/ Goes(r, "fail", Refusal, FALSE)
  BY DEF Work
<1>3. /\ Only(r) /\ Keeps(r) /\ runs'[r].id = runs[r].id
      /\ \/ runs'[r].pc = "promote"
         \/ runs'[r].pc = "answer" /\ runs'[r].excused /\ runs'[r].result = "none"
         \/ runs'[r].pc = "fail" /\ runs'[r].result # "ok"
  <2>1. CASE GoesOn(r, "promote")
    BY <1>1, <2>1, GoesOnIs
  <2>2. CASE Goes(r, "answer", "none", TRUE)
    BY <1>1, <2>2, GoesIs, ZenonT(60)
  <2>3. CASE Goes(r, "fail", Refusal, FALSE)
    BY <1>1, <2>3, RefusalHolds, GoesIs, ZenonT(60)
  <2> QED
    BY <1>2, <2>1, <2>2, <2>3
<1> QED
  BY <1>1, <1>3, SMTT(20) DEF WorksOn, Early, AtRest

(* The suggestions are promoted, or the run fails.                         *)
Promotes(r) ==
    /\ WorksOn(r) /\ runs[r].pc = "promote"
    /\ tasks'[r] = tasks[r] \/ tasks'[r].status = "ReadyForReview"
    /\ \/ runs'[r].pc = "answer" /\ tasks'[r].status = "ReadyForReview"
       \/ runs'[r].pc = "fail" /\ runs'[r].result # "ok"

LEMMA PromoteIs ==
    ASSUME TypeOK, NEW r \in Runs, Promote(r)
    PROVE  Promotes(r)
<1> USE DEF Promotes
<1>1. /\ runs \in [Runs -> Run] /\ tasks \in [Runs -> Task] /\ faults \in Nat
      /\ runs[r].pc = "promote" /\ "answer" \in Positions /\ "fail" \in Positions
      /\ "ReadyForReview" \in TaskStatus /\ {} \in SUBSET Suggestions
      /\ UNCHANGED <<kind, guide, disk, screen, batches, opens, edits, written>>
  BY DEF TypeOK, Promote, Positions, TaskStatus, Active
<1>2. PICK o \in Transaction(r, "Running", "ReadyForReview", {}) :
           /\ tasks' = o.tasks /\ faults' = o.faults
           /\ IF o.ok \/ (kind = "visual" /\ o.tasks[r].status = "ReadyForReview")
              THEN Goes(r, "answer", "ok", FALSE)
              ELSE Goes(r, "fail", Refusal, FALSE)
  BY DEF Promote, CommitAs
<1>3. Attempted(o, r, "Running", "ReadyForReview", {})
  BY <1>1, <1>2, TransactionIs
<1>5. o.ok \in BOOLEAN
  BY <1>3 DEF Attempted
<1>4. /\ Only(r) /\ Keeps(r) /\ runs'[r].id = runs[r].id
      /\ \/ runs'[r].pc = "answer" /\ (o.ok \/ o.tasks[r].status = "ReadyForReview")
         \/ runs'[r].pc = "fail" /\ runs'[r].result # "ok"
  <2>1. CASE o.ok \/ (kind = "visual" /\ o.tasks[r].status = "ReadyForReview")
    <3>1. Goes(r, "answer", "ok", FALSE)
      BY <1>2, <2>1
    <3>2. /\ Only(r) /\ Keeps(r) /\ runs'[r].id = runs[r].id /\ runs'[r].pc = "answer"
      BY <1>1, <3>1, GoesIs
    <3> QED
      BY <1>5, <2>1, <3>2
  <2>2. CASE ~(o.ok \/ (kind = "visual" /\ o.tasks[r].status = "ReadyForReview"))
    <3>1. Goes(r, "fail", Refusal, FALSE)
      BY <1>2, <2>2
    <3>2. /\ Only(r) /\ Keeps(r) /\ runs'[r].id = runs[r].id
          /\ runs'[r].pc = "fail" /\ runs'[r].result # "ok"
      <4>1. PICK result \in {"none", "ok", "err"} : result = Refusal /\ result # "ok"
        BY RefusalHolds
      <4>2. PICK excused \in BOOLEAN : excused = FALSE
        OBVIOUS
      <4>3. Goes(r, "fail", result, excused)
        BY <3>1, <4>1, <4>2
      <4> QED
        BY <1>1, <4>1, <4>2, <4>3, GoesIs
    <3> QED
      BY <3>2
  <2> QED
    BY <2>1, <2>2
<1> QED
  BY <1>1, <1>2, <1>3, <1>4 DEF WorksOn, Early, AtRest, Attempted, Final

(* A failure is recorded on a running task, if the store takes it.         *)
Fails(r) ==
    /\ WorksOn(r) /\ runs[r].pc = "fail" /\ runs'[r].pc = "answer"
    /\ tasks'[r] = tasks[r] \/ tasks'[r].status = "Failed"
    /\ \/ runs'[r].result # "ok" /\ (tasks'[r].status = "Failed" \/ runs'[r].excused)
       \/ /\ runs'[r].result = runs[r].result /\ runs'[r].excused = runs[r].excused
          /\ tasks'[r] = tasks[r] /\ tasks[r].status # "Running"

LEMMA PersistTerminalIs ==
    ASSUME TypeOK, NEW r \in Runs, PersistTerminal(r)
    PROVE  Fails(r)
<1> USE DEF Fails
<1>1. /\ runs \in [Runs -> Run] /\ tasks \in [Runs -> Task] /\ faults \in Nat
      /\ runs[r].pc = "fail" /\ "answer" \in Positions
      /\ "Failed" \in TaskStatus /\ {} \in SUBSET Suggestions
      /\ UNCHANGED <<kind, guide, disk, screen, batches, opens, edits, written>>
  BY DEF TypeOK, PersistTerminal, Positions, TaskStatus
<1>2. CASE tasks[r].status = "Running"
  <2>1. PICK o \in Transaction(r, "Running", "Failed", {}) :
             /\ tasks' = o.tasks /\ faults' = o.faults
             /\ Goes(r, "answer", Refusal, ~o.ok)
    BY <1>2 DEF PersistTerminal, CommitAs
  <2>2. Attempted(o, r, "Running", "Failed", {})
    BY <1>1, <2>1, TransactionIs
  <2>3. PICK excused \in BOOLEAN : excused = ~o.ok
    OBVIOUS
  <2>4. Goes(r, "answer", Refusal, excused)
    BY <2>1, <2>3
  <2>5. /\ Only(r) /\ Keeps(r) /\ runs'[r].id = runs[r].id /\ runs'[r].pc = "answer"
        /\ runs'[r].result # "ok" /\ runs'[r].excused = excused
    BY <1>1, <2>4, RefusalHolds, GoesIs
  <2>6. tasks'[r].status = "Failed" \/ runs'[r].excused
    BY <2>1, <2>2, <2>3, <2>5 DEF Attempted
  <2> QED
    BY <1>1, <2>1, <2>2, <2>5, <2>6 DEF WorksOn, Early, AtRest, Attempted, Final
<1>3. CASE tasks[r].status # "Running"
  <2>1. GoesOn(r, "answer") /\ UNCHANGED <<tasks, faults>>
    BY <1>3 DEF PersistTerminal
  <2>2. /\ Only(r) /\ Keeps(r) /\ runs'[r].id = runs[r].id /\ runs'[r].pc = "answer"
        /\ runs'[r].result = runs[r].result /\ runs'[r].excused = runs[r].excused
    BY <1>1, <2>1, GoesOnIs
  <2> QED
    BY <1>1, <1>3, <2>1, <2>2 DEF WorksOn, Early, AtRest
<1> QED
  BY <1>2, <1>3

(* The answer of a run ends it, and is shown, noted or dropped.            *)
Answers(r) ==
    /\ Only(r) /\ Keeps(r) /\ runs[r].pc = "answer"
    /\ runs'[r].pc = "done" /\ runs'[r].id = 0 /\ runs'[r].excused = runs[r].excused
    /\ \/ /\ UNCHANGED screen
          /\ ~screen.open \/ (kind = "visual" /\ ~MatchesScreen(r))
       \/ /\ screen.open /\ (kind = "visual" => MatchesScreen(r))
          /\ \/ /\ runs[r].result = "ok" /\ ~screen'.running
                /\ Shows(screen, r, runs[r].base)
             \/ /\ kind = "visual"
                /\ screen' = [screen EXCEPT !.running = FALSE, !.task = NoTask,
                                            !.snap = "None"]
             \/ screen' = [screen EXCEPT !.running = FALSE]
    /\ UNCHANGED <<kind, guide, disk, tasks, batches, opens, edits, faults, written>>

LEMMA ProposalLoadedIs ==
    ASSUME TypeOK, NEW r \in Runs, ProposalLoaded(r)
    PROVE  Answers(r)
<1> USE DEF Answers
<1>1. /\ runs \in [Runs -> Run] /\ screen \in Screen /\ runs[r].base \in Texts
      /\ runs[r].pc = "answer"
  BY DEF TypeOK, ProposalLoaded, Run
<1>2. /\ Only(r) /\ Keeps(r) /\ runs'[r].pc = "done" /\ runs'[r].id = 0
      /\ runs'[r].excused = runs[r].excused
  BY <1>1, DoneIs DEF ProposalLoaded
<1>3. CASE ~screen.open \/ (kind = "visual" /\ (~screen.running \/ runs[r].id # screen.id))
  <2>1. UNCHANGED screen
    BY <1>3 DEF ProposalLoaded
  <2> QED
    BY <1>1, <1>2, <1>3, <2>1 DEF ProposalLoaded, MatchesScreen
<1>4. CASE ~(~screen.open \/ (kind = "visual" /\ (~screen.running \/ runs[r].id # screen.id)))
  <2>1. \/ runs[r].result = "ok" /\ Show(r, runs[r].base)
        \/ /\ kind = "visual"
           /\ screen' = [screen EXCEPT !.running = FALSE, !.task = NoTask, !.snap = "None"]
        \/ screen' = [screen EXCEPT !.running = FALSE]
    BY <1>4 DEF ProposalLoaded
  <2>2. Show(r, runs[r].base) => Shows(screen, r, runs[r].base) /\ ~screen'.running
    BY <1>1, ShowIs
  <2> QED
    BY <1>1, <1>2, <1>4, <2>1, <2>2 DEF ProposalLoaded, MatchesScreen
<1> QED
  BY <1>3, <1>4

-----------------------------------------------------------------------------
(* What a batch does: it takes another position, and only its task moves.  *)
Replaces(b, c) ==
    /\ batches' = (batches \ {b}) \cup {c} /\ c \in Batches
    /\ c.task = b.task /\ c.open = b.open /\ c.items = b.items
    /\ tasks' \in [Runs -> Task] /\ \A q \in Runs : q # b.task => tasks'[q] = tasks[q]
    /\ faults' \in Nat /\ (faults' = 0 => faults = 0)
    /\ UNCHANGED <<kind, guide, disk, runs, screen, opens, edits, written>>

Begins(b, c) ==
    LET t == b.task IN
    \/ /\ b.snap = "ReadyForReview" /\ c.pc = "final" /\ c.snap = "Applying"
       /\ tasks[t].status = "ReadyForReview" /\ tasks'[t].status = "Applying"
    \/ /\ b.snap = "ReadyForReview" /\ c.pc = "answer" /\ c.snap = b.snap
       /\ \/ tasks' = tasks
          \/ tasks[t].status = "ReadyForReview" /\ tasks'[t].status = "Applying"
       /\ faults' = 0 => tasks[t].status # "ReadyForReview" /\ tasks' = tasks
    \/ /\ b.snap # "ReadyForReview" /\ c.pc = "final" /\ c.snap = b.snap
       /\ UNCHANGED <<tasks, faults>>

Finishes(b, c) ==
    LET t == b.task
        ends == /\ tasks[t].status = "Applying" /\ tasks'[t].status = Outcome(b.items)
                /\ tasks'[t].applied = AcceptedIn(b.items)
    IN
    /\ c.pc = "answer"
    /\ \/ c.ok /\ c.snap = b.snap /\ UNCHANGED <<tasks, faults>>
       \/ b.snap # "Applying" /\ c.snap = b.snap /\ UNCHANGED <<tasks, faults>>
       \/ b.snap = "Applying" /\ c.ok /\ c.snap = Outcome(b.items) /\ ends
       \/ /\ b.snap = "Applying" /\ c.snap = b.snap
          /\ tasks' = tasks \/ ends
          /\ faults' = 0 => tasks[t].status # "Applying" /\ tasks' = tasks

LEMMA BatchIs ==
    ASSUME TypeOK, NEW b \in batches
    PROVE  /\ b \in Batches /\ b.task \in Runs
           /\ b.snap \in {"ReadyForReview", "Applying"} \cup Final
           /\ b.open \in Nat /\ b.items \in [Suggestions -> Decisions] /\ b.ok \in BOOLEAN
           /\ tasks \in [Runs -> Task] /\ faults \in Nat
BY DEF TypeOK, Batches

LEMMA BeginApplyIs ==
    ASSUME TypeOK, NEW b \in batches, BeginApply(b)
    PROVE  b.pc = "begin" /\ \E c : Replaces(b, c) /\ Begins(b, c)
<1>1. /\ b \in Batches /\ b.task \in Runs /\ tasks \in [Runs -> Task] /\ faults \in Nat
      /\ b.pc = "begin" /\ UNCHANGED <<kind, guide, disk, runs, screen, opens, edits, written>>
      /\ "Applying" \in TaskStatus /\ {} \in SUBSET Suggestions
  BY BatchIs DEF BeginApply, TaskStatus, Active
<1>2. PICK final, entered, refused :
           /\ final = [b EXCEPT !.pc = "final"]
           /\ entered = [b EXCEPT !.pc = "final", !.snap = "Applying"]
           /\ refused = [b EXCEPT !.pc = "answer"]
  OBVIOUS
<1>3. /\ final \in Batches /\ final.task = b.task /\ final.open = b.open
      /\ final.items = b.items /\ final.pc = "final" /\ final.snap = b.snap
      /\ entered \in Batches /\ entered.task = b.task /\ entered.open = b.open
      /\ entered.items = b.items /\ entered.pc = "final" /\ entered.snap = "Applying"
      /\ refused \in Batches /\ refused.task = b.task /\ refused.open = b.open
      /\ refused.items = b.items /\ refused.pc = "answer" /\ refused.snap = b.snap
  BY <1>1, <1>2 DEF Batches
<1>4. CASE b.snap = "ReadyForReview"
  <2>1. PICK o \in Transaction(b.task, "ReadyForReview", "Applying", {}) :
             /\ tasks' = o.tasks /\ faults' = o.faults
             /\ Batch(b, IF o.ok THEN entered ELSE refused)
    BY <1>2, <1>4 DEF BeginApply, CommitAs
  <2>2. Attempted(o, b.task, "ReadyForReview", "Applying", {})
    BY <1>1, <2>1, TransactionIs
  <2>3. CASE o.ok
    <3>1. batches' = (batches \ {b}) \cup {entered}
      BY <2>1, <2>3 DEF Batch
    <3>2. Replaces(b, entered) /\ Begins(b, entered)
      BY <1>1, <1>3, <1>4, <2>1, <2>2, <2>3, <3>1 DEF Replaces, Begins, Attempted
    <3> QED
      BY <1>1, <3>2
  <2>4. CASE ~o.ok
    <3>1. batches' = (batches \ {b}) \cup {refused}
      BY <2>1, <2>4 DEF Batch
    <3>2. Replaces(b, refused) /\ Begins(b, refused)
      BY <1>1, <1>3, <1>4, <2>1, <2>2, <2>4, <3>1 DEF Replaces, Begins, Attempted
    <3> QED
      BY <1>1, <3>2
  <2> QED
    BY <2>3, <2>4
<1>5. CASE b.snap # "ReadyForReview"
  <2>1. batches' = (batches \ {b}) \cup {final} /\ UNCHANGED <<tasks, faults>>
    BY <1>2, <1>5 DEF BeginApply, Batch
  <2>2. Replaces(b, final) /\ Begins(b, final)
    BY <1>1, <1>3, <1>5, <2>1 DEF Replaces, Begins
  <2> QED
    BY <1>1, <2>2
<1> QED
  BY <1>4, <1>5

LEMMA OutcomeHolds ==
    ASSUME NEW items
    PROVE  Outcome(items) \in Final /\ Final \subseteq TaskStatus
BY DEF Outcome, Final, TaskStatus

LEMMA FinishApplyIs ==
    ASSUME TypeOK, NEW b \in batches, FinishApply(b)
    PROVE  b.pc = "final" /\ \E c : Replaces(b, c) /\ Finishes(b, c)
<1>1. /\ b \in Batches /\ b.task \in Runs /\ tasks \in [Runs -> Task] /\ faults \in Nat
      /\ b.pc = "final" /\ UNCHANGED <<kind, guide, disk, runs, screen, opens, edits, written>>
      /\ Outcome(b.items) \in TaskStatus /\ AcceptedIn(b.items) \in SUBSET Suggestions
      /\ Outcome(b.items) \in Final
  BY BatchIs, OutcomeHolds DEF FinishApply, AcceptedIn
<1>2. PICK kept, ended, refused :
           /\ kept = [b EXCEPT !.pc = "answer", !.ok = TRUE]
           /\ ended = [b EXCEPT !.pc = "answer", !.ok = TRUE, !.snap = Outcome(b.items)]
           /\ refused = [b EXCEPT !.pc = "answer"]
  OBVIOUS
<1>3. /\ kept \in Batches /\ kept.task = b.task /\ kept.open = b.open
      /\ kept.items = b.items /\ kept.pc = "answer" /\ kept.snap = b.snap /\ kept.ok
      /\ ended \in Batches /\ ended.task = b.task /\ ended.open = b.open
      /\ ended.items = b.items /\ ended.pc = "answer" /\ ended.snap = Outcome(b.items)
      /\ ended.ok
      /\ refused \in Batches /\ refused.task = b.task /\ refused.open = b.open
      /\ refused.items = b.items /\ refused.pc = "answer" /\ refused.snap = b.snap
  BY <1>1, <1>2 DEF Batches
<1>4. CASE PendingIn(b.items) # {}
  <2>1. batches' = (batches \ {b}) \cup {kept} /\ UNCHANGED <<tasks, faults>>
    BY <1>2, <1>4 DEF FinishApply, Batch
  <2>2. Replaces(b, kept) /\ Finishes(b, kept)
    BY <1>1, <1>3, <2>1 DEF Replaces, Finishes
  <2> QED
    BY <1>1, <2>2
<1>5. CASE PendingIn(b.items) = {} /\ b.snap # "Applying"
  <2>1. batches' = (batches \ {b}) \cup {refused} /\ UNCHANGED <<tasks, faults>>
    BY <1>2, <1>5 DEF FinishApply, Batch
  <2>2. Replaces(b, refused) /\ Finishes(b, refused)
    BY <1>1, <1>3, <1>5, <2>1 DEF Replaces, Finishes
  <2> QED
    BY <1>1, <2>2
<1>6. CASE PendingIn(b.items) = {} /\ b.snap = "Applying"
  <2>1. PICK o \in Transaction(b.task, "Applying", Outcome(b.items), AcceptedIn(b.items)) :
             /\ tasks' = o.tasks /\ faults' = o.faults
             /\ Batch(b, IF o.ok THEN ended ELSE refused)
    BY <1>2, <1>6 DEF FinishApply, CommitAs
  <2>2. Attempted(o, b.task, "Applying", Outcome(b.items), AcceptedIn(b.items))
    BY <1>1, <2>1, TransactionIs
  <2>3. CASE o.ok
    <3>1. batches' = (batches \ {b}) \cup {ended}
      BY <2>1, <2>3 DEF Batch
    <3>2. Replaces(b, ended) /\ Finishes(b, ended)
      BY <1>1, <1>3, <1>6, <2>1, <2>2, <2>3, <3>1 DEF Replaces, Finishes, Attempted
    <3> QED
      BY <1>1, <3>2
  <2>4. CASE ~o.ok
    <3>1. batches' = (batches \ {b}) \cup {refused}
      BY <2>1, <2>4 DEF Batch
    <3>2. Replaces(b, refused) /\ Finishes(b, refused)
      BY <1>1, <1>3, <1>6, <2>1, <2>2, <2>4, <3>1 DEF Replaces, Finishes, Attempted
    <3> QED
      BY <1>1, <3>2
  <2> QED
    BY <2>3, <2>4
<1> QED
  BY <1>4, <1>5, <1>6

(* What the answer of a batch does to the slot.                            *)
Answered(b) ==
    /\ screen'.open = screen.open /\ screen'.id = screen.id
    /\ (screen'.running => screen.running) /\ (screen'.consent => screen.consent)
    /\ screen'.task = screen.task /\ screen'.late = screen.late
    /\ ~screen'.waiting /\ screen'.crossed = (screen.crossed \/ b.open # opens)
    /\ screen'.snap = IF b.ok THEN b.snap ELSE screen.snap
    /\ screen'.shown => /\ screen.shown /\ ~(b.ok /\ b.snap \in Final)
                        /\ screen'.items = screen.items /\ screen'.base = screen.base

(* The answer of a batch is taken by the slot, or dropped.                 *)
Hears(b) ==
    /\ b.pc = "answer" /\ batches' = batches \ {b} /\ screen' \in Screen
    /\ \/ UNCHANGED screen /\ ~(screen.open /\ screen.task = b.task)
       \/ screen.open /\ screen.task = b.task /\ Answered(b)
    /\ UNCHANGED <<kind, guide, disk, tasks, runs, opens, edits, faults, written>>

LEMMA ReviewPersistedIs ==
    ASSUME TypeOK, NEW b \in batches, ReviewPersisted(b)
    PROVE  Hears(b)
<1> USE DEF Hears
<1>1. screen \in Screen /\ screen.crossed \in BOOLEAN /\ screen.snap \in TaskStatus
  BY DEF TypeOK, Screen
<1>2. b \in Batches /\ b.ok \in BOOLEAN /\ b.snap \in TaskStatus
  BY BatchIs DEF TaskStatus, Active, Final
<1>3. CASE screen.open /\ screen.task = b.task
  <2>1. PICK crossed \in BOOLEAN : crossed = (screen.crossed \/ b.open # opens)
    BY <1>1
  <2>2. PICK snap \in TaskStatus : snap = IF b.ok THEN b.snap ELSE screen.snap
    BY <1>1, <1>2
  <2>3. PICK next : next = [screen EXCEPT !.waiting = FALSE,
                                          !.snap = IF b.ok THEN b.snap ELSE @,
                                          !.crossed = @ \/ b.open # opens]
    OBVIOUS
  <2>4. /\ next \in Screen /\ ~next.waiting /\ next.crossed = crossed /\ next.snap = snap
        /\ next.open = screen.open /\ next.id = screen.id /\ next.running = screen.running
        /\ next.consent = screen.consent /\ next.task = screen.task
        /\ next.late = screen.late /\ next.shown = screen.shown
        /\ next.items = screen.items /\ next.base = screen.base
    BY <1>1, <2>1, <2>2, <2>3 DEF Screen
  <2>5. screen' = IF b.ok /\ b.snap \in Final THEN Emptied(next) ELSE next
    BY <1>3, <2>3 DEF ReviewPersisted
  <2>6. CASE b.ok /\ b.snap \in Final
    <3>1. PICK hidden : hidden = Hidden(next)
      OBVIOUS
    <3>2. hidden \in Screen /\ ~hidden.shown /\ ~hidden.waiting
          /\ hidden.crossed = crossed /\ hidden.snap = snap
          /\ hidden.open = screen.open /\ hidden.id = screen.id
          /\ hidden.running = screen.running /\ hidden.consent = screen.consent
          /\ hidden.task = screen.task /\ hidden.late = screen.late
      BY <2>4, <3>1, HiddenHolds, HiddenIs
    <3>3. \/ screen' = hidden
          \/ screen' = [hidden EXCEPT !.running = FALSE, !.consent = FALSE]
      BY <2>5, <2>6, <3>1 DEF Emptied
    <3>4. screen' \in Screen /\ ~screen'.shown /\ ~screen'.waiting
          /\ screen'.crossed = crossed /\ screen'.snap = snap
          /\ screen'.open = screen.open /\ screen'.id = screen.id
          /\ (screen'.running => screen.running) /\ (screen'.consent => screen.consent)
          /\ screen'.task = screen.task /\ screen'.late = screen.late
      BY <3>2, <3>3 DEF Screen
    <3> QED
      BY <1>3, <2>1, <2>2, <3>4 DEF ReviewPersisted, Answered
  <2>7. CASE ~(b.ok /\ b.snap \in Final)
    <3>1. screen' = next
      BY <2>5, <2>7
    <3> QED
      BY <1>3, <2>1, <2>2, <2>4, <2>7, <3>1 DEF ReviewPersisted, Answered
  <2> QED
    BY <2>6, <2>7
<1>4. CASE ~(screen.open /\ screen.task = b.task)
  BY <1>1, <1>4 DEF ReviewPersisted
<1> QED
  BY <1>3, <1>4

(* What a reconciliation does to the store.                                *)
Reconciles(text) ==
    /\ tasks' \in [Runs -> Task]
    /\ \A r \in Runs :
         /\ tasks'[r].applied = tasks[r].applied
         /\ \/ tasks'[r] = tasks[r]
            \/ /\ tasks'[r].status \in {"Stale", "Interrupted"}
               /\ tasks[r].status \in Active
         /\ Fresh(r, text) => tasks'[r] = tasks[r]

(* A restored annotation review comes onto the screen.                     *)
Restores ==
    /\ kind = "visual" /\ screen.open /\ guide.clean
    /\ ~screen.running /\ ~screen.consent /\ ~screen.waiting
    /\ Reconciles(guide.text)
    /\ \/ UNCHANGED screen
       \/ \E r \in Runs : /\ Fresh(r, guide.text) /\ ~screen'.running
                          /\ Shows(screen, r, guide.loaded)
    /\ UNCHANGED <<kind, guide, disk, runs, batches, opens, edits, faults, written>>

LEMMA RestoreVisualProposalIs ==
    ASSUME TypeOK, RestoreVisualProposal
    PROVE  Restores
<1> USE DEF Restores
<1>1. screen \in Screen /\ guide.loaded \in Texts
  BY DEF TypeOK
<1>2. Restored(screen, guide.text, guide.loaded) /\ tasks' = Reconciled(guide.text)
  BY DEF RestoreVisualProposal
<1>3. Reconciles(guide.text)
  BY <1>2, ReconciledIs DEF Reconciles
<1>4. ~screen.running
  BY DEF RestoreVisualProposal
<1>5. \/ UNCHANGED screen
      \/ \E r \in Runs : /\ Fresh(r, guide.text) /\ ~screen'.running
                         /\ Shows(screen, r, guide.loaded)
  BY <1>1, <1>2, <1>4, RestoredIs
<1> QED
  BY <1>3, <1>5 DEF RestoreVisualProposal

(* The project is opened again.                                            *)
Opens ==
    /\ ~screen.open /\ screen'.open /\ opens' = opens + 1 /\ guide' = Loaded(disk.text)
    /\ written' = {} /\ screen' \in Screen /\ screen'.id = 0 /\ ~screen'.running
    /\ ~screen'.consent /\ ~screen'.waiting /\ ~screen'.crossed
    /\ screen'.late = screen.late
    /\ Reconciles(disk.text)
    /\ \/ ~screen'.shown /\ screen'.task = NoTask
       \/ /\ kind = "captions"
          /\ \E r \in Runs : /\ Fresh(r, disk.text) /\ screen'.shown /\ screen'.task = r
                             /\ screen'.base = disk.text
                             /\ screen'.items = Undecided
                             /\ screen'.snap = "ReadyForReview"
    /\ UNCHANGED <<kind, disk, runs, batches, edits, faults>>

LEMMA OpenIs ==
    ASSUME TypeOK, Open
    PROVE  Opens
<1> USE DEF Opens
<1>1. /\ screen \in Screen /\ screen.late \in SUBSET Runs /\ disk.text \in Texts
      /\ tasks \in [Runs -> Task]
  BY DEF TypeOK, Screen
<1>2. PICK idle : idle = IdleScreen(TRUE)
  OBVIOUS
<1>3. idle \in Screen
  BY <1>2, IdleHolds
<1>4. PICK fresh : fresh = [idle EXCEPT !.late = screen.late]
  OBVIOUS
<1>5. /\ idle.open /\ idle.id = 0 /\ ~idle.running /\ ~idle.consent /\ ~idle.waiting
      /\ ~idle.crossed /\ ~idle.shown /\ idle.task = NoTask
  BY <1>2 DEF IdleScreen
<1>6. /\ fresh \in Screen /\ fresh.open /\ fresh.id = 0 /\ ~fresh.running /\ ~fresh.consent
      /\ ~fresh.waiting /\ ~fresh.crossed /\ fresh.late = screen.late
      /\ ~fresh.shown /\ fresh.task = NoTask
  BY <1>1, <1>3, <1>4, <1>5 DEF Screen
<1>7. CASE kind = "captions"
  <2>1. tasks' = Reconciled(disk.text) /\ Restored(fresh, disk.text, disk.text)
    BY <1>2, <1>4, <1>7 DEF Open
  <2>2. Reconciles(disk.text)
    BY <2>1, ReconciledIs DEF Reconciles
  <2>3. \/ screen' = fresh
        \/ \E r \in Runs : /\ Fresh(r, disk.text) /\ Shows(fresh, r, disk.text)
                           /\ screen'.running = fresh.running
    BY <1>1, <1>6, <2>1, RestoredIs
  <2> QED
    BY <1>6, <1>7, <2>2, <2>3 DEF Open, Shows
<1>8. CASE kind # "captions"
  <2>1. screen' = fresh /\ UNCHANGED tasks
    BY <1>2, <1>4, <1>8 DEF Open
  <2>2. Reconciles(disk.text)
    BY <1>1, <2>1 DEF Reconciles
  <2> QED
    BY <1>6, <2>1, <2>2 DEF Open
<1> QED
  BY <1>7, <1>8

(* The project is closed.                                                  *)
Closes ==
    /\ screen.open /\ screen' \in Screen /\ ~screen'.open /\ ~screen'.running
    /\ ~screen'.consent /\ ~screen'.shown /\ screen'.task = NoTask
    /\ ~screen'.waiting /\ screen'.late = screen.late \cup UnderWay
    /\ guide' = Loaded(Blank)
    /\ runs' \in [Runs -> Run]
    /\ \A q \in Runs :
         /\ runs'[q].pc = runs[q].pc /\ runs'[q].id = runs[q].id
         /\ runs'[q].result = runs[q].result /\ runs'[q].excused = runs[q].excused
         /\ Keeps(q)
    /\ UNCHANGED <<kind, disk, tasks, batches, opens, edits, faults, written>>

LEMMA CloseIs ==
    ASSUME TypeOK, Close
    PROVE  Closes
<1> USE DEF Closes
<1>1. /\ screen \in Screen /\ screen.late \in SUBSET Runs /\ runs \in [Runs -> Run]
      /\ \A b \in batches : b.task \in Runs
  BY BatchIs DEF TypeOK, Screen
<1>2. PICK idle : idle = IdleScreen(FALSE)
  OBVIOUS
<1>3. /\ idle \in Screen /\ ~idle.open /\ ~idle.running /\ ~idle.consent /\ ~idle.shown
      /\ idle.task = NoTask /\ ~idle.waiting
  BY <1>2, IdleHolds DEF IdleScreen
<1>4. PICK late : late = screen.late \cup UnderWay
  OBVIOUS
<1>5. late \in SUBSET Runs
  BY <1>1, <1>4 DEF UnderWay
<1>6. screen' = [idle EXCEPT !.late = late]
  BY <1>2, <1>4 DEF Close
<1>7. /\ screen' \in Screen /\ ~screen'.open /\ ~screen'.running /\ ~screen'.consent
      /\ ~screen'.shown /\ screen'.task = NoTask /\ ~screen'.waiting
      /\ screen'.late = late
  BY <1>3, <1>5, <1>6 DEF Screen
<1>8. /\ runs' \in [Runs -> Run]
      /\ \A q \in Runs :
           /\ runs'[q].pc = runs[q].pc /\ runs'[q].id = runs[q].id
           /\ runs'[q].result = runs[q].result /\ runs'[q].excused = runs[q].excused
           /\ Keeps(q)
  <2>1. runs' = Cancelled \/ runs' = runs
    BY DEF Close
  <2> QED
    BY <1>1, <2>1, CancelledIs DEF Keeps
<1> QED
  BY <1>4, <1>7, <1>8 DEF Close

(* The process ends and is started again.                                  *)
Restarts ==
    /\ screen' \in Screen /\ ~screen'.open /\ ~screen'.running /\ ~screen'.consent
    /\ ~screen'.shown /\ screen'.task = NoTask /\ screen'.late = {}
    /\ guide' = Loaded(Blank) /\ written' = {} /\ batches' = {}
    /\ runs' \in [Runs -> Run] /\ tasks' \in [Runs -> Task]
    /\ \A q \in Runs :
         /\ \/ runs[q].pc = "idle" /\ runs'[q] = runs[q]
            \/ /\ runs[q].pc # "idle" /\ runs'[q].pc = "done" /\ runs'[q].id = 0
               /\ runs'[q].result = "none" /\ runs'[q].excused = runs[q].excused
               /\ Keeps(q)
         /\ tasks'[q].applied = tasks[q].applied
         /\ tasks'[q].status \notin {"Created", "Running"}
         /\ tasks[q].status = "None" => tasks'[q].status = "None"
         /\ tasks'[q].status \notin Final \/ tasks'[q].status = tasks[q].status
    /\ UNCHANGED <<kind, disk, opens, edits, faults>>

LEMMA RestartIs ==
    ASSUME TypeOK, Restart
    PROVE  Restarts
<1> USE DEF Restarts
<1>1. runs \in [Runs -> Run] /\ tasks \in [Runs -> Task]
  BY DEF TypeOK
<1>2. /\ screen' \in Screen /\ ~screen'.open /\ ~screen'.running /\ ~screen'.consent
      /\ ~screen'.shown /\ screen'.task = NoTask /\ screen'.late = {}
  BY IdleHolds DEF Restart, IdleScreen
<1>3. ASSUME NEW q \in Runs
      PROVE  /\ runs'[q] \in Run
             /\ \/ runs[q].pc = "idle" /\ runs'[q] = runs[q]
                \/ /\ runs[q].pc # "idle" /\ runs'[q].pc = "done" /\ runs'[q].id = 0
                   /\ runs'[q].result = "none" /\ runs'[q].excused = runs[q].excused
                   /\ Keeps(q)
  <2>1. PICK y : y = [runs[q] EXCEPT !.pc = "done", !.id = 0, !.result = "none",
                                     !.cancelled = FALSE]
    OBVIOUS
  <2>2. /\ y \in Run /\ y.pc = "done" /\ y.id = 0 /\ y.result = "none"
        /\ y.excused = runs[q].excused /\ y.durable = runs[q].durable
        /\ y.rev = runs[q].rev /\ y.base = runs[q].base
    BY <1>1, <2>1, ZenonT(60) DEF Run
  <2>3. runs'[q] = IF runs[q].pc = "idle" THEN runs[q] ELSE y
    BY <2>1 DEF Restart
  <2> QED
    BY <1>1, <2>2, <2>3 DEF Keeps
<1>4. ASSUME NEW q \in Runs
      PROVE  /\ tasks'[q] \in Task /\ tasks'[q].applied = tasks[q].applied
             /\ tasks'[q].status \notin {"Created", "Running"}
             /\ tasks[q].status = "None" => tasks'[q].status = "None"
             /\ tasks'[q].status \notin Final \/ tasks'[q].status = tasks[q].status
  <2>1. PICK status :
             status = IF tasks[q].status \in {"Created", "Running", "Applying"}
                      THEN "Interrupted"
                      ELSE IF tasks[q].status = "ReadyForReview" /\ ~runs[q].durable
                      THEN "Stale"
                      ELSE tasks[q].status
    OBVIOUS
  <2>2. PICK y : y = [tasks[q] EXCEPT !.live = FALSE, !.status = status]
    OBVIOUS
  <2>3. /\ tasks[q] \in Task /\ status \in TaskStatus
        /\ status \notin {"Created", "Running"}
        /\ tasks[q].status = "None" => status = "None"
        /\ status \notin Final \/ status = tasks[q].status
    BY <1>1, <2>1 DEF Task, TaskStatus, Final
  <2>4. y \in Task /\ y.applied = tasks[q].applied /\ y.status = status
    BY <2>2, <2>3 DEF Task
  <2>5. tasks'[q] = y
    BY <2>1, <2>2 DEF Restart
  <2> QED
    BY <2>3, <2>4, <2>5
<1>5. runs' = [q \in Runs |-> runs'[q]] /\ tasks' = [q \in Runs |-> tasks'[q]]
  BY DEF Restart
<1> QED
  BY <1>2, <1>3, <1>4, <1>5 DEF Restart

-----------------------------------------------------------------------------
(* The steps of the user that touch the slot or the guide alone.           *)
Hides ==
    /\ screen.open /\ screen' \in Screen /\ ~screen'.shown /\ Slot' = Slot
    /\ screen'.waiting = screen.waiting /\ screen'.running = screen.running
    /\ screen'.consent => screen.consent \/ (kind = "visual" /\ ~screen.running)
    /\ UNCHANGED <<kind, guide, disk, tasks, runs, batches, opens, edits, faults, written>>

Cancels ==
    /\ screen' \in Screen /\ Slot' = Slot /\ Review' = Review /\ screen'.waiting = screen.waiting
    /\ ~screen'.running /\ ~screen'.consent
    /\ runs' \in [Runs -> Run]
    /\ \A q \in Runs :
         /\ runs'[q].pc = runs[q].pc /\ runs'[q].id = runs[q].id
         /\ runs'[q].result = runs[q].result /\ runs'[q].excused = runs[q].excused
         /\ Keeps(q)
    /\ UNCHANGED <<kind, guide, disk, tasks, batches, opens, edits, faults, written>>

Changes ==
    /\ screen.open /\ DismissesStale
    /\ guide' \in [text : Texts, loaded : Texts, clean : BOOLEAN]
    /\ guide'.loaded = guide.loaded /\ (guide' = guide \/ ~guide'.clean)
    /\ edits' \in Nat
    /\ UNCHANGED <<kind, disk, runs, batches, opens, written>>

Saves ==
    /\ screen.open /\ disk'.rev = disk.rev + 1 /\ disk' \in [rev : Nat, text : Texts]
    /\ guide' \in [text : Texts, loaded : Texts, clean : BOOLEAN]
    /\ guide'.loaded = guide.loaded /\ guide'.text = guide.text /\ guide'.clean
    /\ UNCHANGED <<kind, tasks, runs, screen, batches, opens, edits, faults, written>>

Works(r) == Creates(r) \/ Starts(r) \/ Proposes(r) \/ Promotes(r) \/ Fails(r)

Records(b) == \E c : Replaces(b, c) /\ (\/ b.pc = "begin" /\ Begins(b, c)
                                        \/ b.pc = "final" /\ Finishes(b, c))

(* Whatever a worker does, it does to its own run and task.                *)
LEMMA WorksIs ==
    ASSUME NEW r \in Runs, Works(r)
    PROVE  WorksOn(r)
BY DEF Works, Creates, Starts, Proposes, Promotes, Fails

LEMMA HidesIs ==
    ASSUME TypeOK, SuggestVisualAnnotationsRequested \/ DismissProposal
    PROVE  Hides
<1>1. screen \in Screen
  BY DEF TypeOK
<1>2. PICK h : h = Hidden(screen)
  OBVIOUS
<1>3. /\ h \in Screen /\ ~h.shown
      /\ h.open = screen.open /\ h.id = screen.id /\ h.running = screen.running
      /\ h.consent = screen.consent /\ h.task = screen.task /\ h.snap = screen.snap
      /\ h.waiting = screen.waiting /\ h.late = screen.late /\ h.crossed = screen.crossed
  BY <1>1, <1>2, HiddenHolds, HiddenIs
<1>4. CASE SuggestVisualAnnotationsRequested
  <2>1. screen' = [h EXCEPT !.consent = TRUE] /\ kind = "visual" /\ ~screen.running
    BY <1>2, <1>4 DEF SuggestVisualAnnotationsRequested
  <2>2. /\ screen' \in Screen /\ ~screen'.shown
        /\ screen'.open = h.open /\ screen'.id = h.id /\ screen'.running = h.running
        /\ screen'.task = h.task /\ screen'.snap = h.snap
        /\ screen'.waiting = h.waiting /\ screen'.late = h.late /\ screen'.crossed = h.crossed
    BY <1>3, <2>1 DEF Screen
  <2> QED
    BY <1>3, <1>4, <2>1, <2>2 DEF SuggestVisualAnnotationsRequested, Hides, Slot
<1>5. CASE DismissProposal
  <2>1. screen' = h
    BY <1>2, <1>5 DEF DismissProposal
  <2> QED
    BY <1>1, <1>3, <1>5, <2>1 DEF DismissProposal, Hides, Slot
<1> QED
  BY <1>4, <1>5

LEMMA CancelsIs ==
    ASSUME TypeOK, CancelVisualAnnotationSuggestion
    PROVE  Cancels
<1>1. screen \in Screen /\ runs \in [Runs -> Run]
  BY DEF TypeOK
<1>2. screen' = [screen EXCEPT !.running = FALSE, !.consent = FALSE] /\ runs' = Cancelled
  BY DEF CancelVisualAnnotationSuggestion
<1>3. /\ screen' \in Screen /\ Slot' = Slot /\ Review' = Review
      /\ screen'.waiting = screen.waiting /\ ~screen'.running /\ ~screen'.consent
  BY <1>1, <1>2 DEF Screen, Slot, Review
<1> QED
  BY <1>1, <1>2, <1>3, CancelledIs DEF CancelVisualAnnotationSuggestion, Cancels, Keeps

LEMMA ChangesIs ==
    ASSUME TypeOK,
           SelectStep \/ \E s \in Suggestions, v \in 0..MaxTexts : Edit(s, v)
    PROVE  Changes
<1>1. guide \in [text : Texts, loaded : Texts, clean : BOOLEAN] /\ edits \in Nat
  BY DEF TypeOK
<1>2. CASE SelectStep
  BY <1>1, <1>2, DismissStaleIs DEF SelectStep, Changes
<1>3. ASSUME NEW s \in Suggestions, NEW v \in 0..MaxTexts, Edit(s, v)
      PROVE  Changes
  <2>1. PICK text : text = [guide.text EXCEPT ![s] = v]
    OBVIOUS
  <2>2. text \in Texts
    BY <1>1, <2>1, TextsHold DEF Texts
  <2>3. guide' = [guide EXCEPT !.text = text, !.clean = FALSE]
    BY <1>3, <2>1 DEF Edit
  <2>4. /\ guide' \in [text : Texts, loaded : Texts, clean : BOOLEAN]
        /\ guide'.loaded = guide.loaded /\ ~guide'.clean
    BY <1>1, <2>2, <2>3
  <2> QED
    <3>1. DismissesStale
      BY <1>3, DismissStaleIs DEF Edit
    <3>2. edits' \in Nat
      <4>1. edits' = edits + 1
        BY <1>3 DEF Edit
      <4> QED
        BY <1>1, <4>1
    <3> QED
      BY <1>3, <2>4, <3>1, <3>2 DEF Edit, Changes
<1> QED
  BY <1>2, <1>3

LEMMA SavesIs ==
    ASSUME TypeOK, Save
    PROVE  Saves
<1>1. /\ guide \in [text : Texts, loaded : Texts, clean : BOOLEAN]
      /\ disk \in [rev : Nat, text : Texts]
  BY DEF TypeOK
<1>2. PICK n \in Nat : n = disk.rev + 1
  BY <1>1
<1>3. disk' = [rev |-> n, text |-> guide.text] /\ guide' = [guide EXCEPT !.clean = TRUE]
  BY <1>2 DEF Save
<1>4. /\ disk' \in [rev : Nat, text : Texts] /\ disk'.rev = n
      /\ guide' \in [text : Texts, loaded : Texts, clean : BOOLEAN]
      /\ guide'.loaded = guide.loaded /\ guide'.text = guide.text /\ guide'.clean
  BY <1>1, <1>3
<1> QED
  BY <1>2, <1>4 DEF Save, Saves

(* Every step of the review is one of these.                               *)
Step ==
    \/ \E r \in Runs : Prepares(r) \/ Enters(r) \/ Works(r) \/ Answers(r)
    \/ \E r \in Runs : /\ Asks(r)
                       /\ \/ kind = "captions" /\ screen.open
                          \/ screen.consent
    \/ Hides \/ Cancels \/ Decision \/ Changes \/ Saves
    \/ \E b \in batches : Records(b) \/ Hears(b)
    \/ Restores \/ Closes \/ Opens \/ Restarts
    \/ UNCHANGED vars

LEMMA StepIs ==
    ASSUME TypeOK, [Next]_vars
    PROVE  Step
<1>1. ASSUME NEW r \in Runs, Worker(r)
      PROVE  Prepares(r) \/ Enters(r) \/ Works(r) \/ Answers(r)
  BY <1>1, PrepareIs, CaptionContextPreparedIs, CreateTaskIs, StartAttemptIs, WorkIs,
     PromoteIs, PersistTerminalIs, ProposalLoadedIs DEF Worker, Works
<1>2. ASSUME NEW b \in batches, BeginApply(b) \/ FinishApply(b) \/ ReviewPersisted(b)
      PROVE  Records(b) \/ Hears(b)
  BY <1>2, BeginApplyIs, FinishApplyIs, ReviewPersistedIs DEF Records
<1>3. ASSUME NEW r \in Runs, SuggestCaptionsRequested(r) \/ VisualSuggestionConsentConfirmed(r)
      PROVE  Asks(r) /\ ((kind = "captions" /\ screen.open) \/ screen.consent)
  BY <1>3, BeginIs DEF SuggestCaptionsRequested, VisualSuggestionConsentConfirmed
<1>4. ASSUME User
      PROVE  Step
  <2>1. CASE \E r \in Runs : SuggestCaptionsRequested(r) \/ VisualSuggestionConsentConfirmed(r)
    BY <1>3, <2>1 DEF Step
  <2>2. CASE SuggestVisualAnnotationsRequested \/ DismissProposal
    BY <2>2, HidesIs DEF Step
  <2>3. CASE CancelVisualAnnotationSuggestion
    BY <2>3, CancelsIs DEF Step
  <2>4. CASE \/ \E s \in Suggestions : AcceptSuggestion(s) \/ RejectSuggestion(s)
             \/ AcceptAllSuggestions \/ RejectVisualAnnotationSuggestion
    BY <2>4, DecidingIs DEF Step
  <2>5. CASE SelectStep \/ \E s \in Suggestions, v \in 0..MaxTexts : Edit(s, v)
    BY <2>5, ChangesIs DEF Step
  <2>6. CASE Save
    BY <2>6, SavesIs DEF Step
  <2>7. CASE RestoreVisualProposal
    BY <2>7, RestoreVisualProposalIs DEF Step
  <2>8. CASE Close
    BY <2>8, CloseIs DEF Step
  <2>9. CASE Open
    BY <2>9, OpenIs DEF Step
  <2> QED
    BY <1>4, <2>1, <2>2, <2>3, <2>4, <2>5, <2>6, <2>7, <2>8, <2>9 DEF User
<1>5. CASE \E r \in Runs : Worker(r)
  BY <1>1, <1>5 DEF Step
<1>6. CASE Record
  BY <1>2, <1>6 DEF Step, Record
<1>7. CASE Restart
  BY <1>7, RestartIs DEF Step
<1> QED
  BY <1>4, <1>5, <1>6, <1>7 DEF Next, Step

-----------------------------------------------------------------------------
(* The types, and what asking does to the review on screen.                *)
LEMMA InitTypes == Init => TypeOK /\ Asking
<1> SUFFICES ASSUME Init
             PROVE  TypeOK /\ Asking
  OBVIOUS
<1>1. Blank \in Texts /\ 0 \in Nat /\ 1 \in Nat
  BY TextsHold
<1>2. /\ guide \in [text : Texts, loaded : Texts, clean : BOOLEAN]
      /\ disk \in [rev : Nat, text : Texts]
  BY <1>1, LoadedHolds DEF Init
<1>3. tasks \in [Runs -> Task]
  BY DEF Init, Task, TaskStatus
<1>4. runs \in [Runs -> Run]
  BY <1>1 DEF Init, Run
<1>5. screen \in Screen /\ ~screen.shown /\ ~screen.consent
  BY IdleHolds DEF Init, IdleScreen
<1> QED
  BY <1>1, <1>2, <1>3, <1>4, <1>5 DEF Init, TypeOK, Asking

(* The part of the types that the slot and what is on screen share.        *)
ShownOK == screen.shown => screen.task \in Runs /\ screen.snap \in {"ReadyForReview", "Applying"}

LEMMA NextTypes ==
    ASSUME TypeOK, Asking, [Next]_vars
    PROVE  TypeOK'
<1>1. Step
  BY StepIs
<1>2. /\ kind \in Kinds /\ guide \in [text : Texts, loaded : Texts, clean : BOOLEAN]
      /\ disk \in [rev : Nat, text : Texts] /\ tasks \in [Runs -> Task]
      /\ runs \in [Runs -> Run] /\ screen \in Screen /\ ShownOK
      /\ batches \subseteq Batches /\ opens \in Nat /\ edits \in Nat /\ faults \in Nat
      /\ written \subseteq Runs \X Suggestions
  BY DEF TypeOK, ShownOK
<1>3. CASE \E r \in Runs : Prepares(r)
  BY <1>2, <1>3 DEF Prepares, Only, TypeOK, ShownOK
<1>4. CASE \E r \in Runs : Enters(r)
  <2>1. PICK r \in Runs : Enters(r)
    BY <1>4
  <2>2. UNCHANGED screen \/ screen' = [screen EXCEPT !.running = FALSE]
    BY <2>1 DEF Enters
  <2>3. /\ screen' \in Screen /\ screen'.shown = screen.shown /\ screen'.task = screen.task
        /\ screen'.snap = screen.snap
    BY <1>2, <2>2 DEF Screen
  <2> QED
    BY <1>2, <2>1, <2>3 DEF Enters, Only, TypeOK, ShownOK
<1>5. CASE \E r \in Runs : Works(r)
  <2>1. PICK r \in Runs : WorksOn(r)
    BY <1>5 DEF Works, Creates, Starts, Proposes, Promotes, Fails
  <2> QED
    BY <1>2, <2>1 DEF WorksOn, Only, TypeOK, ShownOK
<1>6. CASE \E r \in Runs : Answers(r)
  <2>1. PICK r \in Runs : Answers(r)
    BY <1>6
  <2>2. CASE UNCHANGED screen
    BY <1>2, <2>1, <2>2 DEF Answers, Only, TypeOK, ShownOK
  <2>3. CASE Shows(screen, r, runs[r].base)
    BY <1>2, <2>1, <2>3 DEF Answers, Shows, Only, TypeOK, ShownOK
  <2>4. CASE /\ kind = "visual" /\ MatchesScreen(r)
             /\ screen' = [screen EXCEPT !.running = FALSE, !.task = NoTask, !.snap = "None"]
    <3>1. ~screen.shown
      BY <2>4 DEF Asking, MatchesScreen
    <3>2. screen' \in Screen /\ ~screen'.shown
      BY <1>2, <2>4, <3>1 DEF Screen, TaskStatus
    <3> QED
      BY <1>2, <2>1, <3>2 DEF Answers, Only, TypeOK
  <2>5. CASE screen' = [screen EXCEPT !.running = FALSE]
    <3>1. /\ screen' \in Screen /\ screen'.shown = screen.shown /\ screen'.task = screen.task
          /\ screen'.snap = screen.snap
      BY <1>2, <2>5 DEF Screen
    <3> QED
      BY <1>2, <2>1, <3>1 DEF Answers, Only, TypeOK, ShownOK
  <2> QED
    BY <2>1, <2>2, <2>3, <2>4, <2>5 DEF Answers
<1>7. CASE \E r \in Runs : Asks(r)
  BY <1>2, <1>7 DEF Asks, Only, TypeOK, ShownOK
<1>8. CASE Hides
  BY <1>2, <1>8 DEF Hides, TypeOK
<1>9. CASE Cancels
  BY <1>2, <1>9 DEF Cancels, Slot, Review, TypeOK, ShownOK
<1>10. CASE Decision
  <2>1. PICK b, good, items : MayDecide /\ Decided(b, good, items)
    BY <1>10 DEF Decision
  <2>2. screen.shown /\ screen.task \in Runs /\ screen.snap \in {"ReadyForReview", "Applying"}
    BY <1>2, <2>1 DEF MayDecide, ShownOK
  <2>3. b \in Batches
    BY <1>2, <2>1, <2>2 DEF Decided, Batches
  <2>4. good \subseteq Suggestions
    BY <2>1 DEF Decided, Fitting
  <2>5. batches' \subseteq Batches /\ written' \subseteq Runs \X Suggestions
    BY <1>2, <2>1, <2>2, <2>3, <2>4 DEF Decided
  <2>6. screen' \in Screen /\ screen'.task = screen.task /\ screen'.snap = screen.snap
    BY <2>1 DEF Decided, Slot
  <2> QED
    BY <1>2, <2>1, <2>2, <2>5, <2>6 DEF Decided, TypeOK
<1>11. CASE Changes
  BY <1>2, <1>11 DEF Changes, DismissesStale, TypeOK, ShownOK
<1>12. CASE Saves
  BY <1>2, <1>12 DEF Saves, TypeOK, ShownOK
<1>13. CASE \E b \in batches : Records(b)
  <2>1. PICK b \in batches, c \in Batches : Replaces(b, c)
    BY <1>13 DEF Records, Replaces
  <2> QED
    BY <1>2, <2>1 DEF Replaces, TypeOK, ShownOK
<1>14. CASE \E b \in batches : Hears(b)
  <2>1. PICK b \in batches : Hears(b)
    BY <1>14
  <2>2. b.snap \in {"ReadyForReview", "Applying"} \cup Final
    BY <2>1, BatchIs
  <2>3. CASE UNCHANGED screen
    BY <1>2, <2>1, <2>3 DEF Hears, TypeOK, ShownOK
  <2>4. CASE Answered(b)
    <3>1. screen'.shown => screen'.task \in Runs
                           /\ screen'.snap \in {"ReadyForReview", "Applying"}
      BY <1>2, <2>2, <2>4 DEF Answered, ShownOK
    <3> QED
      BY <1>2, <2>1, <3>1 DEF Hears, TypeOK
  <2> QED
    BY <2>1, <2>3, <2>4 DEF Hears
<1>15. CASE Restores
  <2>1. tasks' \in [Runs -> Task] /\ UNCHANGED <<kind, guide, disk, runs, batches, opens, edits,
                                                faults, written>>
    BY <1>15 DEF Restores, Reconciles
  <2>2. screen' \in Screen /\ ShownOK'
    BY <1>2, <1>15 DEF Restores, Shows, TypeOK, ShownOK
  <2> QED
    BY <1>2, <2>1, <2>2 DEF TypeOK, ShownOK
<1>16. CASE Closes
  BY <1>2, <1>16, TextsHold, LoadedHolds DEF Closes, TypeOK
<1>17. CASE Opens
  <2>1. guide' \in [text : Texts, loaded : Texts, clean : BOOLEAN]
    BY <1>2, <1>17, LoadedHolds DEF Opens
  <2>2. opens' \in Nat
    BY <1>2, <1>17 DEF Opens
  <2> QED
    BY <1>2, <1>17, <2>1, <2>2 DEF Opens, Reconciles, TypeOK
<1>18. CASE Restarts
  BY <1>2, <1>18, TextsHold, LoadedHolds DEF Restarts, TypeOK
<1>19. CASE UNCHANGED vars
  BY <1>2, <1>19 DEF vars, TypeOK, ShownOK
<1> QED
  BY <1>1, <1>3, <1>4, <1>5, <1>6, <1>7, <1>8, <1>9, <1>10, <1>11, <1>12, <1>13, <1>14,
     <1>15, <1>16, <1>17, <1>18, <1>19 DEF Step

LEMMA NextAsking ==
    ASSUME TypeOK, Asking, [Next]_vars
    PROVE  Asking'
<1>1. Step /\ screen \in Screen
  BY StepIs DEF TypeOK
<1>2. CASE \E r \in Runs : Prepares(r)
  BY <1>2 DEF Prepares, Asking
<1>3. CASE \E r \in Runs : Enters(r)
  <2>1. /\ UNCHANGED screen \/ screen' = [screen EXCEPT !.running = FALSE]
        /\ UNCHANGED kind
    BY <1>3 DEF Enters
  <2>2. /\ screen'.shown = screen.shown /\ screen'.consent = screen.consent
        /\ screen'.open = screen.open /\ (screen'.running => screen.running)
    BY <1>1, <2>1 DEF Screen
  <2> QED
    BY <2>1, <2>2 DEF Asking
<1>4. CASE \E r \in Runs : Works(r)
  BY <1>4 DEF Works, Creates, Starts, Proposes, Promotes, Fails, WorksOn, Asking
<1>5. CASE \E r \in Runs : Answers(r)
  <2>1. PICK r \in Runs : Answers(r)
    BY <1>5
  <2>2. CASE UNCHANGED screen
    BY <2>1, <2>2 DEF Answers, Asking
  <2>3. CASE Shows(screen, r, runs[r].base) /\ ~screen'.running /\ (kind = "visual" => MatchesScreen(r))
    BY <2>1, <2>3 DEF Answers, Asking, MatchesScreen, Shows
  <2>4. CASE \/ screen' = [screen EXCEPT !.running = FALSE, !.task = NoTask, !.snap = "None"]
             \/ screen' = [screen EXCEPT !.running = FALSE]
    <3>1. /\ screen'.shown = screen.shown /\ screen'.consent = screen.consent
          /\ screen'.open = screen.open /\ ~screen'.running
      BY <1>1, <2>4 DEF Screen
    <3> QED
      BY <2>1, <3>1 DEF Answers, Asking
  <2> QED
    BY <2>1, <2>2, <2>3, <2>4 DEF Answers
<1>6. CASE \E r \in Runs : Asks(r) /\ ((kind = "captions" /\ screen.open) \/ screen.consent)
  BY <1>6 DEF Asks, Asking
<1>7. CASE Hides
  BY <1>7 DEF Hides, Slot, Asking
<1>8. CASE Cancels
  BY <1>8 DEF Cancels, Asking
<1>9. CASE Decision
  BY <1>9 DEF Decision, Decided, MayDecide, Slot, Request, Asking
<1>10. CASE Changes \/ Saves
  BY <1>10 DEF Changes, DismissesStale, Saves, Asking
<1>11. CASE \E b \in batches : Records(b) \/ Hears(b)
  <2>1. /\ UNCHANGED kind
        /\ screen'.open = screen.open /\ (screen'.running => screen.running)
        /\ (screen'.consent => screen.consent) /\ (screen'.shown => screen.shown)
    BY <1>11 DEF Records, Replaces, Hears, Answered
  <2> QED
    BY <2>1 DEF Asking
<1>12. CASE Restores
  BY <1>12 DEF Restores, Shows, Asking
<1>13. CASE Closes \/ Opens \/ Restarts
  BY <1>13 DEF Closes, Opens, Restarts, Asking
<1>14. CASE UNCHANGED vars
  BY <1>14 DEF vars, Asking
<1> QED
  BY <1>1, <1>2, <1>3, <1>4, <1>5, <1>6, <1>7, <1>8, <1>9, <1>10, <1>11, <1>12, <1>13,
     <1>14 DEF Step

-----------------------------------------------------------------------------
(* Workers settle their tasks.                                             *)
LEMMA InitSettling == Init => Settling
BY DEF Init, Settling, Settled, Early

LEMMA SettledStays ==
    ASSUME NEW q \in Runs, Settled(q), runs'[q].pc = runs[q].pc,
           runs'[q].excused = runs[q].excused, runs'[q].result = runs[q].result,
           \/ tasks'[q].status = tasks[q].status
           \/ /\ tasks[q].status # "None"
              /\ tasks'[q].status \notin {"Created", "Running"}
    PROVE  Settled(q)'
BY DEF Settled

LEMMA NextSettling ==
    ASSUME TypeOK, Settling, [Next]_vars
    PROVE  Settling'
<1> SUFFICES ASSUME NEW q \in Runs
             PROVE  Settled(q)'
  BY DEF Settling
<1>1. Step /\ tasks \in [Runs -> Task] /\ runs \in [Runs -> Run] /\ Settled(q)
  BY StepIs DEF TypeOK, Settling
<1> DEFINE Same == runs'[q] = runs[q] /\ tasks'[q] = tasks[q]
<1>2. ASSUME Same
      PROVE  Settled(q)'
  BY <1>1, <1>2, SettledStays
<1>3. CASE \E r \in Runs : Prepares(r)
  <2>1. PICK r \in Runs : Prepares(r)
    BY <1>3
  <2>2. CASE q = r
    BY <1>1, <2>1, <2>2 DEF Prepares, Settled, Early
  <2> QED
    BY <1>2, <2>1, <2>2 DEF Prepares, Only
<1>4. CASE \E r \in Runs : Enters(r)
  <2>1. PICK r \in Runs : Enters(r)
    BY <1>4
  <2>2. CASE q = r
    BY <1>1, <2>1, <2>2 DEF Enters, Settled, Early
  <2> QED
    BY <1>2, <2>1, <2>2 DEF Enters, Only
<1>5. CASE \E r \in Runs : Works(r)
  <2>1. PICK r \in Runs : Works(r)
    BY <1>5
  <2>2. WorksOn(r)
    BY <2>1 DEF Works, Creates, Starts, Proposes, Promotes, Fails
  <2>3. CASE q # r
    BY <1>2, <2>2, <2>3 DEF WorksOn, Only
  <2>4. CASE q = r
    <3>1. runs'[q].pc \notin Early
      BY <2>2, <2>4 DEF WorksOn
    <3>2. CASE Creates(r)
      BY <1>1, <2>4, <3>1, <3>2 DEF Creates, Settled
    <3>3. CASE Starts(r)
      BY <1>1, <2>4, <3>1, <3>3 DEF Starts, Settled
    <3>4. CASE Proposes(r)
      BY <1>1, <2>4, <3>1, <3>4 DEF Proposes, Settled
    <3>5. CASE Promotes(r)
      BY <1>1, <2>4, <3>1, <3>5 DEF Promotes, Settled
    <3>6. CASE Fails(r)
      BY <1>1, <2>4, <3>1, <3>6 DEF Fails, Settled
    <3> QED
      BY <2>1, <3>2, <3>3, <3>4, <3>5, <3>6 DEF Works
  <2> QED
    BY <2>3, <2>4
<1>6. CASE \E r \in Runs : Answers(r)
  <2>1. PICK r \in Runs : Answers(r)
    BY <1>6
  <2>2. CASE q = r
    BY <1>1, <2>1, <2>2 DEF Answers, Settled, Early
  <2> QED
    BY <1>2, <2>1, <2>2 DEF Answers, Only
<1>7. CASE \E r \in Runs : Asks(r)
  <2>1. PICK r \in Runs : Asks(r)
    BY <1>7
  <2>2. CASE q = r
    BY <1>1, <2>1, <2>2 DEF Asks, Settled, Early
  <2> QED
    BY <1>2, <2>1, <2>2 DEF Asks, Only
<1>8. CASE Hides \/ Decision \/ Saves \/ \E b \in batches : Hears(b)
  BY <1>2, <1>8 DEF Hides, Decision, Decided, Saves, Hears
<1>9. CASE Cancels \/ Closes
  BY <1>1, <1>9, SettledStays DEF Cancels, Closes
<1>10. CASE Changes
  BY <1>1, <1>10, SettledStays DEF Changes, DismissesStale
<1>11. CASE \E b \in batches : Records(b)
  <2>1. PICK b \in batches, c \in Batches : /\ Replaces(b, c)
                                            /\ \/ b.pc = "begin" /\ Begins(b, c)
                                               \/ b.pc = "final" /\ Finishes(b, c)
    BY <1>11 DEF Records, Replaces
  <2>2. \/ tasks'[q].status = tasks[q].status
        \/ /\ tasks[q].status # "None"
           /\ tasks'[q].status \in {"Applying"} \cup Final
    BY <2>1, OutcomeHolds DEF Replaces, Begins, Finishes
  <2>3. runs'[q] = runs[q]
    BY <2>1 DEF Replaces
  <2> QED
    BY <1>1, <2>2, <2>3, SettledStays DEF Final
<1>12. CASE Restores \/ Opens
  <2>1. /\ runs'[q] = runs[q]
        /\ \/ tasks'[q].status = tasks[q].status
           \/ /\ tasks[q].status \in Active
              /\ tasks'[q].status \in {"Stale", "Interrupted"}
    BY <1>12 DEF Restores, Opens, Reconciles
  <2> QED
    BY <1>1, <2>1, SettledStays DEF Active
<1>13. CASE Restarts
  BY <1>1, <1>13 DEF Restarts, Settled, Early
<1>14. CASE UNCHANGED vars
  BY <1>2, <1>14 DEF vars
<1> QED
  BY <1>1, <1>3, <1>4, <1>5, <1>6, <1>7, <1>8, <1>9, <1>10, <1>11, <1>12, <1>13, <1>14
     DEF Step

-----------------------------------------------------------------------------
(* What each step leaves of the runs.                                      *)
LEMMA RunsStay ==
    ASSUME TypeOK,
           \/ Hides \/ Decision \/ Changes \/ Saves
           \/ \E b \in batches : Records(b) \/ Hears(b)
           \/ Restores \/ UNCHANGED vars
    PROVE  /\ UNCHANGED <<kind, runs, opens>>
           /\ screen'.open = screen.open /\ screen'.id = screen.id
           /\ (screen'.running => screen.running) /\ screen'.late = screen.late
<1>1. CASE Hides \/ Saves \/ Restores \/ UNCHANGED vars
  <2>1. Restores => (~screen'.running /\ ~screen.running) \/ UNCHANGED screen
    BY DEF Restores
  <2>2. screen \in Screen /\ (Restores => screen' \in Screen)
    BY DEF TypeOK, Restores, Shows
  <2>3. screen.running \in BOOLEAN /\ (Restores => screen'.running \in BOOLEAN)
    BY <2>2 DEF Screen
  <2> QED
    BY <1>1, <2>1, <2>3 DEF Hides, Saves, Restores, Shows, Slot, vars
<1>2. CASE Decision
  BY <1>2 DEF Decision, Decided, Slot, Request
<1>3. CASE Changes
  BY <1>3 DEF Changes, DismissesStale
<1>4. CASE \E b \in batches : Records(b)
  BY <1>4 DEF Records, Replaces
<1>5. CASE \E b \in batches : Hears(b)
  BY <1>5 DEF Hears, Answered
<1> QED
  BY <1>1, <1>2, <1>3, <1>4, <1>5

(* A step of a worker leaves the slot, but for the end of a run.           *)
LEMMA WorkersAlone ==
    ASSUME TypeOK, NEW r \in Runs, Prepares(r) \/ Enters(r) \/ Works(r) \/ Answers(r)
    PROVE  /\ Only(r) /\ UNCHANGED <<kind, guide, disk, batches, opens, written>>
           /\ runs[r].pc \notin AtRest /\ runs'[r].pc # "idle"
           /\ screen'.open = screen.open /\ screen'.id = screen.id
           /\ screen'.late = screen.late
           /\ screen'.running => screen.running
           /\ runs'[r].durable = runs[r].durable /\ runs'[r].rev = runs[r].rev
           /\ \/ UNCHANGED screen /\ runs'[r].id = runs[r].id /\ runs'[r].pc # "done"
              \/ runs'[r].pc = "done" /\ runs'[r].id = 0
<1>1. screen \in Screen
  BY DEF TypeOK
<1>2. CASE Prepares(r)
  BY <1>2 DEF Prepares, AtRest
<1>3. CASE Enters(r)
  <2>1. /\ screen'.open = screen.open /\ screen'.id = screen.id
        /\ screen'.late = screen.late
        /\ screen'.running => screen.running
    BY <1>1, <1>3 DEF Enters, Screen
  <2> QED
    BY <1>3, <2>1 DEF Enters, Keeps, AtRest
<1>4. CASE Works(r)
  <2>1. WorksOn(r)
    BY <1>4 DEF Works, Creates, Starts, Proposes, Promotes, Fails
  <2> QED
    BY <2>1 DEF WorksOn, Keeps, AtRest
<1>5. CASE Answers(r)
  <2>1. /\ screen'.open = screen.open /\ screen'.id = screen.id
        /\ screen'.late = screen.late
        /\ screen'.running => screen.running
    BY <1>1, <1>5 DEF Answers, Shows, Screen
  <2> QED
    BY <1>5, <2>1 DEF Answers, Keeps, AtRest
<1> QED
  BY <1>2, <1>3, <1>4, <1>5

-----------------------------------------------------------------------------
(* The numbers of the runs.                                                *)
LEMMA InitNumbered == Init => Numbered /\ RunningHasWorker /\ LateIsKnown
BY DEF Init, Numbered, RunningHasWorker, LateIsKnown, IdleScreen, AtRest

LEMMA NextNumbered ==
    ASSUME TypeOK, Numbered, LateIsKnown, [Next]_vars
    PROVE  Numbered'
<1>1. /\ Step /\ runs \in [Runs -> Run] /\ screen.id \in Nat
      /\ \A q \in Runs : runs[q].id \in Nat
  BY StepIs DEF TypeOK, Screen, Run
<1>2. CASE \/ Hides \/ Decision \/ Changes \/ Saves
           \/ \E b \in batches : Records(b) \/ Hears(b)
           \/ Restores \/ UNCHANGED vars
  <2>1. /\ UNCHANGED runs /\ screen'.open = screen.open /\ screen'.id = screen.id
        /\ screen'.late = screen.late
    BY <1>2, RunsStay
  <2> QED
    BY <2>1 DEF Numbered
<1>3. CASE \E r \in Runs : Prepares(r) \/ Enters(r) \/ Works(r) \/ Answers(r)
  <2>1. PICK r \in Runs : Prepares(r) \/ Enters(r) \/ Works(r) \/ Answers(r)
    BY <1>3
  <2>2. /\ Only(r) /\ runs'[r].pc # "idle"
        /\ screen'.open = screen.open /\ screen'.id = screen.id
        /\ screen'.late = screen.late
        /\ \/ runs'[r].id = runs[r].id /\ runs'[r].pc # "done"
           \/ runs'[r].pc = "done" /\ runs'[r].id = 0
    BY <2>1, WorkersAlone
  <2>3. \A q \in Runs : runs'[q].id = runs[q].id \/ runs'[q].id = 0
    BY <2>2 DEF Only
  <2>4. \A q \in Runs : runs'[q].pc \in AtRest => runs'[q].id = 0
    BY <2>2 DEF Only, Numbered, AtRest
  <2> QED
    BY <1>1, <2>2, <2>3, <2>4 DEF Numbered
<1>4. CASE \E r \in Runs : Asks(r) /\ ((kind = "captions" /\ screen.open) \/ screen.consent)
  <2>1. PICK r \in Runs : Asks(r)
    BY <1>4
  <2>2. \A q \in Runs : /\ runs'[q].pc \in AtRest => runs'[q].id = 0
                        /\ \/ runs'[q].id = runs[q].id
                           \/ runs'[q].id = screen'.id
    BY <2>1 DEF Asks, Only, Numbered, AtRest
  <2>3. screen'.id = screen.id + 1 /\ screen'.open = screen.open /\ screen'.late = screen.late
    BY <2>1 DEF Asks
  <2> QED
    BY <1>1, <2>2, <2>3 DEF Numbered
<1>5. CASE Cancels
  BY <1>5 DEF Cancels, Slot, Numbered
<1>6. CASE Closes
  BY <1>6 DEF Closes, Numbered
<1>7. CASE Opens
  <2>1. \A q \in Runs \ screen.late : runs[q].id = 0
    BY <1>7 DEF Opens, LateIsKnown, Numbered
  <2> QED
    BY <1>7, <2>1 DEF Opens, Numbered
<1>8. CASE Restarts
  BY <1>8 DEF Restarts, Numbered, AtRest
<1> QED
  BY <1>1, <1>2, <1>3, <1>4, <1>5, <1>6, <1>7, <1>8 DEF Step

(* A shown wait for suggestions has its worker.                            *)
LEMMA NextRunningHasWorker ==
    ASSUME TypeOK, RunningHasWorker, [Next]_vars
    PROVE  RunningHasWorker'
<1>1. Step /\ runs \in [Runs -> Run]
  BY StepIs DEF TypeOK
<1>2. CASE \/ Hides \/ Decision \/ Changes \/ Saves
           \/ \E b \in batches : Records(b) \/ Hears(b)
           \/ Restores \/ UNCHANGED vars
  <2>1. /\ UNCHANGED runs /\ screen'.open = screen.open /\ screen'.id = screen.id
        /\ screen'.running => screen.running
    BY <1>2, RunsStay
  <2> QED
    BY <2>1 DEF RunningHasWorker
<1>3. CASE \E r \in Runs : Prepares(r) \/ Enters(r) \/ Works(r) \/ Answers(r)
  <2> SUFFICES ASSUME screen'.open, screen'.running
               PROVE  \E q \in Runs : /\ runs'[q].id = screen'.id
                                      /\ runs'[q].pc \notin {"idle", "done"}
    BY DEF RunningHasWorker
  <2>1. PICK r \in Runs : Prepares(r) \/ Enters(r) \/ Works(r) \/ Answers(r)
    BY <1>3
  <2>2. /\ Only(r) /\ runs'[r].pc # "idle"
        /\ screen'.open = screen.open /\ screen'.id = screen.id
        /\ screen'.running => screen.running
        /\ \/ runs'[r].id = runs[r].id /\ runs'[r].pc # "done"
           \/ runs'[r].pc = "done"
    BY <2>1, WorkersAlone
  <2>3. PICK q \in Runs : runs[q].id = screen.id /\ runs[q].pc \notin {"idle", "done"}
    BY <2>2 DEF RunningHasWorker
  <2>4. CASE q # r
    BY <2>2, <2>3, <2>4 DEF Only
  <2>5. CASE q = r /\ runs'[r].pc # "done"
    BY <2>2, <2>3, <2>5
  <2>6. CASE q = r /\ runs'[r].pc = "done"
    <3>1. Enters(r) \/ Answers(r)
      BY <2>1, <2>6 DEF Prepares, Works, Creates, Starts, Proposes, Promotes, Fails
    <3>2. CASE Enters(r)
      <4>1. screen' = [screen EXCEPT !.running = FALSE]
        BY <2>2, <2>3, <2>6, <3>2 DEF Enters
      <4> QED
        BY <4>1 DEF TypeOK, Screen
    <3>3. CASE Answers(r)
      <4>1. \/ UNCHANGED screen /\ kind = "visual" /\ ~MatchesScreen(r)
            \/ ~screen'.running
        BY <2>2, <3>3 DEF Answers, TypeOK, Screen
      <4> QED
        BY <2>2, <2>3, <2>6, <4>1 DEF MatchesScreen
    <3> QED
      BY <3>1, <3>2, <3>3
  <2> QED
    BY <2>4, <2>5, <2>6
<1>4. CASE \E r \in Runs : Asks(r)
  BY <1>4 DEF Asks, RunningHasWorker
<1>5. CASE Cancels \/ Closes \/ Opens \/ Restarts
  BY <1>5 DEF Cancels, Closes, Opens, Restarts, RunningHasWorker
<1> QED
  BY <1>1, <1>2, <1>3, <1>4, <1>5 DEF Step

(* What is left over from an earlier opening is known.                     *)
LEMMA NextLateIsKnown ==
    ASSUME TypeOK, Asking, LateIsKnown, [Next]_vars
    PROVE  LateIsKnown'
<1>1. Step /\ runs \in [Runs -> Run] /\ opens \in Nat /\ screen \in Screen
  BY StepIs DEF TypeOK
<1>2. CASE \E b \in batches : Records(b)
  <2>1. PICK b \in batches, c \in Batches : Replaces(b, c)
    BY <1>2 DEF Records, Replaces
  <2>2. \A d \in batches' : \E e \in batches : d.open = e.open /\ d.task = e.task
    BY <2>1 DEF Replaces
  <2>3. UNCHANGED <<runs, screen, opens>>
    BY <2>1 DEF Replaces
  <2> QED
    BY <2>2, <2>3 DEF LateIsKnown
<1>3. CASE Decision
  <2>1. PICK b, good, items : MayDecide /\ Decided(b, good, items)
    BY <1>3 DEF Decision
  <2>2. /\ b.open = opens /\ screen.open /\ batches' = batches \cup {b}
        /\ UNCHANGED <<runs, opens>>
        /\ screen'.open = screen.open /\ screen'.late = screen.late
    BY <2>1 DEF Decided, MayDecide, Slot
  <2> QED
    BY <1>1, <2>2 DEF LateIsKnown
<1>4. CASE \E b \in batches : Hears(b)
  <2>1. /\ UNCHANGED runs /\ opens' = opens /\ screen'.open = screen.open
        /\ screen'.late = screen.late
    BY <1>4, RunsStay
  <2>2. batches' \subseteq batches
    BY <1>4 DEF Hears
  <2> QED
    BY <2>1, <2>2 DEF LateIsKnown
<1>5. CASE Hides \/ Changes \/ Saves \/ Restores \/ UNCHANGED vars
  <2>1. /\ UNCHANGED runs /\ opens' = opens /\ screen'.open = screen.open
        /\ screen'.late = screen.late
    BY <1>5, RunsStay
  <2>2. UNCHANGED batches
    BY <1>5 DEF Hides, Changes, Saves, Restores, vars
  <2> QED
    BY <2>1, <2>2 DEF LateIsKnown
<1>6. CASE \E r \in Runs : Prepares(r) \/ Enters(r) \/ Works(r) \/ Answers(r)
  <2>1. PICK r \in Runs : Prepares(r) \/ Enters(r) \/ Works(r) \/ Answers(r)
    BY <1>6
  <2>2. /\ Only(r) /\ UNCHANGED <<batches, opens>> /\ runs[r].pc \notin AtRest
        /\ screen'.open = screen.open /\ screen'.late = screen.late
    BY <2>1, WorkersAlone
  <2> QED
    BY <2>2 DEF Only, LateIsKnown
<1>7. CASE \E r \in Runs : Asks(r) /\ ((kind = "captions" /\ screen.open) \/ screen.consent)
  BY <1>7 DEF Asks, Asking, LateIsKnown
<1>8. CASE Cancels
  BY <1>8 DEF Cancels, Slot, LateIsKnown
<1>9. CASE Closes
  BY <1>9 DEF Closes, UnderWay, LateIsKnown, AtRest
<1>10. CASE Opens
  <2>1. /\ opens' = opens + 1 /\ screen'.open /\ screen'.late = screen.late
        /\ UNCHANGED <<runs, batches>> /\ ~screen.open
    BY <1>10 DEF Opens
  <2>2. \A b \in batches : b.open <= opens /\ b.task \in screen.late /\ b.open \in Nat
    BY <2>1, BatchIs DEF LateIsKnown
  <2> QED
    BY <1>1, <2>1, <2>2 DEF LateIsKnown
<1>11. CASE Restarts
  BY <1>11 DEF Restarts, LateIsKnown, AtRest
<1> QED
  BY <1>1, <1>2, <1>3, <1>4, <1>5, <1>6, <1>7, <1>8, <1>9, <1>10, <1>11 DEF Step

-----------------------------------------------------------------------------
(* A run whose suggestions were shown is heard no more.                    *)
LEMMA InitShownIsHeard == Init => ShownIsHeard
<1> SUFFICES ASSUME Init, NEW q \in Runs, WasShown(q)
             PROVE  FALSE
  BY DEF ShownIsHeard
<1>1. screen.task = NoTask /\ batches = {} /\ written = {}
  BY DEF Init, IdleScreen
<1> QED
  BY <1>1, Constants DEF WasShown

(* A task is new on the screen only by an answer or a restored review.     *)
LEMMA ShownBefore ==
    ASSUME TypeOK, NEW q \in Runs, WasShown(q)',
           \/ Hides \/ Decision \/ Changes \/ Saves \/ Cancels
           \/ \E b \in batches : Records(b) \/ Hears(b)
           \/ \E r \in Runs : Prepares(r) \/ Enters(r) \/ Works(r) \/ Asks(r)
           \/ UNCHANGED vars
    PROVE  WasShown(q)
<1>1. screen \in Screen /\ q # NoTask
  BY Constants DEF TypeOK
<1>2. CASE Decision
  <2>1. PICK b, good, items : Decided(b, good, items)
    BY <1>2 DEF Decision
  <2>2. /\ screen'.task = screen.task /\ batches' = batches \cup {b} /\ b.task = screen.task
        /\ written' = written \cup ({screen.task} \X good)
    BY <2>1 DEF Decided, Slot
  <2>3. CASE q = screen.task
    BY <2>3 DEF WasShown
  <2>4. CASE q # screen.task
    BY <2>2, <2>4 DEF WasShown
  <2> QED
    BY <2>3, <2>4
<1>3. CASE \E b \in batches : Records(b)
  <2>1. PICK b \in batches, c \in Batches : Replaces(b, c)
    BY <1>3 DEF Records, Replaces
  <2>2. \A d \in batches' : \E e \in batches : d.task = e.task
    BY <2>1 DEF Replaces
  <2>3. UNCHANGED <<screen, written>>
    BY <2>1 DEF Replaces
  <2> QED
    BY <2>2, <2>3 DEF WasShown
<1>4. CASE \E b \in batches : Hears(b)
  <2>1. batches' \subseteq batches /\ screen'.task = screen.task /\ UNCHANGED written
    BY <1>4 DEF Hears, Answered
  <2> QED
    BY <2>1 DEF WasShown
<1>5. CASE Hides \/ Saves \/ Cancels \/ UNCHANGED vars
  <2>1. screen'.task = screen.task /\ UNCHANGED <<batches, written>>
    BY <1>5 DEF Hides, Saves, Cancels, Slot, vars
  <2> QED
    BY <2>1 DEF WasShown
<1>6. CASE Changes
  <2>1. /\ screen'.task = screen.task \/ screen'.task = NoTask
        /\ UNCHANGED <<batches, written>>
    BY <1>6 DEF Changes, DismissesStale
  <2> QED
    BY <1>1, <2>1 DEF WasShown
<1>7. CASE \E r \in Runs : Prepares(r) \/ Enters(r) \/ Works(r) \/ Asks(r)
  <2>1. screen'.task = screen.task /\ UNCHANGED <<batches, written>>
    <3>1. CASE \E r \in Runs : Enters(r)
      BY <1>1, <3>1 DEF Enters, Screen
    <3>2. CASE \E r \in Runs : Prepares(r) \/ Works(r) \/ Asks(r)
      BY <3>2, WorksIs DEF Prepares, WorksOn, Asks
    <3> QED
      BY <1>7, <3>1, <3>2
  <2> QED
    BY <2>1 DEF WasShown
<1> QED
  BY <1>2, <1>3, <1>4, <1>5, <1>6, <1>7

LEMMA NextShownIsHeard ==
    ASSUME TypeOK, Settling, Asking, Numbered, LateIsKnown, ShownIsHeard, [Next]_vars
    PROVE  ShownIsHeard'
<1> SUFFICES ASSUME NEW q \in Runs, WasShown(q)'
             PROVE  runs'[q].pc \notin Early /\ Heard(q)'
  BY DEF ShownIsHeard
<1>1. /\ Step /\ tasks \in [Runs -> Task] /\ runs \in [Runs -> Run] /\ Settled(q)
      /\ screen.id \in Nat /\ runs[q].id \in Nat
  BY StepIs DEF TypeOK, Settling, Screen, Run
<1>2. WasShown(q) => runs[q].pc \notin Early /\ Heard(q)
  BY DEF ShownIsHeard
<1>3. CASE \/ Hides \/ Decision \/ Changes \/ Saves
           \/ \E b \in batches : Records(b) \/ Hears(b)
           \/ UNCHANGED vars
  <2>1. /\ UNCHANGED <<kind, runs>> /\ screen'.open = screen.open /\ screen'.id = screen.id
        /\ (screen'.running => screen.running) /\ screen'.late = screen.late
    BY <1>3, RunsStay
  <2>2. WasShown(q)
    BY <1>3, ShownBefore
  <2> QED
    BY <1>2, <2>1, <2>2 DEF Heard, MatchesScreen
<1>4. CASE Restores
  <2>1. /\ UNCHANGED <<kind, runs, batches, written>> /\ screen'.open = screen.open
        /\ screen'.id = screen.id /\ (screen'.running => screen.running)
        /\ screen'.late = screen.late
    BY <1>4, RunsStay DEF Restores
  <2>2. CASE WasShown(q)
    BY <1>2, <2>1, <2>2 DEF Heard, MatchesScreen
  <2>3. CASE ~WasShown(q)
    <3>1. screen'.task = q /\ screen' # screen
      BY <2>1, <2>3 DEF WasShown
    <3>2. Fresh(q, guide.text) /\ ~screen'.running /\ kind = "visual"
      BY <1>4, <3>1 DEF Restores, Shows
    <3>3. runs[q].pc \notin Early
      BY <1>1, <3>2 DEF Fresh, Settled
    <3> QED
      BY <2>1, <3>2, <3>3 DEF Heard, MatchesScreen
  <2> QED
    BY <2>2, <2>3
<1>5. CASE \E r \in Runs : Prepares(r) \/ Enters(r) \/ Works(r) \/ Answers(r)
  <2>1. PICK r \in Runs : Prepares(r) \/ Enters(r) \/ Works(r) \/ Answers(r)
    BY <1>5
  <2>2. /\ Only(r) /\ UNCHANGED <<kind, batches, written>> /\ runs[r].pc \notin AtRest
        /\ screen'.open = screen.open /\ screen'.id = screen.id
        /\ screen'.late = screen.late
        /\ screen'.running => screen.running
        /\ \/ UNCHANGED screen /\ runs'[r].id = runs[r].id
           \/ runs'[r].pc = "done"
    BY <2>1, WorkersAlone
  <2>3. CASE runs'[r].pc = "done" /\ q = r
    BY <2>3 DEF Heard, Early
  <2>4. CASE ~(runs'[r].pc = "done" /\ q = r)
    <3>1. WasShown(q)
      <4>1. CASE Answers(r)
        <5>1. runs'[r].pc = "done" /\ q # r
          BY <2>4, <4>1 DEF Answers
        <5>2. screen'.task \in {screen.task, NoTask, r}
          BY <4>1 DEF Answers, Shows, TypeOK, Screen
        <5> QED
          BY <2>2, <5>1, <5>2, Constants DEF WasShown
      <4>2. CASE Prepares(r) \/ Enters(r) \/ Works(r)
        BY <4>2, ShownBefore
      <4> QED
        BY <2>1, <4>1, <4>2
    <3>2. CASE q # r
      BY <1>2, <2>2, <3>1, <3>2 DEF Heard, MatchesScreen, Only
    <3>3. CASE q = r
      <4>1. Works(r)
        BY <1>2, <2>1, <2>4, <3>1, <3>3 DEF Prepares, Enters, Answers, Early
      <4>2. runs'[r].pc \notin Early
        BY <4>1 DEF Works, Creates, Starts, Proposes, Promotes, Fails, WorksOn
      <4> QED
        BY <1>2, <2>2, <2>4, <3>1, <3>3, <4>2 DEF Heard, MatchesScreen, AtRest
    <3> QED
      BY <3>2, <3>3
  <2> QED
    BY <2>3, <2>4
<1>6. CASE \E r \in Runs : Asks(r) /\ ((kind = "captions" /\ screen.open) \/ screen.consent)
  <2>1. PICK r \in Runs : Asks(r)
    BY <1>6
  <2>2. WasShown(q) /\ screen.open
    BY <1>6, ShownBefore DEF Asking
  <2>3. q # r
    BY <1>2, <2>1, <2>2 DEF Asks, Early
  <2>4. runs'[q] = runs[q] /\ UNCHANGED kind
    BY <2>1, <2>3 DEF Asks, Only
  <2>5. screen'.id = screen.id + 1 /\ screen'.late = screen.late
    BY <2>1 DEF Asks
  <2>6. q \notin screen.late => runs[q].id # screen'.id
    BY <1>1, <2>2, <2>5 DEF Numbered
  <2> QED
    BY <1>2, <2>2, <2>4, <2>5, <2>6 DEF Heard, MatchesScreen
<1>7. CASE Cancels
  <2>1. WasShown(q)
    BY <1>7, ShownBefore
  <2> QED
    BY <1>2, <1>7, <2>1 DEF Cancels, Heard, MatchesScreen, Slot
<1>8. CASE Closes
  <2>1. WasShown(q)
    BY <1>8, Constants DEF Closes, WasShown
  <2> QED
    BY <1>2, <1>8, <2>1 DEF Closes, Heard, MatchesScreen
<1>9. CASE Opens
  <2>1. /\ UNCHANGED <<kind, runs, batches>> /\ written' = {} /\ ~screen'.running
        /\ screen'.late = screen.late /\ ~screen.open
    BY <1>9 DEF Opens
  <2>2. CASE WasShown(q)
    BY <1>2, <2>1, <2>2 DEF Heard, MatchesScreen
  <2>3. CASE ~WasShown(q)
    <3>1. screen'.task = q
      BY <2>1, <2>3 DEF WasShown
    <3>2. Fresh(q, disk.text)
      BY <1>9, <3>1, Constants DEF Opens
    <3>3. runs[q].pc \notin Early
      BY <1>1, <3>2 DEF Fresh, Settled
    <3>4. runs[q].pc = "done" \/ q \in screen.late
      BY <2>1, <3>3 DEF LateIsKnown, AtRest, Early
    <3> QED
      BY <2>1, <3>3, <3>4 DEF Heard
  <2> QED
    BY <2>2, <2>3
<1>10. CASE Restarts
  <2>1. screen'.task = NoTask /\ batches' = {} /\ written' = {}
    BY <1>10 DEF Restarts
  <2> QED
    BY <2>1, Constants DEF WasShown
<1> QED
  BY <1>1, <1>3, <1>4, <1>5, <1>6, <1>7, <1>8, <1>9, <1>10 DEF Step

-----------------------------------------------------------------------------
(* One batch at a time.                                                    *)
LEMMA WaitStays ==
    ASSUME TypeOK,
           \/ \E r \in Runs : Prepares(r) \/ Enters(r) \/ Works(r) \/ Answers(r) \/ Asks(r)
           \/ Hides \/ Cancels \/ Changes \/ Saves \/ Restores \/ UNCHANGED vars
    PROVE  /\ UNCHANGED <<batches, opens>>
           /\ screen'.open = screen.open /\ screen'.waiting = screen.waiting
           /\ screen'.crossed = screen.crossed
<1>1. screen \in Screen
  BY DEF TypeOK
<1>2. CASE \E r \in Runs : Prepares(r) \/ Enters(r) \/ Works(r) \/ Answers(r) \/ Asks(r)
  <2>1. PICK r \in Runs : Prepares(r) \/ Enters(r) \/ Works(r) \/ Answers(r) \/ Asks(r)
    BY <1>2
  <2>2. CASE Prepares(r) \/ Works(r) \/ Asks(r)
    BY <2>2 DEF Prepares, Works, Creates, Starts, Proposes, Promotes, Fails, WorksOn, Asks
  <2>3. CASE Enters(r)
    BY <1>1, <2>3 DEF Enters, Screen
  <2>4. CASE Answers(r)
    BY <1>1, <2>4 DEF Answers, Shows, Screen
  <2> QED
    BY <2>1, <2>2, <2>3, <2>4
<1>3. CASE Hides \/ Cancels \/ Saves \/ UNCHANGED vars
  BY <1>3 DEF Hides, Cancels, Saves, Slot, vars
<1>4. CASE Changes \/ Restores
  BY <1>4 DEF Changes, DismissesStale, Restores, Shows
<1> QED
  BY <1>2, <1>3, <1>4

LEMMA InitBatches == Init => WaitsForBatch /\ OneBatchAtATime /\ Phases
BY DEF Init, WaitsForBatch, OneBatchAtATime, Phases

LEMMA NextOneBatch ==
    ASSUME TypeOK, LateIsKnown, WaitsForBatch, OneBatchAtATime, [Next]_vars
    PROVE  WaitsForBatch' /\ OneBatchAtATime'
<1>1. Step /\ opens \in Nat /\ screen.crossed \in BOOLEAN
  BY StepIs DEF TypeOK, Screen
<1>2. CASE \/ \E r \in Runs : Prepares(r) \/ Enters(r) \/ Works(r) \/ Answers(r) \/ Asks(r)
           \/ Hides \/ Cancels \/ Changes \/ Saves \/ Restores \/ UNCHANGED vars
  BY <1>2, WaitStays DEF WaitsForBatch, OneBatchAtATime
<1>3. CASE Decision
  <2>1. PICK b, good, items : MayDecide /\ Decided(b, good, items)
    BY <1>3 DEF Decision
  <2>2. /\ batches' = batches \cup {b} /\ opens' = opens /\ screen'.waiting
        /\ screen'.open = screen.open /\ screen'.crossed = screen.crossed
        /\ screen.open /\ ~screen.waiting
    BY <2>1 DEF Decided, MayDecide, Slot
  <2>3. ~screen.crossed => \A c \in batches : c.open # opens
    BY <2>2 DEF WaitsForBatch
  <2> QED
    BY <2>2, <2>3 DEF WaitsForBatch, OneBatchAtATime
<1>4. CASE \E b \in batches : Records(b)
  <2>1. PICK b \in batches, c \in Batches : Replaces(b, c)
    BY <1>4 DEF Records, Replaces
  <2>2. /\ batches' = (batches \ {b}) \cup {c} /\ c.open = b.open
        /\ UNCHANGED <<screen, opens>>
    BY <2>1 DEF Replaces
  <2>3. WaitsForBatch'
    BY <2>2 DEF WaitsForBatch
  <2>4. ASSUME screen.open, ~screen.crossed, NEW d \in batches', NEW e \in batches',
               d.open = opens, e.open = opens
        PROVE  d = e
    <3>1. CASE d # c /\ e # c
      BY <2>2, <2>4, <3>1 DEF OneBatchAtATime
    <3>2. CASE d = c /\ e # c
      <4>1. e \in batches /\ e # b /\ b.open = opens
        BY <2>2, <2>4, <3>2
      <4> QED
        BY <2>4, <4>1 DEF OneBatchAtATime
    <3>3. CASE d # c /\ e = c
      <4>1. d \in batches /\ d # b /\ b.open = opens
        BY <2>2, <2>4, <3>3
      <4> QED
        BY <2>4, <4>1 DEF OneBatchAtATime
    <3> QED
      BY <3>1, <3>2, <3>3
  <2> QED
    BY <2>2, <2>3, <2>4 DEF OneBatchAtATime
<1>5. CASE \E b \in batches : Hears(b)
  <2>1. PICK b \in batches : Hears(b)
    BY <1>5
  <2>2. batches' = batches \ {b} /\ opens' = opens
    BY <2>1 DEF Hears
  <2>3. CASE UNCHANGED screen
    BY <2>2, <2>3 DEF WaitsForBatch, OneBatchAtATime
  <2>4. CASE Answered(b)
    <3>1. /\ screen'.open = screen.open
          /\ screen'.crossed = (screen.crossed \/ b.open # opens)
      BY <2>4 DEF Answered
    <3>2. CASE screen.open /\ ~screen.crossed /\ b.open = opens
      <4>1. \A c \in batches' : c.open # opens
        BY <2>2, <3>2 DEF OneBatchAtATime
      <4> QED
        BY <2>2, <4>1 DEF WaitsForBatch, OneBatchAtATime
    <3>3. CASE ~(screen.open /\ ~screen.crossed /\ b.open = opens)
      BY <1>1, <3>1, <3>3 DEF WaitsForBatch, OneBatchAtATime
    <3> QED
      BY <3>2, <3>3
  <2> QED
    BY <2>1, <2>3, <2>4 DEF Hears
<1>6. CASE Closes \/ Restarts
  BY <1>6 DEF Closes, Restarts, WaitsForBatch, OneBatchAtATime
<1>7. CASE Opens
  <2>1. opens' = opens + 1 /\ UNCHANGED batches
    BY <1>7 DEF Opens
  <2>2. \A b \in batches : b.open # opens'
    BY <1>1, <2>1, BatchIs DEF LateIsKnown
  <2> QED
    BY <2>1, <2>2 DEF WaitsForBatch, OneBatchAtATime
<1> QED
  BY <1>1, <1>2, <1>3, <1>4, <1>5, <1>6, <1>7 DEF Step

(* A batch that begins is of a review on screen, one that ends has begun.  *)
LEMMA NextPhases ==
    ASSUME TypeOK, Phases, [Next]_vars
    PROVE  Phases'
<1>1. Step
  BY StepIs
<1>2. CASE \/ \E r \in Runs : Prepares(r) \/ Enters(r) \/ Works(r) \/ Answers(r) \/ Asks(r)
           \/ Hides \/ Cancels \/ Changes \/ Saves \/ Restores \/ UNCHANGED vars
  BY <1>2, WaitStays DEF Phases
<1>3. CASE Decision
  <2>1. PICK b, good, items : MayDecide /\ Decided(b, good, items)
    BY <1>3 DEF Decision
  <2>2. /\ batches' = batches \cup {b} /\ b.pc = "begin" /\ b.snap = screen.snap
        /\ screen.shown
    BY <2>1 DEF Decided, MayDecide
  <2>3. b.snap \in {"ReadyForReview", "Applying"}
    BY <2>2 DEF TypeOK
  <2> QED
    BY <2>2, <2>3 DEF Phases
<1>4. CASE \E b \in batches : Records(b)
  <2>1. PICK b \in batches, c \in Batches : /\ Replaces(b, c)
                                            /\ \/ b.pc = "begin" /\ Begins(b, c)
                                               \/ b.pc = "final" /\ Finishes(b, c)
    BY <1>4 DEF Records, Replaces
  <2>2. batches' = (batches \ {b}) \cup {c}
    BY <2>1 DEF Replaces
  <2>3. c.pc = "answer" \/ (c.pc = "final" /\ c.snap = "Applying")
    BY <2>1 DEF Begins, Finishes, Phases
  <2> QED
    BY <2>2, <2>3 DEF Phases
<1>5. CASE (\E b \in batches : Hears(b)) \/ Closes \/ Opens \/ Restarts
  <2>1. batches' \subseteq batches
    BY <1>5 DEF Hears, Closes, Opens, Restarts
  <2> QED
    BY <2>1 DEF Phases
<1> QED
  BY <1>1, <1>2, <1>3, <1>4, <1>5 DEF Step

-----------------------------------------------------------------------------
(* The store as the batches, the runs and the screen believe it to be.     *)
LEMMA FaultsStay ==
    ASSUME TypeOK, Step, faults' = 0
    PROVE  faults = 0
<1>1. CASE \E r \in Runs : Prepares(r) \/ Enters(r) \/ Works(r) \/ Answers(r) \/ Asks(r)
  BY <1>1, WorksIs DEF Prepares, Enters, WorksOn, Answers, Asks
<1>2. CASE \E b \in batches : Records(b) \/ Hears(b)
  BY <1>2 DEF Records, Replaces, Hears
<1>3. CASE Hides \/ Cancels \/ Decision \/ Changes \/ Saves
  BY <1>3 DEF Hides, Cancels, Decision, Decided, Changes, DismissesStale, Saves
<1>4. CASE Restores \/ Closes \/ Opens \/ Restarts \/ UNCHANGED vars
  BY <1>4 DEF Restores, Closes, Opens, Restarts, vars
<1> QED
  BY <1>1, <1>2, <1>3, <1>4 DEF Step

(* But for the batches, a task is only moved by its own worker or closed.  *)
LEMMA OthersMove ==
    ASSUME TypeOK, Settling, NEW q \in Runs,
           \/ \E r \in Runs : Prepares(r) \/ Enters(r) \/ Works(r) \/ Answers(r) \/ Asks(r)
           \/ Hides \/ Cancels \/ Decision \/ Changes \/ Saves \/ Restores \/ Closes \/ Opens
           \/ \E b \in batches : Hears(b)
           \/ UNCHANGED vars
    PROVE  \/ tasks'[q].status = tasks[q].status
           \/ tasks'[q].status \in {"Stale", "Interrupted"}
           \/ tasks[q].status \in {"None", "Created", "Running"}
<1>1. CASE \E r \in Runs : Works(r)
  <2>1. PICK r \in Runs : WorksOn(r)
    BY <1>1, WorksIs
  <2>2. CASE q # r
    BY <2>1, <2>2 DEF WorksOn
  <2>3. CASE q = r
    <3>1. runs[r].pc = "create" => tasks[r].status = "None"
      BY DEF Settling, Settled, Early
    <3> QED
      BY <2>1, <2>3, <3>1 DEF WorksOn
  <2> QED
    BY <2>2, <2>3
<1>2. CASE \E r \in Runs : Prepares(r) \/ Enters(r) \/ Answers(r) \/ Asks(r)
  BY <1>2 DEF Prepares, Enters, Answers, Asks
<1>3. CASE Changes
  BY <1>3 DEF Changes, DismissesStale
<1>4. CASE Restores \/ Opens
  BY <1>4 DEF Restores, Opens, Reconciles
<1>5. CASE Hides \/ Cancels \/ Decision \/ Saves \/ Closes
  BY <1>5 DEF Hides, Cancels, Decision, Decided, Saves, Closes
<1>6. CASE (\E b \in batches : Hears(b)) \/ UNCHANGED vars
  BY <1>6 DEF Hears, vars
<1> QED
  BY <1>1, <1>2, <1>3, <1>4, <1>5, <1>6

LEMMA InitFollowing == Init => Following /\ ScreenFollowsStore
BY DEF Init, Following, WillBeShown, ScreenFollowsStore, IdleScreen

(* The snapshot of a batch of this opening.                                *)
LEMMA NextBatchFollows ==
    ASSUME TypeOK, Settling, LateIsKnown, OneBatchAtATime, WaitsForBatch, Phases, Following,
           ScreenFollowsStore, Step, faults' = 0, screen'.open, ~screen'.crossed,
           NEW d \in batches', d.open = opens', d.task \notin screen'.late
    PROVE  BatchFollows(d)'
<1>1. faults = 0
  BY FaultsStay
<1>2. \A b \in batches : b.task \in Runs /\ b.snap \in {"ReadyForReview", "Applying"} \cup Final
  BY BatchIs
<1>3. ASSUME screen.open, ~screen.crossed, NEW b \in batches, b.open = opens,
             b.task \notin screen.late
      PROVE  BatchFollows(b)
  BY <1>1, <1>3 DEF Following
<1>4. CASE \E b \in batches : Records(b)
  <2>1. PICK b \in batches, c \in Batches : /\ Replaces(b, c)
                                            /\ \/ b.pc = "begin" /\ Begins(b, c)
                                               \/ b.pc = "final" /\ Finishes(b, c)
    BY <1>4 DEF Records, Replaces
  <2>2. /\ batches' = (batches \ {b}) \cup {c} /\ c.open = b.open /\ c.task = b.task
        /\ \A q \in Runs : q # b.task => tasks'[q] = tasks[q]
        /\ UNCHANGED <<screen, opens>>
    BY <2>1 DEF Replaces
  <2>3. CASE d # c
    <3>1. d \in batches /\ d # b /\ BatchFollows(d)
      BY <1>3, <2>2, <2>3
    <3>2. b.open # opens
      BY <2>2, <3>1 DEF OneBatchAtATime
    <3>3. b.task # d.task
      BY <2>2, <3>2 DEF LateIsKnown
    <3>4. tasks'[d.task] = tasks[d.task]
      BY <1>2, <2>2, <3>1, <3>3
    <3> QED
      BY <3>1, <3>4 DEF BatchFollows, Closed
  <2>4. CASE d = c
    <3>1. BatchFollows(b)
      BY <1>3, <2>2, <2>4
    <3>2. CASE b.pc = "begin" /\ Begins(b, c)
      BY <2>2, <2>4, <3>1, <3>2 DEF Begins, BatchFollows, Closed
    <3>3. CASE b.pc = "final" /\ Finishes(b, c)
      BY <2>2, <2>4, <3>1, <3>3 DEF Finishes, BatchFollows, Closed, Phases
    <3> QED
      BY <2>1, <3>2, <3>3
  <2> QED
    BY <2>3, <2>4
<1>5. CASE Decision
  <2>1. PICK b, good, items : MayDecide /\ Decided(b, good, items)
    BY <1>5 DEF Decision
  <2>2. /\ batches' = batches \cup {b} /\ UNCHANGED <<tasks, opens>>
        /\ screen'.open = screen.open /\ screen'.late = screen.late
        /\ screen'.crossed = screen.crossed
    BY <2>1 DEF Decided, Slot
  <2>3. CASE d = b
    <3>1. b.task = screen.task /\ b.snap = screen.snap /\ b.pc = "begin"
      BY <2>1 DEF Decided
    <3>2. screen.snap = tasks[screen.task].status \/ ClosedUnderReview
      BY <1>1, <2>1, <2>2, <2>3, <3>1 DEF MayDecide, ScreenFollowsStore
    <3> QED
      BY <2>2, <2>3, <3>1, <3>2 DEF BatchFollows, Closed, ClosedUnderReview
  <2>4. CASE d # b
    <3>1. BatchFollows(d)
      BY <1>3, <2>2, <2>4
    <3> QED
      BY <2>2, <3>1 DEF BatchFollows, Closed
  <2> QED
    BY <2>3, <2>4
<1>6. CASE Closes \/ Restarts
  BY <1>6 DEF Closes, Restarts
<1>7. CASE Opens
  <2>1. opens' = opens + 1 /\ UNCHANGED batches
    BY <1>7 DEF Opens
  <2>2. d.open <= opens /\ d.open \in Nat /\ opens \in Nat
    BY <2>1, BatchIs DEF LateIsKnown, TypeOK
  <2> QED
    BY <2>1, <2>2
<1>8. CASE \/ \E r \in Runs : Prepares(r) \/ Enters(r) \/ Works(r) \/ Answers(r) \/ Asks(r)
           \/ Hides \/ Cancels \/ Changes \/ Saves \/ Restores \/ UNCHANGED vars
           \/ \E b \in batches : Hears(b)
  <2>1. /\ batches' \subseteq batches /\ opens' = opens /\ screen.open /\ ~screen.crossed
        /\ screen'.late = screen.late
    <3>1. CASE \E b \in batches : Hears(b)
      BY <3>1 DEF Hears, Answered
    <3>2. CASE \E r \in Runs : Prepares(r) \/ Enters(r) \/ Works(r) \/ Answers(r)
      BY <3>2, WaitStays, WorkersAlone
    <3>3. CASE Cancels \/ \E r \in Runs : Asks(r)
      BY <3>3 DEF Cancels, Slot, Asks
    <3>4. CASE Hides \/ Changes \/ Saves \/ Restores \/ UNCHANGED vars
      BY <3>4, WaitStays, RunsStay
    <3> QED
      BY <1>8, <3>1, <3>2, <3>3, <3>4
  <2>2. BatchFollows(d)
    BY <1>3, <2>1
  <2>3. PICK q \in Runs : q = d.task
    BY <1>2, <2>1
  <2>4. \/ tasks'[q].status = tasks[q].status
        \/ tasks'[q].status \in {"Stale", "Interrupted"}
        \/ tasks[q].status \in {"None", "Created", "Running"}
    BY <1>8, OthersMove
  <2>5. tasks[q].status \notin {"None", "Created", "Running"}
    BY <1>2, <2>1, <2>2, <2>3 DEF BatchFollows, Closed, Final
  <2> QED
    BY <2>2, <2>3, <2>4, <2>5 DEF BatchFollows, Closed
<1> QED
  BY <1>4, <1>5, <1>6, <1>7, <1>8 DEF Step

(* A promoted run whose suggestions will be shown.                         *)
LEMMA WillBeShownBefore ==
    ASSUME TypeOK, Settling, Numbered, Asking, Step, NEW q \in Runs, WillBeShown(q)'
    PROVE  \/ WillBeShown(q) /\ ~Restarts
           \/ tasks'[q].status = "ReadyForReview"
<1>1. /\ runs'[q].pc = "answer" /\ runs'[q].result = "ok" /\ q \notin screen'.late
      /\ kind' = "visual" => screen'.open /\ screen'.running /\ runs'[q].id = screen'.id
  BY DEF WillBeShown, MatchesScreen
<1>2. screen.id \in Nat /\ runs[q].id \in Nat /\ Settled(q)
  BY DEF TypeOK, Screen, Run, Settling
<1>3. CASE \/ Hides \/ Decision \/ Changes \/ Saves
           \/ \E b \in batches : Records(b) \/ Hears(b)
           \/ Restores \/ UNCHANGED vars
  <2>1. /\ UNCHANGED <<kind, runs>> /\ screen'.open = screen.open /\ screen'.id = screen.id
        /\ (screen'.running => screen.running) /\ screen'.late = screen.late
    BY <1>3, RunsStay
  <2>2. WillBeShown(q)
    BY <1>1, <2>1 DEF WillBeShown, MatchesScreen
  <2>3. Restarts => \A r \in Runs : runs'[r].pc # "answer"
    BY DEF Restarts
  <2> QED
    BY <1>1, <2>2, <2>3
<1>4. CASE \E r \in Runs : Prepares(r) \/ Enters(r) \/ Works(r) \/ Answers(r)
  <2>1. PICK r \in Runs : Prepares(r) \/ Enters(r) \/ Works(r) \/ Answers(r)
    BY <1>4
  <2>2. /\ Only(r) /\ UNCHANGED kind
        /\ screen'.open = screen.open /\ screen'.id = screen.id
        /\ screen'.late = screen.late
        /\ screen'.running => screen.running
    BY <2>1, WorkersAlone
  <2>3. CASE q # r
    <3>1. WillBeShown(q)
      BY <1>1, <2>2, <2>3 DEF Only, WillBeShown, MatchesScreen
    <3>2. Restarts => \A p \in Runs : runs'[p].pc # "answer"
      BY DEF Restarts
    <3> QED
      BY <1>1, <3>1, <3>2
  <2>4. CASE q = r
    <3>1. Works(r)
      BY <1>1, <2>1, <2>4 DEF Prepares, Enters, Answers
    <3>2. CASE Creates(r) \/ Starts(r) \/ Proposes(r)
      BY <1>1, <2>4, <3>2 DEF Creates, Starts, Proposes
    <3>3. CASE Promotes(r)
      BY <1>1, <2>4, <3>3 DEF Promotes
    <3>4. CASE Fails(r)
      BY <1>1, <1>2, <2>4, <3>4 DEF Fails, Settled
    <3> QED
      BY <3>1, <3>2, <3>3, <3>4 DEF Works
  <2> QED
    BY <2>3, <2>4
<1>5. CASE \E r \in Runs : Asks(r) /\ ((kind = "captions" /\ screen.open) \/ screen.consent)
  <2>1. PICK r \in Runs : Asks(r)
    BY <1>5
  <2>2. q # r
    BY <1>1, <2>1 DEF Asks
  <2>3. /\ runs'[q] = runs[q] /\ UNCHANGED kind /\ screen'.late = screen.late
        /\ screen'.id = screen.id + 1
    BY <2>1, <2>2 DEF Asks, Only
  <2>4. screen.open
    BY <1>5 DEF Asking
  <2>5. runs[q].id <= screen.id
    BY <1>1, <2>3, <2>4 DEF Numbered
  <2>6. kind # "visual"
    BY <1>1, <1>2, <2>3, <2>5
  <2>7. Restarts => \A p \in Runs : runs'[p].pc # "answer"
    BY DEF Restarts
  <2> QED
    BY <1>1, <2>3, <2>6, <2>7 DEF WillBeShown
<1>6. CASE Cancels \/ Closes \/ Opens
  <2>1. /\ ~screen'.running /\ UNCHANGED kind /\ screen.late \subseteq screen'.late
        /\ runs'[q].pc = runs[q].pc /\ runs'[q].result = runs[q].result
    BY <1>6 DEF Cancels, Closes, Opens, Slot
  <2>2. Restarts => \A p \in Runs : runs'[p].pc # "answer"
    BY DEF Restarts
  <2> QED
    BY <1>1, <2>1, <2>2 DEF WillBeShown
<1>7. CASE Restarts
  BY <1>1, <1>7 DEF Restarts
<1> QED
  BY <1>3, <1>4, <1>5, <1>6, <1>7 DEF Step

LEMMA NextFollowing ==
    ASSUME TypeOK, Settling, Asking, Numbered, LateIsKnown, ShownIsHeard, OneBatchAtATime,
           WaitsForBatch, Phases, Following, ScreenFollowsStore, [Next]_vars
    PROVE  Following'
<1>1. Step
  BY StepIs
<1>2. ASSUME faults' = 0, NEW q \in Runs, WillBeShown(q)'
      PROVE  tasks'[q].status = "ReadyForReview" \/ Closed(q)'
  <2>1. CASE WillBeShown(q) /\ ~Restarts
    <3>1. tasks[q].status = "ReadyForReview" \/ Closed(q)
      BY <1>1, <1>2, <2>1, FaultsStay DEF Following
    <3>2. CASE \E b \in batches : Records(b)
      <4>1. PICK b \in batches, c \in Batches : Replaces(b, c)
        BY <3>2 DEF Records, Replaces
      <4>2. b.task # q
        BY <2>1 DEF ShownIsHeard, WasShown, Heard, WillBeShown
      <4> QED
        BY <3>1, <4>1, <4>2 DEF Replaces, Closed
    <3>3. CASE ~\E b \in batches : Records(b)
      <4>1. \/ tasks'[q].status = tasks[q].status
            \/ tasks'[q].status \in {"Stale", "Interrupted"}
            \/ tasks[q].status \in {"None", "Created", "Running"}
        BY <1>1, <2>1, <3>3, OthersMove DEF Step
      <4> QED
        BY <3>1, <4>1 DEF Closed
    <3> QED
      BY <3>2, <3>3
  <2>2. CASE tasks'[q].status = "ReadyForReview"
    BY <2>2
  <2> QED
    BY <1>1, <1>2, <2>1, <2>2, WillBeShownBefore
<1>3. ASSUME faults' = 0, screen'.open, ~screen'.crossed, NEW d \in batches', d.open = opens',
             d.task \notin screen'.late
      PROVE  BatchFollows(d)'
  BY <1>1, <1>3, NextBatchFollows
<1> QED
  BY <1>2, <1>3 DEF Following

(* The screen holds the snapshot the store holds.                          *)
LEMMA NextScreenFollows ==
    ASSUME TypeOK, Settling, Asking, LateIsKnown, ShownIsHeard, WaitsForBatch, Following,
           ScreenFollowsStore, [Next]_vars
    PROVE  ScreenFollowsStore'
<1> SUFFICES ASSUME screen'.open, screen'.shown, ~screen'.waiting, faults' = 0,
                    screen'.task \notin screen'.late, ~screen'.crossed
             PROVE  \/ screen'.snap = tasks'[screen'.task].status
                    \/ tasks'[screen'.task].status \in {"Stale", "Interrupted"}
  BY DEF ScreenFollowsStore, ClosedUnderReview
<1>1. Step /\ faults = 0 /\ screen \in Screen
  BY StepIs, FaultsStay DEF TypeOK
<1> DEFINE Held ==
      /\ screen.open /\ screen.shown /\ ~screen.waiting
      /\ screen.task \notin screen.late /\ ~screen.crossed
<1>2. ASSUME Held
      PROVE  /\ screen.task \in Runs /\ screen.snap \in {"ReadyForReview", "Applying"}
             /\ \/ screen.snap = tasks[screen.task].status
                \/ tasks[screen.task].status \in {"Stale", "Interrupted"}
  BY <1>1, <1>2 DEF ScreenFollowsStore, ClosedUnderReview, TypeOK
<1>3. ASSUME /\ screen'.open = screen.open /\ screen'.shown = screen.shown
             /\ screen'.waiting = screen.waiting /\ screen'.task = screen.task
             /\ screen'.snap = screen.snap /\ screen'.late = screen.late
             /\ screen'.crossed = screen.crossed
      PROVE  /\ Held /\ screen'.task = screen.task /\ screen'.snap = screen.snap
  BY <1>3
<1>4. CASE \E r \in Runs : Prepares(r) \/ Enters(r)
  <2>1. /\ UNCHANGED tasks
        /\ screen'.open = screen.open /\ screen'.shown = screen.shown
        /\ screen'.waiting = screen.waiting /\ screen'.task = screen.task
        /\ screen'.snap = screen.snap /\ screen'.late = screen.late
        /\ screen'.crossed = screen.crossed
    BY <1>1, <1>4 DEF Prepares, Enters, Screen
  <2> QED
    BY <1>2, <1>3, <2>1
<1>5. CASE \E r \in Runs : Works(r)
  <2>1. PICK r \in Runs : WorksOn(r)
    BY <1>5, WorksIs
  <2>2. Held /\ screen'.task = screen.task /\ screen'.snap = screen.snap
    BY <1>3, <2>1 DEF WorksOn
  <2>3. CASE screen.task # r
    BY <1>2, <2>1, <2>2, <2>3 DEF WorksOn
  <2>4. CASE screen.task = r
    <3>1. runs[r].pc # "create"
      BY <2>4 DEF ShownIsHeard, WasShown, Early
    <3>2. tasks[r].status \notin {"Created", "Running"}
      BY <1>2, <2>2, <2>4
    <3> QED
      BY <1>2, <2>1, <2>2, <2>4, <3>1, <3>2 DEF WorksOn
  <2> QED
    BY <2>3, <2>4
<1>6. CASE \E r \in Runs : Answers(r)
  <2>1. PICK r \in Runs : Answers(r)
    BY <1>6
  <2>2. CASE Shows(screen, r, runs[r].base) /\ runs[r].result = "ok"
             /\ (kind = "visual" => MatchesScreen(r))
    <3>1. WillBeShown(r) /\ screen'.task = r /\ screen'.snap = "ReadyForReview" /\ UNCHANGED tasks
      BY <2>1, <2>2 DEF Answers, WillBeShown, Shows
    <3>2. tasks[r].status = "ReadyForReview" \/ Closed(r)
      BY <1>1, <3>1 DEF Following
    <3> QED
      BY <3>1, <3>2 DEF Closed
  <2>3. CASE /\ kind = "visual" /\ MatchesScreen(r)
             /\ screen' = [screen EXCEPT !.running = FALSE, !.task = NoTask, !.snap = "None"]
    <3>1. ~screen.shown
      BY <2>3 DEF Asking, MatchesScreen
    <3>2. ~screen'.shown
      BY <1>1, <2>3, <3>1 DEF Screen
    <3> QED
      BY <3>2
  <2>4. CASE UNCHANGED screen \/ screen' = [screen EXCEPT !.running = FALSE]
    <3>1. /\ UNCHANGED tasks
          /\ screen'.open = screen.open /\ screen'.shown = screen.shown
          /\ screen'.waiting = screen.waiting /\ screen'.task = screen.task
          /\ screen'.snap = screen.snap /\ screen'.late = screen.late
          /\ screen'.crossed = screen.crossed
      BY <1>1, <2>1, <2>4 DEF Answers, Screen
    <3> QED
      BY <1>2, <1>3, <3>1
  <2> QED
    BY <2>1, <2>2, <2>3, <2>4 DEF Answers
<1>7. CASE (\E r \in Runs : Asks(r)) \/ Cancels \/ Saves \/ UNCHANGED vars
  <2>1. /\ UNCHANGED tasks
        /\ screen'.open = screen.open /\ screen'.shown = screen.shown
        /\ screen'.waiting = screen.waiting /\ screen'.task = screen.task
        /\ screen'.snap = screen.snap /\ screen'.late = screen.late
        /\ screen'.crossed = screen.crossed
    BY <1>7 DEF Asks, Cancels, Saves, Slot, Review, vars
  <2> QED
    BY <1>2, <1>3, <2>1
<1>8. CASE Hides \/ Decision \/ Closes \/ Restarts
  BY <1>8 DEF Hides, Decision, Decided, Closes, Restarts
<1>9. CASE Changes
  <2>1. UNCHANGED <<screen, tasks>>
    BY <1>9 DEF Changes, DismissesStale
  <2> QED
    BY <1>2, <1>3, <2>1
<1>10. CASE \E b \in batches : Records(b)
  <2>1. PICK b \in batches, c \in Batches : Replaces(b, c)
    BY <1>10 DEF Records, Replaces
  <2>2. Held /\ screen'.task = screen.task /\ screen'.snap = screen.snap
    BY <1>3, <2>1 DEF Replaces
  <2>3. b.open # opens
    BY <2>2 DEF WaitsForBatch
  <2>4. b.task # screen.task
    BY <2>2, <2>3 DEF LateIsKnown
  <2>5. tasks'[screen.task] = tasks[screen.task]
    BY <1>2, <2>1, <2>2, <2>4 DEF Replaces
  <2> QED
    BY <1>2, <2>2, <2>5
<1>11. CASE \E b \in batches : Hears(b)
  <2>1. PICK b \in batches : Hears(b)
    BY <1>11
  <2>2. UNCHANGED tasks
    BY <2>1 DEF Hears
  <2>3. CASE UNCHANGED screen
    BY <1>2, <1>3, <2>2, <2>3
  <2>4. CASE screen.open /\ screen.task = b.task /\ Answered(b)
    <3>1. /\ b.open = opens /\ ~screen.crossed /\ screen'.task = b.task
          /\ b.task \notin screen.late /\ b.pc = "answer"
      BY <2>1, <2>4 DEF Answered, Hears
    <3>2. BatchFollows(b)
      BY <1>1, <2>4, <3>1 DEF Following
    <3> QED
      BY <2>2, <2>4, <3>1, <3>2 DEF BatchFollows, Closed, Answered
  <2> QED
    BY <2>1, <2>3, <2>4 DEF Hears
<1>12. CASE Restores
  <2>1. CASE UNCHANGED screen
    <3>1. Held /\ screen'.task = screen.task /\ screen'.snap = screen.snap
      BY <1>3, <2>1
    <3>2. \/ tasks'[screen.task] = tasks[screen.task]
          \/ tasks'[screen.task].status \in {"Stale", "Interrupted"}
      BY <1>2, <1>12, <3>1 DEF Restores, Reconciles
    <3> QED
      BY <1>2, <3>1, <3>2
  <2>2. ASSUME NEW r \in Runs, Fresh(r, guide.text), Shows(screen, r, guide.loaded)
        PROVE  screen'.snap = tasks'[screen'.task].status
    BY <1>12, <2>2 DEF Restores, Reconciles, Shows, Fresh
  <2> QED
    BY <1>12, <2>1, <2>2 DEF Restores
<1>13. CASE Opens
  <2>1. PICK r \in Runs : /\ Fresh(r, disk.text) /\ screen'.task = r
                          /\ screen'.snap = "ReadyForReview"
    BY <1>13 DEF Opens
  <2> QED
    BY <1>13, <2>1 DEF Opens, Reconciles, Fresh
<1> QED
  BY <1>1, <1>4, <1>5, <1>6, <1>7, <1>8, <1>9, <1>10, <1>11, <1>12, <1>13 DEF Step

-----------------------------------------------------------------------------
(* What is written into the guide, and what it is written over.            *)
LEMMA UndecidedAccepts == AcceptedIn(Undecided) = {}
BY DEF AcceptedIn, Undecided

(* The quiet steps leave the guide, the saved project and what was asked   *)
(* for alone.                                                              *)
Quiet ==
    \/ Hides \/ Cancels \/ Restores \/ UNCHANGED vars
    \/ \E b \in batches : Records(b) \/ Hears(b)
    \/ \E r \in Runs : Prepares(r) \/ Enters(r) \/ Works(r) \/ Answers(r)

LEMMA QuietIs ==
    ASSUME TypeOK, Quiet
    PROVE  /\ UNCHANGED <<kind, guide, disk, written, opens>> /\ screen'.open = screen.open
           /\ \A q \in Runs : /\ runs'[q].durable = runs[q].durable
                              /\ runs'[q].rev = runs[q].rev
                              /\ runs[q].pc \notin Early => runs'[q].base = runs[q].base
<1>1. CASE Hides \/ Cancels \/ Restores \/ UNCHANGED vars
  BY <1>1, RunsStay DEF Hides, Cancels, Restores, vars, Slot, Keeps
<1>2. CASE \E b \in batches : Records(b) \/ Hears(b)
  BY <1>2 DEF Records, Replaces, Hears, Answered
<1>3. ASSUME NEW r \in Runs, Prepares(r) \/ Enters(r) \/ Works(r) \/ Answers(r)
      PROVE  /\ UNCHANGED <<kind, guide, disk, written, opens>> /\ screen'.open = screen.open
             /\ \A q \in Runs : /\ runs'[q].durable = runs[q].durable
                                /\ runs'[q].rev = runs[q].rev
                                /\ runs[q].pc \notin Early => runs'[q].base = runs[q].base
  <2>1. screen'.open = screen.open /\ Only(r)
    BY <1>3, WorkersAlone
  <2>2. UNCHANGED <<kind, guide, disk, written, opens>>
    BY <1>3, WorksIs DEF Prepares, Enters, WorksOn, Answers
  <2>3. /\ runs'[r].durable = runs[r].durable /\ runs'[r].rev = runs[r].rev
        /\ runs[r].pc \notin Early => runs'[r].base = runs[r].base
    BY <1>3, WorksIs DEF Prepares, Enters, WorksOn, Answers, Keeps, Early
  <2> QED
    BY <2>1, <2>2, <2>3 DEF Only
<1> QED
  BY <1>1, <1>2, <1>3 DEF Quiet

LEMMA StepSplits ==
    ASSUME Step
    PROVE  \/ Quiet \/ Decision \/ Changes \/ Saves \/ Closes \/ Opens \/ Restarts
           \/ \E r \in Runs : Asks(r)
BY DEF Step, Quiet

LEMMA InitWritten == Init => Accounted /\ WrittenIsNewer /\ BasedOnRun
<1> SUFFICES ASSUME Init
             PROVE  Accounted /\ WrittenIsNewer /\ BasedOnRun
  OBVIOUS
<1>1. /\ batches = {} /\ ~screen.shown /\ written = {} /\ disk.rev = 0
      /\ \A r \in Runs : runs[r].rev = 0
  BY DEF Init, IdleScreen
<1>2. \A r \in Runs : WrittenBy(r) = {}
  BY <1>1 DEF WrittenBy
<1> QED
  BY <1>1, <1>2 DEF Accounted, WrittenIsNewer, BasedOnRun

LEMMA NextWrittenIsNewer ==
    ASSUME TypeOK, ShownIsHeard, WrittenIsNewer, [Next]_vars
    PROVE  WrittenIsNewer'
<1>1. /\ Step /\ runs \in [Runs -> Run] /\ disk.rev \in Nat
      /\ \A q \in Runs : runs[q].rev \in Nat /\ runs[q].rev <= disk.rev
  BY StepIs DEF TypeOK, Run, WrittenIsNewer
<1>2. CASE Quiet
  <2>1. /\ UNCHANGED <<guide, disk, written>> /\ screen'.open = screen.open
        /\ \A q \in Runs : runs'[q].durable = runs[q].durable /\ runs'[q].rev = runs[q].rev
    BY <1>2, QuietIs
  <2> QED
    BY <2>1 DEF WrittenIsNewer, WrittenBy
<1>3. CASE \E r \in Runs : Asks(r)
  <2>1. PICK r \in Runs : Asks(r)
    BY <1>3
  <2>2. /\ UNCHANGED <<guide, disk, written>> /\ screen'.open = screen.open
        /\ \A q \in Runs \ {r} : runs'[q] = runs[q]
        /\ runs'[r].rev = disk.rev /\ runs[r].pc = "idle"
    BY <2>1 DEF Asks, Only
  <2>3. WrittenBy(r)' = {}
    BY <2>2 DEF ShownIsHeard, WasShown, WrittenBy, Early
  <2>4. \A q \in Runs : runs'[q].rev <= disk'.rev
    BY <1>1, <2>2
  <2> QED
    BY <2>2, <2>3, <2>4 DEF WrittenIsNewer, WrittenBy
<1>4. CASE Decision
  <2>1. PICK b, good, items : Decided(b, good, items)
    BY <1>4 DEF Decision
  <2>2. /\ UNCHANGED <<runs, disk>> /\ screen'.open = screen.open
        /\ good # {} => ~guide'.clean
        /\ good = {} => guide' = guide /\ written' = written
    BY <2>1 DEF Decided, Slot
  <2>3. CASE good = {}
    BY <2>2, <2>3 DEF WrittenIsNewer, WrittenBy
  <2>4. CASE good # {}
    BY <1>1, <2>2, <2>4 DEF WrittenIsNewer
  <2> QED
    BY <2>3, <2>4
<1>5. CASE Changes
  <2>1. /\ UNCHANGED <<runs, disk, written>> /\ screen'.open = screen.open
        /\ guide' = guide \/ ~guide'.clean
    BY <1>5 DEF Changes, DismissesStale
  <2> QED
    BY <2>1 DEF WrittenIsNewer, WrittenBy
<1>6. CASE Saves
  <2>1. UNCHANGED runs /\ disk'.rev = disk.rev + 1
    BY <1>6 DEF Saves
  <2>2. \A q \in Runs : runs'[q].rev < disk'.rev /\ runs'[q].rev <= disk'.rev
    BY <1>1, <2>1
  <2> QED
    BY <2>2 DEF WrittenIsNewer
<1>7. CASE Closes \/ Restarts
  <2>1. /\ UNCHANGED disk /\ ~screen'.open
        /\ \A q \in Runs : runs'[q].rev = runs[q].rev
    BY <1>7 DEF Closes, Restarts, Keeps
  <2> QED
    BY <1>1, <2>1 DEF WrittenIsNewer
<1>8. CASE Opens
  <2>1. UNCHANGED <<runs, disk>> /\ written' = {}
    BY <1>8 DEF Opens
  <2> QED
    BY <1>1, <2>1 DEF WrittenIsNewer, WrittenBy
<1> QED
  BY <1>1, <1>2, <1>3, <1>4, <1>5, <1>6, <1>7, <1>8, StepSplits

LEMMA NextBasedOnRun ==
    ASSUME TypeOK, Asking, ShownIsHeard, BasedOnRun, [Next]_vars
    PROVE  BasedOnRun'
<1> SUFFICES ASSUME screen'.shown
             PROVE  IF kind' = "visual"
                    THEN guide'.text = screen'.base => Known(screen.task, guide.text)'
                    ELSE screen'.base = runs'[screen'.task].base
  BY DEF BasedOnRun
<1> DEFINE Same == /\ screen.shown /\ screen'.task = screen.task
                   /\ screen'.base = screen.base /\ UNCHANGED kind
<1>1. /\ Step /\ screen \in Screen /\ guide.text \in Texts
      /\ screen.shown => /\ screen.task \in Runs /\ runs[screen.task].pc \notin Early
  BY StepIs DEF TypeOK, ShownIsHeard, WasShown
<1>2. ASSUME Same, guide'.text = guide.text, runs'[screen.task].base = runs[screen.task].base
      PROVE  IF kind' = "visual"
             THEN guide'.text = screen'.base => Known(screen.task, guide.text)'
             ELSE screen'.base = runs'[screen'.task].base
  BY <1>2 DEF BasedOnRun, Known
<1>3. CASE Quiet
  <2>1. /\ UNCHANGED <<kind, guide>>
        /\ screen.shown => runs'[screen.task].base = runs[screen.task].base
    BY <1>1, <1>3, QuietIs
  <2>2. CASE \/ Hides \/ Cancels \/ UNCHANGED vars
             \/ \E r \in Runs : Prepares(r) \/ Enters(r) \/ Works(r)
             \/ \E b \in batches : Records(b) \/ Hears(b)
    <3>1. Same
      <4>1. CASE Hides \/ Cancels \/ UNCHANGED vars
        BY <2>1, <4>1 DEF Hides, Cancels, vars, Slot, Review
      <4>2. CASE \E r \in Runs : Prepares(r) \/ Enters(r) \/ Works(r)
        <5>1. CASE \E r \in Runs : Enters(r)
          BY <1>1, <2>1, <5>1 DEF Enters, Screen
        <5>2. CASE \E r \in Runs : Prepares(r) \/ Works(r)
          BY <2>1, <5>2, WorksIs DEF Prepares, WorksOn
        <5> QED
          BY <4>2, <5>1, <5>2
      <4>3. CASE \E b \in batches : Records(b) \/ Hears(b)
        BY <2>1, <4>3 DEF Records, Replaces, Hears, Answered
      <4> QED
        BY <2>2, <4>1, <4>2, <4>3
    <3> QED
      BY <1>2, <2>1, <3>1
  <2>3. CASE Restores
    <3>1. CASE UNCHANGED screen
      BY <1>2, <2>1, <3>1
    <3>2. ASSUME NEW r \in Runs, Fresh(r, guide.text), Shows(screen, r, guide.loaded)
          PROVE  screen'.task = r /\ kind' = "visual" /\ Known(r, guide.text)'
      <4>1. runs[r].base = guide.text /\ UNCHANGED runs
        BY <2>3, <3>2 DEF Fresh, Restores
      <4> QED
        BY <2>1, <2>3, <3>2, <4>1 DEF Known, Restores, Shows
    <3> QED
      BY <2>3, <3>1, <3>2 DEF Restores
  <2>4. CASE \E r \in Runs : Answers(r)
    <3>1. PICK r \in Runs : Answers(r)
      BY <2>4
    <3>2. CASE Shows(screen, r, runs[r].base)
      <4>1. /\ screen'.task = r /\ screen'.base = runs[r].base
            /\ runs'[r].base = runs[r].base
        BY <3>1, <3>2 DEF Shows, Answers, Keeps
      <4> QED
        BY <2>1, <4>1 DEF Known
    <3>3. CASE \/ UNCHANGED screen \/ screen' = [screen EXCEPT !.running = FALSE]
      <4>1. Same
        BY <1>1, <2>1, <3>3 DEF Screen
      <4> QED
        BY <1>2, <2>1, <4>1
    <3>4. CASE /\ kind = "visual" /\ MatchesScreen(r)
               /\ screen' = [screen EXCEPT !.running = FALSE, !.task = NoTask, !.snap = "None"]
      <4>1. screen.shown
        BY <1>1, <3>4 DEF Screen
      <4> QED
        BY <3>4, <4>1 DEF Asking, MatchesScreen
    <3> QED
      BY <3>1, <3>2, <3>3, <3>4 DEF Answers
  <2> QED
    BY <1>3, <2>2, <2>3, <2>4 DEF Quiet
<1>4. CASE \E r \in Runs : Asks(r)
  <2>1. PICK r \in Runs : Asks(r)
    BY <1>4
  <2>2. Same /\ UNCHANGED guide /\ runs[r].pc = "idle" /\ \A q \in Runs \ {r} : runs'[q] = runs[q]
    BY <2>1 DEF Asks, Only
  <2>3. screen.task # r
    BY <1>1, <2>2 DEF Early
  <2> QED
    BY <1>1, <1>2, <2>2, <2>3
<1>5. CASE Decision
  <2>1. PICK b, good, items : MayDecide /\ Decided(b, good, items)
    BY <1>5 DEF Decision
  <2>2. /\ UNCHANGED <<kind, runs>> /\ screen'.task = screen.task /\ screen.shown
        /\ good \subseteq Fitting
        /\ screen'.base = IF kind = "visual" /\ good # {} THEN guide'.text ELSE screen.base
        /\ good = {} => guide' = guide
        /\ guide'.text = [s \in Suggestions |->
                            IF s \in good THEN SuggestedBy(screen.task) ELSE guide.text[s]]
    BY <2>1 DEF Decided, Slot, MayDecide
  <2>3. CASE kind # "visual"
    BY <2>2, <2>3 DEF BasedOnRun
  <2>4. CASE kind = "visual" /\ good = {}
    <3>1. Same /\ guide' = guide
      BY <2>2, <2>4
    <3> QED
      BY <1>2, <2>2, <3>1
  <2>5. CASE kind = "visual" /\ good # {}
    <3>1. guide.text = screen.base
      BY <2>2, <2>5 DEF Fitting
    <3>2. Known(screen.task, guide.text)
      BY <2>2, <2>5, <3>1 DEF BasedOnRun
    <3> QED
      BY <2>2, <2>5, <3>2 DEF Known
  <2> QED
    BY <2>3, <2>4, <2>5
<1>6. CASE Changes
  <2>1. UNCHANGED <<kind, runs, screen>> /\ kind # "visual"
    BY <1>6 DEF Changes, DismissesStale
  <2> QED
    BY <2>1 DEF BasedOnRun
<1>7. CASE Saves
  <2>1. Same /\ UNCHANGED <<runs>> /\ guide'.text = guide.text
    BY <1>7 DEF Saves
  <2> QED
    BY <1>2, <2>1
<1>8. CASE Closes \/ Restarts
  BY <1>8 DEF Closes, Restarts
<1>9. CASE Opens
  <2>1. PICK r \in Runs : /\ kind = "captions" /\ Fresh(r, disk.text) /\ screen'.task = r
                          /\ screen'.base = disk.text
    BY <1>9 DEF Opens
  <2>2. UNCHANGED <<kind, runs>>
    BY <1>9 DEF Opens
  <2> QED
    BY <2>1, <2>2 DEF Fresh
<1> QED
  BY <1>1, <1>3, <1>4, <1>5, <1>6, <1>7, <1>8, <1>9, StepSplits

(* What a batch, and the review on screen, call accepted is written.       *)
LEMMA NextAccounted ==
    ASSUME TypeOK, Asking, LateIsKnown, ShownIsHeard, WaitsForBatch, Accounted,
           WrittenIsNewer, [Next]_vars
    PROVE  Accounted'
<1> SUFFICES ASSUME screen'.open, ~screen'.crossed
             PROVE  /\ \A d \in batches' :
                         d.open = opens' /\ d.task \notin screen'.late
                           => AcceptedIn(d.items) = WrittenBy(d.task)'
                    /\ screen'.shown /\ screen'.task \notin screen'.late
                         => AcceptedIn(screen'.items) = WrittenBy(screen.task)'
  BY DEF Accounted, AcceptedIn, WrittenBy
<1>1. Step /\ screen \in Screen /\ (screen.shown => screen.task \in Runs)
  BY StepIs DEF TypeOK
<1>2. ASSUME screen.open, ~screen.crossed
      PROVE  /\ \A d \in batches :
                  d.open = opens /\ d.task \notin screen.late
                    => AcceptedIn(d.items) = WrittenBy(d.task)
             /\ screen.shown /\ screen.task \notin screen.late
                  => AcceptedIn(screen.items) = WrittenBy(screen.task)
  BY <1>2 DEF Accounted
<1>3. ASSUME UNCHANGED <<opens, written>>, screen.open, ~screen.crossed,
             screen'.late = screen.late,
             \A d \in batches' : \E e \in batches :
               d.open = e.open /\ d.task = e.task /\ d.items = e.items
      PROVE  \A d \in batches' :
               d.open = opens' /\ d.task \notin screen'.late
                 => AcceptedIn(d.items) = WrittenBy(d.task)'
  BY <1>2, <1>3 DEF WrittenBy
<1>4. ASSUME UNCHANGED written, screen.open, ~screen.crossed, screen'.late = screen.late,
             screen'.shown => /\ screen.shown /\ screen'.task = screen.task
                              /\ screen'.items = screen.items
      PROVE  screen'.shown /\ screen'.task \notin screen'.late
               => AcceptedIn(screen'.items) = WrittenBy(screen.task)'
  BY <1>2, <1>4 DEF WrittenBy
<1>5. CASE \/ Hides \/ Cancels \/ Changes \/ Saves \/ UNCHANGED vars
           \/ \E r \in Runs : Prepares(r) \/ Enters(r) \/ Works(r) \/ Asks(r)
           \/ \E b \in batches : Records(b) \/ Hears(b)
  <2>1. /\ UNCHANGED <<opens, written>> /\ screen.open /\ ~screen.crossed
        /\ screen'.late = screen.late
        /\ screen'.shown => /\ screen.shown /\ screen'.task = screen.task
                            /\ screen'.items = screen.items
    <3>1. CASE Hides \/ Cancels \/ Saves \/ UNCHANGED vars
      BY <3>1 DEF Hides, Cancels, Saves, vars, Slot, Review
    <3>2. CASE \E r \in Runs : Prepares(r) \/ Enters(r) \/ Works(r) \/ Asks(r)
      <4>1. CASE \E r \in Runs : Prepares(r) \/ Works(r) \/ Asks(r)
        BY <4>1, WorksIs DEF Prepares, WorksOn, Asks
      <4>2. CASE \E r \in Runs : Enters(r)
        BY <1>1, <4>2 DEF Enters, Screen
      <4> QED
        BY <3>2, <4>1, <4>2
    <3>3. CASE \E b \in batches : Records(b) \/ Hears(b)
      BY <3>3 DEF Records, Replaces, Hears, Answered
    <3>4. CASE Changes
      BY <3>4 DEF Changes, DismissesStale
    <3> QED
      BY <1>5, <3>1, <3>2, <3>3, <3>4
  <2>2. \A d \in batches' : \E e \in batches :
          d.open = e.open /\ d.task = e.task /\ d.items = e.items
    <3>1. CASE \E b \in batches : Records(b)
      BY <3>1 DEF Records, Replaces
    <3>2. CASE \E b \in batches : Hears(b)
      BY <3>2 DEF Hears
    <3>3. CASE Hides \/ Cancels \/ Changes \/ Saves \/ UNCHANGED vars
      BY <3>3 DEF Hides, Cancels, Changes, Saves, vars
    <3>4. CASE \E r \in Runs : Prepares(r) \/ Enters(r) \/ Works(r) \/ Asks(r)
      BY <3>4, WorksIs DEF Prepares, Enters, WorksOn, Asks
    <3> QED
      BY <1>5, <3>1, <3>2, <3>3, <3>4
  <2> QED
    BY <1>3, <1>4, <2>1, <2>2
<1>6. CASE \E r \in Runs : Answers(r)
  <2>1. PICK r \in Runs : Answers(r)
    BY <1>6
  <2>2. UNCHANGED <<batches, opens, written>> /\ runs[r].pc = "answer"
    BY <2>1 DEF Answers
  <2>3. screen.open /\ ~screen.crossed /\ screen'.late = screen.late
    BY <1>1, <2>1 DEF Answers, Shows, Screen
  <2>4. CASE Shows(screen, r, runs[r].base) /\ (kind = "visual" => MatchesScreen(r))
    <3>1. screen'.task = r /\ screen'.items = Undecided
      BY <2>4 DEF Shows
    <3>2. r \notin screen.late => WrittenBy(r) = {}
      BY <2>2, <2>4 DEF ShownIsHeard, WasShown, Heard, WrittenBy
    <3> QED
      BY <1>3, <2>2, <2>3, <3>1, <3>2, UndecidedAccepts DEF WrittenBy
  <2>5. CASE UNCHANGED screen \/ screen' = [screen EXCEPT !.running = FALSE]
    <3>1. screen'.shown => /\ screen.shown /\ screen'.task = screen.task
                           /\ screen'.items = screen.items
      BY <1>1, <2>5 DEF Screen
    <3> QED
      BY <1>3, <1>4, <2>2, <2>3, <3>1
  <2>6. CASE /\ kind = "visual" /\ MatchesScreen(r)
             /\ screen' = [screen EXCEPT !.running = FALSE, !.task = NoTask, !.snap = "None"]
    <3>1. ~screen'.shown
      BY <1>1, <2>6 DEF Asking, MatchesScreen, Screen
    <3> QED
      BY <1>3, <2>2, <2>3, <3>1
  <2> QED
    BY <2>1, <2>4, <2>5, <2>6 DEF Answers
<1>7. CASE Decision
  <2>1. PICK b, good, items : MayDecide /\ Decided(b, good, items)
    BY <1>7 DEF Decision
  <2>2. /\ batches' = batches \cup {b} /\ UNCHANGED opens
        /\ b.task = screen.task /\ b.items = items
        /\ screen'.task = screen.task /\ screen'.late = screen.late
        /\ screen.open /\ ~screen.crossed /\ screen.shown /\ ~screen.waiting
        /\ screen'.shown => screen'.items = items
    BY <2>1 DEF Decided, Slot, MayDecide
  <2>3. good \subseteq Suggestions
    BY <2>1 DEF Decided, Fitting
  <2>4. WrittenBy(screen.task)' = WrittenBy(screen.task) \cup good
    BY <2>1, <2>2, <2>3 DEF Decided, WrittenBy
  <2>5. AcceptedIn(items) = AcceptedIn(screen.items) \cup good
    BY <2>1 DEF Decided
  <2>6. screen.task \notin screen.late => AcceptedIn(items) = WrittenBy(screen.task)'
    BY <1>2, <2>2, <2>4, <2>5
  <2>7. \A d \in batches : d.open # opens
    BY <2>2 DEF WaitsForBatch
  <2> QED
    BY <2>2, <2>6, <2>7 DEF WrittenBy
<1>8. CASE Restores
  <2>1. /\ UNCHANGED <<guide, disk, batches, opens, written>> /\ screen.open
        /\ guide.clean
    BY <1>8 DEF Restores
  <2>2. ~screen.crossed /\ screen'.late = screen.late
    BY <1>8 DEF Restores, Shows
  <2>3. CASE UNCHANGED screen
    BY <1>3, <1>4, <2>1, <2>2, <2>3
  <2>4. ASSUME NEW r \in Runs, Fresh(r, guide.text), Shows(screen, r, guide.loaded)
        PROVE  screen'.task = r /\ screen'.items = Undecided /\ WrittenBy(r) = {}
    <3>1. runs[r].durable /\ runs[r].rev = disk.rev /\ disk.rev \in Nat
      BY <2>4 DEF Fresh, TypeOK
    <3>2. ~(runs[r].rev < disk.rev)
      BY <3>1
    <3> QED
      BY <2>1, <2>4, <3>1, <3>2 DEF Shows, WrittenIsNewer
  <2> QED
    BY <1>3, <1>8, <2>1, <2>2, <2>3, <2>4, UndecidedAccepts DEF Restores, WrittenBy
<1>9. CASE Closes \/ Restarts
  BY <1>9 DEF Closes, Restarts
<1>10. CASE Opens
  <2>1. /\ written' = {} /\ UNCHANGED batches /\ opens' = opens + 1
        /\ screen'.shown => screen'.items = Undecided
    BY <1>10 DEF Opens
  <2>2. ASSUME NEW d \in batches
        PROVE  d.open # opens'
    <3>1. d.open <= opens /\ d.open \in Nat /\ opens \in Nat
      BY <2>2, BatchIs DEF LateIsKnown, TypeOK
    <3> QED
      BY <2>1, <3>1
  <2> QED
    BY <2>1, <2>2, UndecidedAccepts DEF WrittenBy
<1> QED
  BY <1>1, <1>5, <1>6, <1>7, <1>8, <1>9, <1>10 DEF Step

-----------------------------------------------------------------------------
(* The invariant.                                                          *)
LEMMA InitInv == Init => IInv
BY InitTypes, InitSettling, InitNumbered, InitShownIsHeard, InitBatches, InitFollowing,
   InitWritten DEF IInv

LEMMA NextInv == IInv /\ [Next]_vars => IInv'
<1> SUFFICES ASSUME IInv, [Next]_vars
             PROVE  IInv'
  OBVIOUS
<1> USE DEF IInv
<1>1. TypeOK' /\ Asking' /\ Settling'
  BY NextTypes, NextAsking, NextSettling
<1>2. Numbered' /\ RunningHasWorker' /\ LateIsKnown'
  BY NextNumbered, NextRunningHasWorker, NextLateIsKnown
<1>3. ShownIsHeard' /\ WaitsForBatch' /\ OneBatchAtATime' /\ Phases'
  BY NextShownIsHeard, NextOneBatch, NextPhases
<1>4. Following' /\ ScreenFollowsStore'
  BY NextFollowing, NextScreenFollows
<1>5. Accounted' /\ WrittenIsNewer' /\ BasedOnRun'
  BY NextAccounted, NextWrittenIsNewer, NextBasedOnRun
<1> QED
  BY <1>1, <1>2, <1>3, <1>4, <1>5

(* The invariant the properties below rest on, for any number of           *)
(* suggestions, runs, openings and faults.                                 *)
THEOREM ReviewInvariant == Spec => []IInv
BY InitInv, NextInv, PTL DEF Spec

(* Every variable of the review keeps its type.                            *)
THEOREM ReviewTypeCorrect == Spec => []TypeOK
<1>1. IInv => TypeOK
  BY DEF IInv
<1> QED BY <1>1, ReviewInvariant, PTL

(* A run that ends leaves its task closed or promoted unless the store     *)
(* failed (or, for annotations, the model declined).                       *)
THEOREM WorkerAlwaysSettlesTask == Spec => []WorkerSettlesTask
<1>1. IInv => WorkerSettlesTask
  BY DEF IInv, Settling, Settled, WorkerSettlesTask
<1> QED BY <1>1, ReviewInvariant, PTL

(* A workspace that shows a request for suggestions as running has the run *)
(* it asked for under way, whatever decisions of older reviews come in     *)
(* meanwhile.  A request may still leave the screen unanswered, see        *)
(* RequestIsKept, which the code does not keep.                            *)
THEOREM RunningAlwaysHasWorker == Spec => []RunningHasWorker
<1>1. IInv => RunningHasWorker
  BY DEF IInv
<1> QED BY <1>1, ReviewInvariant, PTL

(* An open workspace records its decisions one batch at a time.            *)
THEOREM AlwaysOneBatch == Spec => []OneBatchAtATime
<1>1. IInv => OneBatchAtATime
  BY DEF IInv
<1> QED BY <1>1, ReviewInvariant, PTL

(* With no batch out and no transaction failed the review holds the        *)
(* snapshot the store holds, or its task was closed under it.              *)
THEOREM ScreenAlwaysFollowsStore == Spec => []ScreenFollowsStore
<1>1. IInv => ScreenFollowsStore
  BY DEF IInv
<1> QED BY <1>1, ReviewInvariant, PTL

-----------------------------------------------------------------------------
(* A task is completed or rejected only by a batch that is recorded.       *)
LEMMA FinalByBatch ==
    ASSUME TypeOK, Settling, Phases, Step, NEW t \in Runs,
           tasks'[t].status # tasks[t].status, tasks'[t].status \in Final
    PROVE  \E b \in batches : /\ b.task = t /\ tasks'[t].status = Outcome(b.items)
                              /\ tasks'[t].applied = AcceptedIn(b.items)
<1>1. CASE \E b \in batches : Records(b)
  <2>1. PICK b \in batches, c \in Batches : /\ Replaces(b, c)
                                            /\ \/ b.pc = "begin" /\ Begins(b, c)
                                               \/ b.pc = "final" /\ Finishes(b, c)
    BY <1>1 DEF Records, Replaces
  <2>2. b.task = t
    BY <2>1 DEF Replaces
  <2>3. CASE Begins(b, c)
    BY <2>2, <2>3 DEF Begins, Final
  <2>4. CASE Finishes(b, c)
    BY <2>2, <2>4 DEF Finishes
  <2> QED
    BY <2>1, <2>3, <2>4
<1>2. CASE \E r \in Runs : Works(r)
  <2>1. PICK r \in Runs : Works(r)
    BY <1>2
  <2>2. CASE Creates(r)
    BY <2>2 DEF Creates, WorksOn, Final
  <2>3. CASE ~Creates(r)
    BY <2>1, <2>3 DEF Works, Starts, Proposes, Promotes, Fails, WorksOn
  <2> QED
    BY <2>2, <2>3
<1>3. CASE \/ Hides \/ Cancels \/ Decision \/ Changes \/ Saves \/ Restores \/ Closes \/ Opens
           \/ \E r \in Runs : Prepares(r) \/ Enters(r) \/ Answers(r) \/ Asks(r)
           \/ \E b \in batches : Hears(b)
           \/ UNCHANGED vars
  <2>1. tasks'[t].status \in {"Stale", "Interrupted"}
    BY <1>3 DEF Hides, Cancels, Decision, Decided, Changes, DismissesStale, Saves, Restores, Closes,
                Opens, Reconciles, Prepares, Enters, Answers, Asks, Hears, vars
  <2> QED
    BY <2>1 DEF Final
<1>4. CASE Restarts
  BY <1>4 DEF Restarts
<1> QED
  BY <1>1, <1>2, <1>3, <1>4 DEF Step

(* A receipt names exactly the suggestions of its task that were written   *)
(* into the guide, and a task is completed if there are any.               *)
THEOREM ReceiptIsAlwaysTrue == Spec => ReceiptIsTrue
<1>1. ASSUME IInv, [Next]_vars, NEW b \in batches, b.open = opens, b.pc = "final",
             b.task \notin screen.late, ~screen.crossed,
             tasks[b.task].status # tasks'[b.task].status,
             tasks'[b.task].status \in Final
      PROVE  /\ {b.task} \X tasks'[b.task].applied = written \cap ({b.task} \X Suggestions)
             /\ (tasks'[b.task].status = "Completed") = (tasks'[b.task].applied # {})
  <2>1. b.task \in Runs /\ Step /\ written \subseteq Runs \X Suggestions
    BY <1>1, BatchIs, StepIs DEF IInv, TypeOK
  <2>2. PICK d \in batches : /\ d.task = b.task /\ tasks'[b.task].status = Outcome(d.items)
                             /\ tasks'[b.task].applied = AcceptedIn(d.items)
    BY <1>1, <2>1, FinalByBatch DEF IInv
  <2>3. screen.open /\ d.open = opens
    BY <1>1, <2>2 DEF IInv, LateIsKnown
  <2>4. AcceptedIn(d.items) = WrittenBy(b.task)
    BY <1>1, <2>2, <2>3 DEF IInv, Accounted
  <2>5. {b.task} \X WrittenBy(b.task) = written \cap ({b.task} \X Suggestions)
    BY <2>1 DEF WrittenBy
  <2>6. (tasks'[b.task].status = "Completed") = (tasks'[b.task].applied # {})
    BY <2>2 DEF Outcome
  <2> QED
    BY <2>2, <2>4, <2>5, <2>6
<1>2. IInv /\ [Next]_vars =>
        [\A b \in batches :
         LET t == b.task IN
         (/\ b.open = opens /\ b.pc = "final" /\ t \notin screen.late /\ ~screen.crossed
          /\ tasks[t].status # tasks'[t].status /\ tasks'[t].status \in Final)
         => /\ {t} \X tasks'[t].applied = written \cap ({t} \X Suggestions)
            /\ (tasks'[t].status = "Completed") = (tasks'[t].applied # {})]_vars
  BY <1>1
<1> QED
  BY <1>2, ReviewInvariant, PTL DEF Spec, ReceiptIsTrue

(* A suggestion is written only where the guide reads as its run saw it,   *)
(* or as that run itself made it read.                                     *)
THEOREM NothingUnseenIsEverOverwritten == Spec => NothingUnseenIsOverwritten
<1>1. ASSUME IInv, [Next]_vars, NEW r \in Runs, NEW s \in Suggestions,
             <<r, s>> \in written' \ written,
             NEW x \in (IF kind = "visual" THEN Suggestions ELSE {s})
      PROVE  guide.text[x] \in {runs[r].base[x], SuggestedBy(r)}
  <2>1. Step
    BY <1>1, StepIs DEF IInv
  <2>2. Decision
    <3>1. Quiet => written' = written
      BY <1>1, QuietIs DEF IInv
    <3>2. Changes \/ Saves \/ Closes \/ (\E q \in Runs : Asks(q)) => written' = written
      BY DEF Changes, Saves, Closes, Asks
    <3>3. Opens \/ Restarts => written' = {}
      BY DEF Opens, Restarts
    <3> QED
      BY <1>1, <2>1, <3>1, <3>2, <3>3, StepSplits
  <2>3. PICK b, good, items : MayDecide /\ Decided(b, good, items)
    BY <2>2 DEF Decision
  <2>4. screen.task = r /\ s \in Fitting /\ screen.shown
    BY <1>1, <2>3 DEF Decided, MayDecide
  <2>5. CASE kind = "visual"
    <3>1. guide.text = screen.base
      BY <2>4, <2>5 DEF Fitting
    <3> QED
      BY <1>1, <2>4, <2>5, <3>1 DEF IInv, BasedOnRun, Known
  <2>6. CASE kind # "visual"
    <3>1. kind = "captions" /\ x = s
      BY <1>1, <2>6, Constants DEF IInv, TypeOK
    <3> QED
      BY <1>1, <2>4, <2>6, <3>1 DEF IInv, BasedOnRun, Fitting
  <2> QED
    BY <2>5, <2>6
<1>2. IInv /\ [Next]_vars =>
        [\A r \in Runs, s \in Suggestions :
           <<r, s>> \in written' \ written
           => \A x \in (IF kind = "visual" THEN Suggestions ELSE {s}) :
                guide.text[x] \in {runs[r].base[x], SuggestedBy(r)}]_vars
  BY <1>1
<1> QED
  BY <1>2, ReviewInvariant, PTL DEF Spec, NothingUnseenIsOverwritten
=============================================================================
