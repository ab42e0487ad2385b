----------------------------- MODULE ActionRecorder -----------------------------
(***************************************************************************)
(* The recorder of action guides: a ring of the last frames, a detector    *)
(* that turns frames and input events into markers, and the steps made of  *)
(* them (src/crates/rollshot-action/src/recorder.rs, detector.rs and       *)
(* frame_store.rs).  One thread feeds it, so every call is one action.     *)
(*                                                                         *)
(* A frame is its number, its time and its picture.  Of a picture the      *)
(* detector sees how much it differs from another one: pictures are        *)
(* numbers, and their distance decides whether there is motion or a        *)
(* change that means something.  Pictures of different sizes do not        *)
(* compare.                                                                *)
(*                                                                         *)
(* Stamps are what the caller makes of its clocks: those of the frames run *)
(* from the first one and go back when the system clock is set back, those *)
(* of the events run from the start of the input source, which can be long *)
(* before that, and a screen at rest sends no frames.  So any stamp can    *)
(* follow any other.                                                       *)
(***************************************************************************)
EXTENDS Naturals, Sequences, FiniteSets, SequencesExt

CONSTANTS
    RING_CAPACITY, WINDOW_BEFORE, WINDOW_AFTER, NEARBY_MAX,    \* StoreConfig
    COOLDOWN, CLICK_WINDOW, TYPING_PAUSE, SCROLL_DWELL,        \* DetectorConfig
    STABLE_FRAMES,
    MOTION, MEANINGFUL,  \* distances from which there is motion, a meaningful change
    Luma,                \* the pictures there are: a level and a size each
    Stamps,              \* the times frames and events are stamped with
    MaxFrames, MaxEvents \* bounds: frames and events of a recording

ASSUME RecorderAssumption ==
    /\ {RING_CAPACITY, WINDOW_BEFORE, WINDOW_AFTER, NEARBY_MAX, COOLDOWN, CLICK_WINDOW,
        TYPING_PAUSE, SCROLL_DWELL, STABLE_FRAMES, MOTION, MEANINGFUL} \subseteq Nat
    /\ RING_CAPACITY > WINDOW_BEFORE + WINDOW_AFTER
    /\ NEARBY_MAX > 0 /\ MOTION > 0 /\ MEANINGFUL > 0
    /\ Luma \subseteq [level : Nat, size : Nat] /\ Stamps \subseteq Nat
    /\ {MaxFrames, MaxEvents} \subseteq Nat

VARIABLES
    frame_count,     \* frames ingested; they are numbered from 1
    last_at,         \* the time of the last one
    retained,        \* the frames kept for the steps
    det,             \* the detector
    pending,         \* markers that wait for the frames after them
    candidates,      \* the steps found, in order
    lost,            \* history: markers whose frame had left the ring
    early,           \* history: an event that closed a click was stamped a
                     \* cooldown or more before the last frame
    events,          \* events ingested so far
    finished

vars == <<frame_count, last_at, retained, det, pending, candidates, lost, early, events,
          finished>>

Max2(a, b) == IF a > b THEN a ELSE b
Min2(a, b) == IF a < b THEN a ELSE b

(* u64::saturating_sub.                                                    *)
Minus(a, b) == IF a > b THEN a - b ELSE 0

(* The distance of two pictures, and what the detector makes of it.        *)
Distance(a, b) ==
    IF a.size # b.size THEN 0 ELSE Minus(a.level, b.level) + Minus(b.level, a.level)

Motion(a, b) == Distance(a, b) >= MOTION

-----------------------------------------------------------------------------
(* The detector.  An Option is a set of at most one member.                *)
Init ==
    /\ frame_count = 0 /\ last_at = 0 /\ retained = {} /\ pending = <<>> /\ candidates = <<>>
    /\ lost = {} /\ early = FALSE /\ events = 0 /\ finished = FALSE
    /\ det = [prev |-> {}, baseline |-> {}, moving |-> FALSE, stable_count |-> 0,
              saw_change |-> FALSE, last_candidate |-> {},
              click_open_until |-> {}, click |-> {}, typing |-> {}, scroll |-> {},
              in_typing |-> FALSE, typing_last_at |-> 0, typing_force_end |-> FALSE,
              in_scroll |-> FALSE, scroll_last_at |-> 0]

(* A semantic window compares with the picture before its event; of the    *)
(* frames that differ it keeps the one that differs most and the last one  *)
(* at rest, which is preferred.                                            *)
Window(baseline) == [baseline |-> baseline, peak |-> {}, stable |-> {}]

Opened(d) == {Window(luma) : luma \in IF d.prev # {} THEN d.prev ELSE d.baseline}

Observed(w, f, at_rest) ==
    LET distance == Distance(w.baseline, f.luma)
        seen == [id |-> f.id, at_ms |-> f.at_ms, distance |-> distance]
    IN IF distance < MEANINGFUL THEN w
       ELSE [w EXCEPT !.peak   = IF \A p \in @ : distance > p.distance THEN {seen} ELSE @,
                      !.stable = IF at_rest THEN {seen} ELSE @]

Chosen(w) == IF w.stable # {} THEN w.stable ELSE w.peak

Cooled(d, at_ms) == \A t \in d.last_candidate : Minus(at_ms, t) >= COOLDOWN

(* What a call of the detector returns: its new state and perhaps a marker.*)
Nothing(d) == [det |-> d, marker |-> {}]

Marker(kind, seen) == [kind |-> kind, at_ms |-> seen.at_ms, center |-> seen.id]

(* semantic_marker, for the window that was just taken away.               *)
Semantic(d, window, at_ms, kind) ==
    LET selected == UNION {Chosen(w) : w \in window} IN
    IF selected = {} \/ ~Cooled(d, at_ms) THEN Nothing(d)
    ELSE [det |-> [d EXCEPT !.last_candidate = {at_ms}],
          marker |-> {Marker(kind, seen) : seen \in selected}]

CloseClick(d, at_ms) ==
    Semantic([d EXCEPT !.click_open_until = {}, !.click = {}], d.click, at_ms, "Click")

CloseTyping(d, f) ==
    Semantic([d EXCEPT !.typing = {}, !.in_typing = FALSE, !.typing_force_end = FALSE,
                       !.saw_change = FALSE, !.baseline = {f.luma}],
             d.typing, f.at_ms, "Typing")

CloseScroll(d, f) ==
    Semantic([d EXCEPT !.scroll = {}, !.in_scroll = FALSE,
                       !.saw_change = FALSE, !.baseline = {f.luma}],
             d.scroll, f.at_ms, "Scroll")

-----------------------------------------------------------------------------
(* observe_event.                                                          *)
ClickEvent(d, at_ms) ==
    IF d.in_typing \/ d.in_scroll THEN Nothing(d)
    ELSE LET prior == CloseClick(d, at_ms) IN
         [prior EXCEPT !.det = [@ EXCEPT !.click_open_until = {at_ms + CLICK_WINDOW},
                                         !.click = Opened(d)]]

TypingEvent(d, at_ms) ==
    Nothing(IF d.in_typing THEN [d EXCEPT !.typing_last_at = at_ms]
            ELSE [d EXCEPT !.in_scroll = FALSE, !.scroll = {}, !.typing = Opened(d),
                           !.click_open_until = {}, !.click = {},
                           !.in_typing = TRUE, !.typing_last_at = at_ms])

KeyEvent(d, at_ms) ==
    Nothing(IF d.in_typing
            THEN [d EXCEPT !.typing_last_at = at_ms, !.typing_force_end = TRUE] ELSE d)

ScrollEvent(d, at_ms) ==
    Nothing(IF d.in_typing THEN d
            ELSE IF d.in_scroll THEN [d EXCEPT !.scroll_last_at = at_ms]
            ELSE [d EXCEPT !.scroll = Opened(d), !.click_open_until = {}, !.click = {},
                           !.in_scroll = TRUE, !.scroll_last_at = at_ms])

ObserveEvent(d, action, at_ms) ==
    CASE action = "Click"  -> ClickEvent(d, at_ms)
      [] action = "Typing" -> TypingEvent(d, at_ms)
      [] action = "Key"    -> KeyEvent(d, at_ms)
      [] action = "Scroll" -> ScrollEvent(d, at_ms)

-----------------------------------------------------------------------------
(* observe_frame.  The first frame is the baseline, and that of the        *)
(* windows opened before it.                                               *)
FirstFrame(d, luma) ==
    LET Given(open, w) == IF open /\ w = {} THEN {Window(luma)} ELSE w IN
    [d EXCEPT !.baseline = {luma}, !.prev = {luma},
              !.click    = Given(d.click_open_until # {}, @),
              !.typing   = Given(d.in_typing, @),
              !.scroll   = Given(d.in_scroll, @)]

(* A frame of another size starts over and forgets every window.           *)
Resized(d, luma) ==
    [d EXCEPT !.prev = {luma}, !.baseline = {luma},
              !.moving = FALSE, !.stable_count = 0, !.saw_change = FALSE,
              !.click_open_until = {}, !.click = {},
              !.in_typing = FALSE, !.typing_force_end = FALSE, !.typing = {},
              !.in_scroll = FALSE, !.scroll = {}]

Changed(d, luma) == \E p \in d.prev : Motion(p, luma)
Settles(d, luma) == ~Changed(d, luma) /\ d.moving /\ d.stable_count + 1 >= STABLE_FRAMES

Moved(d, luma) ==
    [d EXCEPT !.prev         = {luma},
              !.moving       = Changed(d, luma) \/ (@ /\ ~Settles(d, luma)),
              !.saw_change   = @ \/ Changed(d, luma),
              !.stable_count = CASE Changed(d, luma) -> 0
                                 [] ~Changed(d, luma) /\ d.moving -> @ + 1
                                 [] OTHER -> @]

(* A frame after the click window closes it; one inside is seen by it.     *)
ClickFrame(d, f) ==
    LET seen == [d EXCEPT !.click = {Observed(w, f, ~d.moving) : w \in @}] IN
    IF \E t \in d.click_open_until : f.at_ms > t THEN CloseClick(d, f.at_ms)
    ELSE IF d.click_open_until = {f.at_ms} THEN CloseClick(seen, f.at_ms)
    ELSE Nothing(seen)

OwnerFrame(d, f) ==
    LET See(w) == Observed(w, f, ~d.moving) IN
    IF d.in_typing THEN [d EXCEPT !.typing = {See(w) : w \in @}]
    ELSE IF d.in_scroll THEN [d EXCEPT !.scroll = {See(w) : w \in @}] ELSE d

TypingIdle(d, f) == Minus(f.at_ms, d.typing_last_at)
ScrollIdle(d, f) == Minus(f.at_ms, d.scroll_last_at)

\* mutant: the click whose change was reported stays open.
SettledKeepsClick(d, f) ==
    LET meaningful == \A b \in d.baseline : Motion(b, f.luma)
        rebased    == [d EXCEPT !.baseline = {f.luma}, !.saw_change = FALSE]
    IN IF d.in_typing \/ d.in_scroll \/ ~meaningful \/ ~Cooled(d, f.at_ms)
       THEN Nothing(rebased)
       ELSE [det |-> [rebased EXCEPT !.last_candidate = {f.at_ms}],
             marker |-> {Marker("UiChanged", f)}]

(* The view came to rest.  An owner of the change only moves the baseline. *)
Settled(d, f) ==
    LET meaningful == \A b \in d.baseline : Motion(b, f.luma)
        clicked    == \E t \in d.click_open_until : f.at_ms <= t
        rebased    == [d EXCEPT !.baseline = {f.luma}, !.saw_change = FALSE]
    IN IF d.in_typing \/ d.in_scroll \/ ~meaningful \/ ~Cooled(d, f.at_ms)
       THEN Nothing(rebased)
       ELSE [det |-> [rebased EXCEPT !.last_candidate = {f.at_ms},
                                     !.click_open_until = IF clicked THEN {} ELSE @,
                                     !.click = IF clicked THEN {} ELSE @],
             marker |-> {Marker(IF clicked THEN "Click" ELSE "UiChanged", f)}]

ObserveFrame(d, f) ==
    LET moved == Moved(d, f.luma)
        click == ClickFrame(moved, f)
        owner == OwnerFrame(click.det, f)
    IN IF d.baseline = {} THEN Nothing(FirstFrame(d, f.luma))
       ELSE IF \E p \in d.prev : p.size # f.luma.size THEN Nothing(Resized(d, f.luma))
       ELSE IF d.in_typing /\ (d.typing_force_end \/ TypingIdle(d, f) > TYPING_PAUSE)
            THEN CloseTyping(moved, f)
       ELSE IF d.in_scroll /\ ScrollIdle(d, f) > SCROLL_DWELL THEN CloseScroll(moved, f)
       ELSE IF click.marker # {} THEN click
       ELSE IF owner.in_typing /\ TypingIdle(owner, f) >= TYPING_PAUSE
            THEN CloseTyping(owner, f)
       ELSE IF owner.in_scroll /\ ScrollIdle(owner, f) >= SCROLL_DWELL
            THEN CloseScroll(owner, f)
       ELSE IF Settles(d, f.luma) THEN Settled(owner, f) ELSE Nothing(owner)

(* finish: what is still open becomes a last marker, a click before all.   *)
DetectorFinish(d, f) ==
    LET click == IF d.click_open_until = {} THEN Nothing(d) ELSE CloseClick(d, f.at_ms) IN
    IF click.marker # {} THEN click
    ELSE IF d.in_typing
         THEN Semantic([click.det EXCEPT !.typing = {}, !.in_typing = FALSE,
                                         !.typing_force_end = FALSE],
                       d.typing, f.at_ms, "Typing")
    ELSE IF d.in_scroll
         THEN Semantic([click.det EXCEPT !.scroll = {}, !.in_scroll = FALSE,
                                         !.saw_change = FALSE],
                       d.scroll, f.at_ms, "Scroll")
    ELSE IF /\ d.moving /\ d.saw_change /\ Cooled(click.det, f.at_ms)
            /\ \A b \in d.baseline, p \in d.prev : Motion(b, p)
         THEN [det |-> [click.det EXCEPT !.moving = FALSE, !.saw_change = FALSE,
                                         !.last_candidate = {f.at_ms}],
               marker |-> {Marker("UiChanged", f)}]
    ELSE click

-----------------------------------------------------------------------------
(* The ring holds the last frames, here after n of them.  The queue of     *)
(* frames to analyse is drained by the call that fills it, so it is left   *)
(* out.                                                                    *)
Oldest(n)    == Minus(n, RING_CAPACITY) + 1
InRing(c, n) == c \in Oldest(n)..n

(* retain_window: the frames around a marker that the ring still has.      *)
RetainWindow(c, n) ==
    IF InRing(c, n) THEN Max2(Oldest(n), Minus(c, WINDOW_BEFORE))..Min2(n, c + WINDOW_AFTER)
    ELSE {}

(* nearby: at most NEARBY_MAX of them, centred on the keyframe where the   *)
(* window is long enough.                                                  *)
Nearby(window, keyframe) ==
    LET size  == Cardinality(window)
        first == CHOOSE i \in window : \A k \in window : i <= k
        from  == first + Min2(Minus(keyframe - first, NEARBY_MAX \div 2), size - NEARBY_MAX)
    IN IF size <= NEARBY_MAX THEN window ELSE from..(from + NEARBY_MAX - 1)

\* mutant: as if the marker were always of the frame just seen.
RemainingFromNow(center, observed) == WINDOW_AFTER

\* mutant: the frame itself counted as one after it.
RemainingOneShort(center, observed) == Minus(WINDOW_AFTER, Minus(observed, center) + 1)

(* queue_marker: how many frames the marker of a frame waits for, when the *)
(* detector has seen the frames up to the observed one.                    *)
RemainingAfter(center, observed) == Minus(WINDOW_AFTER, Minus(observed, center))

Queued(marker, n, finishing) ==
    {[marker |-> m, queued_at |-> n,
      resolve_at |-> n + IF finishing THEN 0 ELSE RemainingAfter(m.center, n)] : m \in marker}

(* What a loop over a queue keeps of it, in its order: the members at some *)
(* positions.                                                              *)
Nth(positions, i) ==
    CHOOSE p \in positions : Cardinality({q \in positions : q < p}) = i - 1

Only(queue, positions) == [i \in 1..Cardinality(positions) |-> queue[Nth(positions, i)]]

(* finalize, for the markers that are due after n frames: those whose      *)
(* frame is still in the ring become steps, the others are lost.           *)
Finalize(queue, due, n) ==
    LET kept    == {i \in due : InRing(queue[i].marker.center, n)}
        Step(p) == [kind |-> p.marker.kind, at_ms |-> p.marker.at_ms,
                    keyframe |-> p.marker.center,
                    nearby |-> Nearby(RetainWindow(p.marker.center, n), p.marker.center)]
    IN /\ candidates' = candidates \o [i \in 1..Cardinality(kept) |-> Step(Only(queue, kept)[i])]
       /\ retained' = retained \cup UNION {RetainWindow(queue[i].marker.center, n) : i \in kept}
       /\ lost' = lost \cup {queue[i] : i \in due \ kept}

(* resolve_ready.                                                          *)
Resolve(queue, n) ==
    LET due == {i \in DOMAIN queue : queue[i].resolve_at <= n} IN
    /\ Finalize(queue, due, n)
    /\ pending' = Only(queue, DOMAIN queue \ due)

-----------------------------------------------------------------------------
(* ingest_frame.                                                           *)
IngestFrame(luma, at_ms) ==
    LET f   == [id |-> frame_count + 1, luma |-> luma, at_ms |-> at_ms]
        out == ObserveFrame(det, f)
    IN /\ ~finished /\ frame_count < MaxFrames
       /\ frame_count' = f.id /\ last_at' = f.at_ms
       /\ det' = out.det
       /\ Resolve(pending \o SetToSeq(Queued(out.marker, f.id, FALSE)), f.id)
       /\ UNCHANGED <<early, events, finished>>

(* ingest_event.  A marker waits for the next frame, whatever its due.     *)
IngestEvent(action, at_ms) ==
    LET out == ObserveEvent(det, action, at_ms) IN
    /\ ~finished /\ events < MaxEvents
    /\ det' = out.det
    /\ pending' = pending \o SetToSeq(Queued(out.marker, frame_count, FALSE))
    /\ events' = events + 1
    /\ early' = (early \/ (out.marker # {} /\ Minus(last_at, at_ms) >= COOLDOWN))
    /\ UNCHANGED <<frame_count, last_at, retained, candidates, lost, finished>>

(* finish: every marker that waits is resolved with the frames there are.  *)
Finish ==
    LET out   == IF frame_count = 0 THEN Nothing(det)
                 ELSE DetectorFinish(det, [id |-> frame_count, at_ms |-> last_at])
        queue == pending \o SetToSeq(Queued(out.marker, frame_count, TRUE))
    IN /\ ~finished
       /\ finished' = TRUE
       /\ det' = out.det
       /\ Finalize(queue, DOMAIN queue, frame_count)
       /\ pending' = <<>>
       /\ UNCHANGED <<frame_count, last_at, early, events>>

Actions == {"Click", "Typing", "Key", "Scroll"}

Next ==
    \/ \E luma \in Luma, at_ms \in Stamps : IngestFrame(luma, at_ms)
    \/ \E action \in Actions, at_ms \in Stamps : IngestEvent(action, at_ms)
    \/ Finish

Spec == Init /\ [][Next]_vars

-----------------------------------------------------------------------------
(* The steps come out in the order of their keyframes and no frame is the  *)
(* keyframe of two, although a marker may point at a frame long past and   *)
(* each waits for a number of frames of its own, whatever the clocks do.   *)
(* Only the last step of a recording can repeat the one before it, and     *)
(* only when an event was stamped a cooldown before the frame it followed  *)
(* (src/crates/rollshot-action/src/recorder.rs:91, :111).                  *)
StepsInOrder ==
    \A i, k \in DOMAIN candidates :
        i < k => \/ candidates[i].keyframe < candidates[k].keyframe
                 \/ /\ early \/ COOLDOWN = 0
                    /\ finished /\ i + 1 = k /\ k = Len(candidates)
                    /\ candidates[i].keyframe = candidates[k].keyframe

(* A step found while recording keeps every frame its reader may replace   *)
(* the keyframe by: the keyframe is in the strip, the strip is retained,   *)
(* and no frame of the window after it was cut off                         *)
(* (src/crates/rollshot-action/src/frame_store.rs:136, :175).              *)
StepHasContext ==
    \A c \in ToSet(candidates) :
        /\ c.keyframe \in c.nearby
        /\ Cardinality(c.nearby) <= NEARBY_MAX
        /\ c.nearby \subseteq retained
        /\ finished \/ c.keyframe..(c.keyframe + WINDOW_AFTER) \subseteq retained

(* Waiting for the frames after it never costs a marker its frame: what is *)
(* lost is out of the ring one frame after the detector decided at the     *)
(* latest, and that frame is one no marker of an event can do without      *)
(* (src/crates/rollshot-action/src/recorder.rs:27, :111, :129).            *)
WaitingLosesNothing == \A p \in lost : ~InRing(p.marker.center, p.queued_at + 1)
=============================================================================
