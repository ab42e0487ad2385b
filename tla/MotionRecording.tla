---------------------------- MODULE MotionRecording ----------------------------
(***************************************************************************)
(* The motion track of an action guide: the recording thread               *)
(* (src/crates/rollshot-iced-overlay/src/driver.rs) offers every captured  *)
(* frame to a mailbox of two, and a worker thread                          *)
(* (src/crates/rollshot-action/src/motion) turns them into a video of      *)
(* thirty images a second that it pipes into ffmpeg.                       *)
(*                                                                         *)
(* A frame is its number, its time in milliseconds and whether its size is *)
(* that of the video.  ffmpeg is external: it may die at any moment, and   *)
(* every later file operation may fail.                                    *)
(***************************************************************************)
EXTENDS Naturals, Sequences, FiniteSets, SequencesExt

CONSTANTS
    Capacity,        \* places in the mailbox
    MaxFrames,       \* bound: frames captured
    Times,           \* the times a frame may have, relative to the first
    Durations,       \* what the recording may have lasted
    CropFails        \* may a frame have the wrong size?

ASSUME MotionAssumption ==
    /\ Capacity \in Nat \ {0}
    /\ MaxFrames \in Nat
    /\ Times \subseteq Nat /\ 0 \in Times
    /\ Durations \subseteq Nat
    /\ CropFails \in BOOLEAN

VARIABLES
    thread,          \* where the recording thread is
    captured,        \* frames captured so far, in order
    failed,          \* motion_failure of the recording thread is set
    mailbox,         \* the frames under way
    receiver,        \* the worker still owns its end of the mailbox
    session,         \* the duration sent with finish, not yet received
    cancel,          \* the cancel flag
    worker,          \* where the worker is
    taken,           \* the frames the worker has received, in order
    ticks,           \* ticks the scheduler counts as written
    video,           \* the images written, by number of frame
    duration,        \* the duration the worker has received
    ffmpeg,          \* the encoder process is alive
    files,           \* the files in the scratch directory
    scratch,         \* the scratch directory exists
    asset            \* who holds the finished recording

mailboxVars == <<mailbox, receiver>>
threadVars  == <<thread, captured, failed>>
workerVars  == <<worker, taken, ticks, video, duration>>
diskVars    == <<files, scratch>>
vars == <<threadVars, mailboxVars, session, cancel, workerVars, ffmpeg, diskVars, asset>>

Frame == [id : 1..MaxFrames, at_ms : Times, fits : BOOLEAN]

Before   == {"receiving", "taking", "draining"}
Encoding == Before \cup {"filling", "closing"}
Filing   == {"probing", "renaming", "hashing"}

TypeOK ==
    /\ thread \in {"idle", "recording", "sent", "evicting", "resending",
                   "finishing", "cancelling", "done"}
    /\ captured \in Seq(Frame)
    /\ failed \in BOOLEAN
    /\ mailbox \in Seq(Frame)
    /\ receiver \in BOOLEAN
    /\ session \subseteq Durations
    /\ cancel \in BOOLEAN
    /\ worker \in Encoding \cup Filing \cup {"none", "ready", "failed"}
    /\ taken \in Seq(Frame)
    /\ ticks \in Nat
    /\ video \in Seq(1..MaxFrames)
    /\ duration \in Durations \cup {0}
    /\ ffmpeg \in BOOLEAN
    /\ files \subseteq {"part", "final"}
    /\ scratch \in BOOLEAN
    /\ asset \in {"none", "finished", "held"}

Init ==
    /\ thread = "idle" /\ captured = <<>> /\ failed = FALSE
    /\ mailbox = <<>> /\ receiver = FALSE
    /\ session = {} /\ cancel = FALSE
    /\ worker = "none" /\ taken = <<>> /\ ticks = 0 /\ video = <<>> /\ duration = 0
    /\ ffmpeg = FALSE
    /\ files = {} /\ scratch = FALSE
    /\ asset = "none"

-----------------------------------------------------------------------------
(* Thirty images a second: the tick a time falls in, counted from one, and *)
(* the number of ticks a duration begins.  last_written_tick of the        *)
(* scheduler counts from zero and is None at first: it is ticks - 1.       *)
TickOf(at_ms) == (at_ms * 30) \div 1000 + 1

TotalTicks(ms) == (ms * 30 + 999) \div 1000

Repeat(image, n) == [i \in 1..n |-> image]

(* The images that go into the pipe while f is handled: the last image     *)
(* until the tick before, then f, unless it is late.  Images of another    *)
(* size than the video are not written.                                    *)
Holds(f) ==
    IF taken = <<>> \/ TickOf(f.at_ms) <= ticks \/ ~Last(taken).fits
    THEN <<>>
    ELSE Repeat(Last(taken).id, TickOf(f.at_ms) - ticks - 1)

Fresh(f) == IF TickOf(f.at_ms) > ticks /\ f.fits THEN <<f.id>> ELSE <<>>

Emission(f) == Holds(f) \o Fresh(f)

\* mutant: off by one at the last tick.
RemainingOneShort ==
    IF taken = <<>> \/ TotalTicks(duration) <= ticks \/ ~Last(taken).fits
    THEN <<>>
    ELSE Repeat(Last(taken).id, TotalTicks(duration) - ticks - 1)

(* The last image until the end of the session.                            *)
Remaining ==
    IF taken = <<>> \/ TotalTicks(duration) <= ticks \/ ~Last(taken).fits
    THEN <<>>
    ELSE Repeat(Last(taken).id, TotalTicks(duration) - ticks)

-----------------------------------------------------------------------------
(* MotionRecorder::start.  The directory is made before ffmpeg is started  *)
(* and stays when that fails.                                              *)
Start ==
    /\ thread = "idle"
    /\ thread' = "recording" /\ scratch' = TRUE
    /\ ffmpeg' = TRUE /\ files' = {"part"}
    /\ receiver' = TRUE /\ worker' = "receiving"
    /\ UNCHANGED <<captured, failed, mailbox, session, cancel, taken, ticks, video,
                   duration, asset>>

StartFails ==
    /\ thread = "idle"
    /\ thread' = "done" /\ failed' = TRUE
    /\ scratch' \in BOOLEAN
    /\ UNCHANGED <<captured, mailboxVars, session, cancel, workerVars, ffmpeg, files, asset>>

(* Times are counted from the first frame; when the clock was set back the *)
(* difference saturates, so any time may follow any other.                 *)
NextFrame(at_ms, fits) ==
    [id |-> Len(captured) + 1, at_ms |-> IF captured = <<>> THEN 0 ELSE at_ms, fits |-> fits]

(* MotionFrameSender::offer: a look at the receiver's flag, an attempt to  *)
(* send, and then either a second look or the eviction of the oldest frame *)
(* and a second attempt.  The worker may take frames in between.           *)
Offer(at_ms, fits) ==
    LET f == NextFrame(at_ms, fits) IN
    /\ thread = "recording" /\ ~failed /\ Len(captured) < MaxFrames
    /\ captured' = Append(captured, f)
    /\ IF ~receiver
       THEN failed' = TRUE /\ UNCHANGED <<thread, mailbox>>
       ELSE /\ IF Len(mailbox) < Capacity
               THEN mailbox' = Append(mailbox, f) /\ thread' = "sent"
               ELSE thread' = "evicting" /\ UNCHANGED mailbox
            /\ UNCHANGED failed
    /\ UNCHANGED <<receiver, session, cancel, workerVars, ffmpeg, diskVars, asset>>

Sent ==
    /\ thread = "sent" /\ thread' = "recording"
    /\ failed' = (failed \/ ~receiver)
    /\ UNCHANGED <<captured, mailboxVars, session, cancel, workerVars, ffmpeg, diskVars, asset>>

Evict ==
    /\ thread = "evicting" /\ thread' = "resending"
    /\ mailbox' = IF mailbox = <<>> THEN mailbox ELSE Tail(mailbox)
    /\ UNCHANGED <<captured, failed, receiver, session, cancel, workerVars, ffmpeg, diskVars, asset>>

Resend ==
    /\ thread = "resending" /\ thread' = "recording"
    /\ mailbox' = IF Len(mailbox) < Capacity THEN Append(mailbox, Last(captured)) ELSE mailbox
    /\ UNCHANGED <<captured, failed, receiver, session, cancel, workerVars, ffmpeg, diskVars, asset>>

(* finish(duration): the duration goes out, the sender is dropped, and the *)
(* thread waits for the worker.                                            *)
Finish(d) ==
    /\ thread = "recording" /\ thread' = "finishing"
    /\ session' = {d}
    /\ UNCHANGED <<captured, failed, mailboxVars, cancel, workerVars, ffmpeg, diskVars, asset>>

(* cancel, which is also what dropping an unfinished recorder does.        *)
Cancel ==
    /\ thread = "recording" /\ thread' = "cancelling"
    /\ cancel' = TRUE
    /\ UNCHANGED <<captured, failed, mailboxVars, session, workerVars, ffmpeg, diskVars, asset>>

\* mutant: only cancel cleans up.
JoinedKeepsFiles ==
    /\ thread \in {"finishing", "cancelling"} /\ thread' = "done"
    /\ worker \in {"ready", "failed"}
    /\ IF thread = "finishing"
       THEN /\ asset' = IF worker = "ready" THEN "finished" ELSE "none"
            /\ UNCHANGED diskVars
       ELSE files' = {} /\ scratch' = FALSE /\ asset' = "none"
    /\ UNCHANGED <<captured, failed, mailboxVars, session, cancel, workerVars, ffmpeg>>

(* The join.  A recording that succeeded is handed on with its directory.  *)
Joined ==
    /\ thread \in {"finishing", "cancelling"} /\ thread' = "done"
    /\ worker \in {"ready", "failed"}
    /\ IF thread = "finishing" /\ worker = "ready"
       THEN asset' = "finished" /\ UNCHANGED diskVars
       ELSE files' = {} /\ scratch' = FALSE /\ asset' = "none"
    /\ UNCHANGED <<captured, failed, mailboxVars, session, cancel, workerVars, ffmpeg>>

(* finalize_action gives the result to the timeline; when the capture was  *)
(* cancelled nobody asks for it.  The last owner's drop removes the files. *)
Collect ==
    /\ asset = "finished" /\ asset' = "held"
    /\ UNCHANGED <<threadVars, mailboxVars, session, cancel, workerVars, ffmpeg, diskVars>>

Release ==
    /\ asset \in {"finished", "held"} /\ asset' = "none"
    /\ files' = {} /\ scratch' = FALSE
    /\ UNCHANGED <<threadVars, mailboxVars, session, cancel, workerVars, ffmpeg>>

-----------------------------------------------------------------------------
(* The worker.  When it returns, its end of the mailbox is dropped; every  *)
(* failure removes what the file system still holds of the recording.      *)
Fails(left) ==
    /\ worker' = "failed" /\ receiver' = FALSE
    /\ files' = left

\* mutant: what is queued when the duration comes is lost.
LookWithoutDraining ==
    /\ worker = "receiving"
    /\ IF cancel
       THEN Fails(files \ {"part"}) /\ ffmpeg' = FALSE /\ UNCHANGED <<session, duration>>
       ELSE /\ IF session # {}
               THEN worker' = "filling" /\ session' = {} /\ duration' \in session
               ELSE worker' = "taking" /\ UNCHANGED <<session, duration>>
            /\ UNCHANGED <<receiver, files, ffmpeg>>
    /\ UNCHANGED <<threadVars, mailbox, cancel, taken, ticks, video, scratch, asset>>

(* The cancel flag and the duration are looked at before every frame.      *)
Look ==
    /\ worker = "receiving"
    /\ IF cancel
       THEN Fails(files \ {"part"}) /\ ffmpeg' = FALSE /\ UNCHANGED <<session, duration>>
       ELSE /\ IF session # {}
               THEN worker' = "draining" /\ session' = {} /\ duration' \in session
               ELSE worker' = "taking" /\ UNCHANGED <<session, duration>>
            /\ UNCHANGED <<receiver, files, ffmpeg>>
    /\ UNCHANGED <<threadVars, mailbox, cancel, taken, ticks, video, scratch, asset>>

(* Images into the pipe; writing the first one fails when ffmpeg is gone.  *)
Write(images, next) ==
    IF images # <<>> /\ ~ffmpeg
    THEN Fails(files \ {"part"}) /\ UNCHANGED video
    ELSE /\ video' = video \o images
         /\ worker' = next /\ UNCHANGED <<receiver, files>>

(* CfrScheduler::push: a late frame moves nothing, but it is the image     *)
(* that later holds repeat.                                                *)
Take ==
    /\ worker \in {"taking", "draining"} /\ mailbox # <<>>
    /\ LET f == Head(mailbox) IN
       /\ Write(Emission(f), IF worker = "taking" THEN "receiving" ELSE "draining")
       /\ taken' = Append(taken, f)
       /\ ticks' = IF TickOf(f.at_ms) > ticks THEN TickOf(f.at_ms) ELSE ticks
    /\ mailbox' = Tail(mailbox)
    /\ UNCHANGED <<threadVars, session, cancel, duration, ffmpeg, scratch, asset>>

\* mutant: the blocking receive.
NothingToTakeBlocks ==
    /\ worker = "draining" /\ mailbox = <<>> /\ worker' = "filling"
    /\ UNCHANGED <<threadVars, mailboxVars, session, cancel, taken, ticks, video,
                   duration, ffmpeg, diskVars, asset>>

NothingToTake ==
    /\ worker \in {"taking", "draining"} /\ mailbox = <<>>
    /\ worker' = IF worker = "taking" THEN "receiving" ELSE "filling"
    /\ UNCHANGED <<threadVars, mailboxVars, session, cancel, taken, ticks, video,
                   duration, ffmpeg, diskVars, asset>>

Fill ==
    /\ worker = "filling"
    /\ Write(Remaining, "closing")
    /\ UNCHANGED <<threadVars, mailbox, session, cancel, taken, ticks, duration,
                   ffmpeg, scratch, asset>>

(* The pipe is closed and ffmpeg ends, with success only if it was alive.  *)
Close ==
    /\ worker = "closing" /\ ffmpeg' = FALSE
    /\ \/ ffmpeg /\ worker' = "probing" /\ UNCHANGED <<receiver, files>>
       \/ Fails({})
    /\ UNCHANGED <<threadVars, mailbox, session, cancel, taken, ticks, video, duration,
                   scratch, asset>>

(* Probing, renaming and hashing: each may fail, and the last one returns. *)
File(from, next, becomes, left) ==
    /\ worker = from
    /\ \/ worker' = next /\ files' = becomes /\ receiver' = (receiver /\ next # "ready")
       \/ Fails(left)
    /\ UNCHANGED <<threadVars, mailbox, session, cancel, taken, ticks, video, duration,
                   ffmpeg, scratch, asset>>

Probe  == File("probing", "renaming", files, {})
Rename == File("renaming", "hashing", {"final"}, {})
Hash   == File("hashing", "ready", files, files \ {"final"})

(* The encoder dies by itself.                                             *)
FfmpegDies ==
    /\ ffmpeg /\ ffmpeg' = FALSE
    /\ UNCHANGED <<threadVars, mailboxVars, session, cancel, workerVars, diskVars, asset>>

WorkerStep == Look \/ Take \/ NothingToTake \/ Fill \/ Close \/ Probe \/ Rename \/ Hash

ThreadStep ==
    \/ Start \/ StartFails
    \/ \E at_ms \in Times, fits \in {TRUE, ~CropFails} : Offer(at_ms, fits)
    \/ Sent \/ Evict \/ Resend
    \/ \E d \in Durations : Finish(d)
    \/ Cancel \/ Joined

Next == ThreadStep \/ WorkerStep \/ Collect \/ Release \/ FfmpegDies

Spec == Init /\ [][Next]_vars

(* The operating system runs both threads.                                 *)
FairSpec == Spec /\ WF_vars(WorkerStep) /\ WF_vars(Joined)

-----------------------------------------------------------------------------
(* Latest-frame policy: what is dropped under load is always an older      *)
(* frame.  Once the worker has drained the mailbox, the last frame of the  *)
(* capture is the one it received last, whatever it took while the         *)
(* recording thread was evicting, and the second attempt to send never     *)
(* finds the mailbox full.                                                 *)
NewestSurvives ==
    /\ thread = "resending" => Len(mailbox) < Capacity
    /\ worker \in {"filling", "closing", "ready"} \cup Filing /\ captured # <<>> =>
          taken # <<>> /\ Last(taken) = Last(captured)

(* A frame is due at its tick, or at that of the frame before it when the  *)
(* clock was set back in between.                                          *)
Due(i) == Max({TickOf(taken[j].at_ms) : j \in 1..i})

(* A recording whose first frame reached the worker and whose frames have  *)
(* the size of the video keeps time: every tick of the session has its     *)
(* image, none is shown before it was due, and none is shown on when a     *)
(* newer one was due in an earlier tick.                                   *)
VideoKeepsTime ==
    /\ worker \in {"closing", "ready"} \cup Filing
    /\ taken # <<>> /\ taken[1].id = 1 /\ \A i \in DOMAIN taken : taken[i].fits
    => /\ Len(video) = Max({TotalTicks(duration), Due(Len(taken))})
       /\ \A tick \in DOMAIN video : \E i \in DOMAIN taken :
             /\ video[tick] = taken[i].id /\ Due(i) <= tick
             /\ \A j \in DOMAIN taken : Due(j) < tick => j <= i

(* The scratch directory has exactly one owner: the worker and the thread  *)
(* that waits for it, then whoever holds the recording, and after that it  *)
(* is gone.  Only a recorder whose ffmpeg did not start leaves one behind. *)
ScratchHasOwner ==
    /\ asset # "none" => scratch /\ files = {"final"}
    /\ thread = "done" /\ asset = "none" => files = {} /\ (scratch => worker = "none")

(* Stopping a recording ends, whether the encoder works or has died, and   *)
(* although the frames' channel never disconnects by itself.  An encoder   *)
(* that is alive but reads no more is left out: each write to it, and the  *)
(* wait for its exit, returns                                              *)
(* (src/crates/rollshot-action/src/motion/worker.rs:64, :447).             *)
StopEnds == (thread \in {"finishing", "cancelling"}) ~> (thread = "done")

(* "emit hold-frames to fill the gap from tick 0 so the output duration is *)
(* not shortened by late first frames"                                     *)
(* (src/crates/rollshot-action/src/motion/timing.rs:59).  The worker holds *)
(* no image yet and writes none of them, so the video is short when the    *)
(* first frame was evicted.                                                *)
VideoIsComplete ==
    worker = "ready" /\ taken # <<>> => Len(video) >= TotalTicks(duration)
=============================================================================
