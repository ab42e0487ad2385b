------------------------ MODULE MotionRecordingProofs ------------------------
(***************************************************************************)
(* What holds of a motion recording for any mailbox, any number of frames  *)
(* and any times: the types, that load never costs the newest frame, and   *)
(* that the scratch directory has exactly one owner.                       *)
(***************************************************************************)
EXTENDS MotionRecording, SequenceTheorems, TLAPS

(* A worker that owns its end of the mailbox, and one that will draw no    *)
(* more frames from it.                                                    *)
Drained == {"filling", "closing", "ready"} \cup Filing

(* Where the two threads may be at the same time: only a finish moves the  *)
(* worker past receiving, and a worker is joined after it has returned.    *)
Together ==
    /\ receiver <=> worker \in Encoding \cup Filing
    /\ thread = "idle" => worker = "none" /\ captured = <<>> /\ taken = <<>>
    /\ worker = "none" => thread \in {"idle", "done"}
    /\ thread = "done" => worker \in {"none", "ready", "failed"}
    /\ thread \in {"sent", "evicting", "resending"} => captured # <<>>
    /\ session # {} => thread \in {"finishing", "done"}
    /\ worker \in {"draining"} \cup Drained => thread \in {"finishing", "done"}

(* The mailbox is within its bound, and a place is free after an eviction. *)
Bounded ==
    /\ Len(mailbox) <= Capacity
    /\ thread = "resending" => Len(mailbox) < Capacity
    /\ worker \in Drained => mailbox = <<>>

(* Between two offers the newest frame is the last one in the mailbox, or  *)
(* the last one taken when the mailbox is empty.                           *)
Newest ==
    worker \notin {"none", "failed"} /\ captured # <<>>
    /\ thread \notin {"evicting", "resending"} =>
       IF mailbox = <<>> THEN taken # <<>> /\ Last(taken) = Last(captured)
                         ELSE Last(mailbox) = Last(captured)

MailInv == TypeOK /\ Together /\ Bounded /\ Newest

-----------------------------------------------------------------------------
LEMMA TickType == ASSUME NEW n \in Nat PROVE TickOf(n) \in Nat /\ TotalTicks(n) \in Nat
  BY DEF TickOf, TotalTicks

LEMMA NoneType == ASSUME NEW S PROVE <<>> \in Seq(S)
  BY EmptySeq

LEMMA NoneIsEmpty == Len(<<>>) = 0
  BY EmptySeq

LEMMA LastType ==
  ASSUME NEW S, NEW s \in Seq(S), s # <<>>
  PROVE  Last(s) \in S /\ Len(s) \in Nat \ {0}
<1>1. Len(s) \in Nat \ {0}
  BY EmptySeq
<1> QED BY <1>1, ElementOfSeq DEF Last

LEMMA AppendFacts ==
  ASSUME NEW S, NEW s \in Seq(S), NEW e \in S
  PROVE  /\ Append(s, e) \in Seq(S) /\ Append(s, e) # <<>>
         /\ Len(Append(s, e)) = Len(s) + 1 /\ Last(Append(s, e)) = e
  BY AppendProperties DEF Last

LEMMA TailFacts ==
  ASSUME NEW S, NEW s \in Seq(S), s # <<>>
  PROVE  /\ Head(s) \in S /\ Tail(s) \in Seq(S) /\ Len(Tail(s)) = Len(s) - 1
         /\ Tail(s) = <<>> => Head(s) = Last(s)
         /\ Tail(s) # <<>> => Last(Tail(s)) = Last(s)
<1>1. Len(s) \in Nat \ {0}
  BY EmptySeq
<1>2. Head(s) \in S /\ Tail(s) \in Seq(S) /\ Len(Tail(s)) = Len(s) - 1
      /\ \A i \in 1..Len(Tail(s)) : Tail(s)[i] = s[i + 1]
  BY HeadTailProperties
<1>3. ASSUME Tail(s) = <<>> PROVE Head(s) = Last(s)
  <2>1. Len(Tail(s)) = 0
    BY <1>3, NoneIsEmpty, Zenon
  <2>3. Len(s) = 1
    <3>1. Len(s) \in Nat /\ 0 = Len(s) - 1
      BY <1>1, <1>2, <2>1, Zenon
    <3> QED BY <3>1
  <2>2. Head(s) = s[1]
    BY <1>1
  <2> QED BY <2>3, <2>2 DEF Last
<1>4. ASSUME Tail(s) # <<>> PROVE Last(Tail(s)) = Last(s)
  <2>1. Len(Tail(s)) \in Nat \ {0}
    BY <1>2, <1>4, EmptySeq
  <2>2. Tail(s)[Len(Tail(s))] = s[Len(Tail(s)) + 1] /\ Len(Tail(s)) + 1 = Len(s)
    BY <1>1, <1>2, <2>1
  <2> QED BY <2>2 DEF Last
<1> QED BY <1>2, <1>3, <1>4

(* The images written are images of frames the worker has received.        *)
LEMMA RepeatType ==
  ASSUME NEW S, NEW x \in S, NEW n \in Nat PROVE Repeat(x, n) \in Seq(S)
  BY DEF Repeat

LEMMA LastOfTaken == ASSUME TypeOK, taken # <<>> PROVE Last(taken).id \in 1..MaxFrames
<1>1. taken \in Seq(Frame)
  BY DEF TypeOK
<1>2. Last(taken) \in Frame
  BY <1>1, LastType
<1> QED BY <1>2 DEF Frame

LEMMA EmissionType ==
  ASSUME TypeOK, NEW f \in Frame PROVE Emission(f) \in Seq(1..MaxFrames)
<1>1. TickOf(f.at_ms) \in Nat /\ f.id \in 1..MaxFrames
  BY TickType, MotionAssumption DEF Frame
<1>2. Holds(f) \in Seq(1..MaxFrames)
  <2>1. CASE taken = <<>> \/ TickOf(f.at_ms) <= ticks \/ ~Last(taken).fits
    BY <2>1, NoneType DEF Holds
  <2>2. CASE ~(taken = <<>> \/ TickOf(f.at_ms) <= ticks \/ ~Last(taken).fits)
    <3>1. Last(taken).id \in 1..MaxFrames
      BY <2>2, LastOfTaken
    <3>2. TickOf(f.at_ms) - ticks - 1 \in Nat
      BY <1>1, <2>2 DEF TypeOK
    <3> QED BY <2>2, <3>1, <3>2, RepeatType DEF Holds
  <2> QED BY <2>1, <2>2
<1>3. Fresh(f) \in Seq(1..MaxFrames)
  <2>1. <<f.id>> \in Seq(1..MaxFrames)
    BY <1>1
  <2> QED BY <2>1, NoneType DEF Fresh
<1> QED BY <1>2, <1>3, ConcatProperties DEF Emission

LEMMA RemainingType ==
  ASSUME TypeOK PROVE Remaining \in Seq(1..MaxFrames)
<1>1. TotalTicks(duration) \in Nat
  BY TickType, MotionAssumption DEF TypeOK
<1>2. CASE taken = <<>> \/ TotalTicks(duration) <= ticks \/ ~Last(taken).fits
  BY <1>2, NoneType DEF Remaining
<1>3. CASE ~(taken = <<>> \/ TotalTicks(duration) <= ticks \/ ~Last(taken).fits)
  <2>1. Last(taken).id \in 1..MaxFrames
    BY <1>3, LastOfTaken
  <2>2. TotalTicks(duration) - ticks \in Nat
    BY <1>1, <1>3 DEF TypeOK
  <2> QED BY <1>3, <2>1, <2>2, RepeatType DEF Remaining
<1> QED BY <1>2, <1>3

-----------------------------------------------------------------------------
LEMMA InitMail == Init => MailInv
<1> SUFFICES ASSUME Init PROVE MailInv
  OBVIOUS
<1>1. TypeOK
  BY MotionAssumption, NoneType DEF Init, TypeOK
<1>2. Together
  BY DEF Init, Together, Drained, Encoding, Before, Filing
<1>3. Bounded
  BY MotionAssumption, NoneIsEmpty DEF Init, Bounded
<1>4. Newest
  BY DEF Init, Newest
<1> QED BY <1>1, <1>2, <1>3, <1>4 DEF MailInv

(* An offer: the new frame is the last one in the mailbox, or it waits for *)
(* the eviction.                                                           *)
LEMMA OfferKeeps ==
  ASSUME MailInv, NEW at_ms \in Times, NEW fits \in BOOLEAN, Offer(at_ms, fits)
  PROVE  MailInv'
<1> DEFINE f == NextFrame(at_ms, fits)
<1>1. f \in Frame
  BY MotionAssumption DEF Offer, NextFrame, Frame, MailInv, TypeOK
<1>2. /\ thread = "recording" /\ captured' = Append(captured, f)
      /\ \/ ~receiver /\ failed' = TRUE /\ UNCHANGED <<thread, mailbox>>
         \/ receiver /\ Len(mailbox) < Capacity /\ mailbox' = Append(mailbox, f)
            /\ thread' = "sent" /\ failed' = failed
         \/ receiver /\ thread' = "evicting" /\ UNCHANGED <<mailbox, failed>>
      /\ UNCHANGED <<receiver, session, cancel, workerVars, ffmpeg, diskVars, asset>>
  BY DEF Offer
<1> HIDE DEF f
<1>a. captured \in Seq(Frame) /\ mailbox \in Seq(Frame)
  BY DEF MailInv, TypeOK
<1>b. /\ Append(captured, f) \in Seq(Frame) /\ Append(captured, f) # <<>>
      /\ Last(Append(captured, f)) = f
  BY <1>1, <1>a, AppendFacts
<1>c. /\ Append(mailbox, f) \in Seq(Frame) /\ Append(mailbox, f) # <<>>
      /\ Len(Append(mailbox, f)) = Len(mailbox) + 1 /\ Last(Append(mailbox, f)) = f
  BY <1>1, <1>a, AppendFacts
<1>d. Len(mailbox) \in Nat
  BY <1>a, LenProperties
<1>3. TypeOK'
  <2>1. captured' \in Seq(Frame) /\ mailbox' \in Seq(Frame)
    BY <1>2, <1>a, <1>b, <1>c
  <2> QED BY <1>2, <2>1, ZenonT(60) DEF MailInv, TypeOK, workerVars, diskVars
<1>4. worker \notin {"none", "draining"} \cup Drained
  BY <1>2 DEF MailInv, Together
<1>5. Together'
  <2>1. captured' # <<>>
    BY <1>2, <1>b
  <2> QED BY <1>2, <1>4, <2>1 DEF MailInv, Together, workerVars
<1>6. Bounded'
  <2>1. CASE mailbox' = Append(mailbox, f) /\ Len(mailbox) < Capacity
    <3>1. Len(mailbox') <= Capacity
      BY <1>c, <1>d, <2>1, MotionAssumption
    <3> QED BY <1>2, <1>4, <3>1 DEF Bounded, workerVars
  <2>2. CASE mailbox' = mailbox
    BY <1>2, <1>4, <2>2 DEF MailInv, Bounded, workerVars
  <2> QED BY <1>2, <2>1, <2>2
<1>7. Newest'
  <2>1. CASE ~receiver
    <3>1. worker = "failed"
      BY <2>1, <1>4 DEF MailInv, Together, TypeOK, Drained
    <3> QED BY <3>1, <1>2 DEF Newest, workerVars
  <2>2. CASE receiver /\ thread' = "sent" /\ mailbox' = Append(mailbox, f)
    <3>1. Last(mailbox') = f /\ mailbox' # <<>> /\ Last(captured') = f
      BY <2>2, <1>2, <1>b, <1>c
    <3> QED BY <3>1 DEF Newest
  <2>3. CASE thread' = "evicting"
    BY <2>3 DEF Newest
  <2> QED BY <1>2, <2>1, <2>2, <2>3
<1> QED BY <1>3, <1>5, <1>6, <1>7 DEF MailInv

LEMMA EvictKeeps == ASSUME MailInv, Evict PROVE MailInv'
<1>1. mailbox' \in Seq(Frame) /\ Len(mailbox') < Capacity
  <2>1. CASE mailbox = <<>>
    BY <2>1, NoneType, MotionAssumption DEF Evict, MailInv, TypeOK
  <2>2. CASE mailbox # <<>>
    BY <2>2, TailFacts, LastType, MotionAssumption DEF Evict, MailInv, TypeOK, Bounded
  <2> QED BY <2>1, <2>2
<1>2. TypeOK'
  BY <1>1 DEF Evict, MailInv, TypeOK, workerVars, diskVars
<1>3. Together'
  BY DEF Evict, MailInv, Together, workerVars
<1>4. worker \notin Drained
  BY DEF Evict, MailInv, Together
<1>5. Bounded'
  <2>1. Len(mailbox') \in Nat
    BY <1>1, LenProperties
  <2> QED BY <1>1, <1>4, <2>1, MotionAssumption DEF Evict, Bounded, workerVars
<1>6. Newest'
  BY DEF Evict, Newest
<1> QED BY <1>2, <1>3, <1>5, <1>6 DEF MailInv

(* After the eviction a place is free, whatever the worker took meanwhile. *)
LEMMA ResendKeeps == ASSUME MailInv, Resend PROVE MailInv'
<1>1. mailbox' = Append(mailbox, Last(captured)) /\ captured \in Seq(Frame) /\ mailbox \in Seq(Frame)
  BY DEF Resend, MailInv, Bounded, TypeOK
<1>2. CASE captured = <<>>
  BY <1>2 DEF Resend, MailInv, Together
<1>3. CASE captured # <<>>
  <2>1. Last(captured) \in Frame
    BY <1>1, <1>3, LastType
  <2>2. mailbox' \in Seq(Frame) /\ Len(mailbox') <= Capacity /\ mailbox' # <<>>
        /\ Last(mailbox') = Last(captured)
    <3>1. /\ Append(mailbox, Last(captured)) \in Seq(Frame)
          /\ Append(mailbox, Last(captured)) # <<>>
          /\ Len(Append(mailbox, Last(captured))) = Len(mailbox) + 1
          /\ Last(Append(mailbox, Last(captured))) = Last(captured)
      BY <1>1, <2>1, AppendFacts
    <3>2. Len(mailbox) \in Nat /\ Len(mailbox) < Capacity
      BY <1>1, LenProperties DEF Resend, MailInv, Bounded
    <3> QED BY <1>1, <3>1, <3>2, MotionAssumption
  <2>3. TypeOK'
    BY <2>2 DEF Resend, MailInv, TypeOK, workerVars, diskVars
  <2>4. Together'
    BY DEF Resend, MailInv, Together, workerVars
  <2>5. worker \notin Drained
    BY DEF Resend, MailInv, Together
  <2>6. Bounded'
    BY <2>2, <2>5 DEF Resend, Bounded, workerVars
  <2>7. Newest'
    BY <2>2 DEF Resend, Newest
  <2> QED BY <2>3, <2>4, <2>6, <2>7 DEF MailInv
<1> QED BY <1>2, <1>3

(* The actions that leave the mailbox, the receiver and the frames alone.  *)
QuietStep ==
    \/ Start \/ StartFails \/ Sent \/ (\E d \in Durations : Finish(d)) \/ Cancel \/ Joined
    \/ Collect \/ Release \/ FfmpegDies

LEMMA QuietTypes == ASSUME MailInv, QuietStep PROVE TypeOK'
<1>0. TypeOK
  BY DEF MailInv
<1> USE DEF TypeOK
<1>1. CASE Start
  BY <1>0, <1>1 DEF Start, Encoding, Before, mailboxVars
<1>2. CASE StartFails
  BY <1>0, <1>2 DEF StartFails, threadVars, mailboxVars, workerVars, diskVars
<1>3. CASE Sent
  BY <1>0, <1>3 DEF Sent, mailboxVars, workerVars, diskVars
<1>4. ASSUME NEW d \in Durations, Finish(d) PROVE TypeOK'
  BY <1>0, <1>4 DEF Finish, mailboxVars, workerVars, diskVars
<1>5. CASE Cancel
  BY <1>0, <1>5 DEF Cancel, mailboxVars, workerVars, diskVars
<1>6. CASE Joined
  BY <1>0, <1>6 DEF Joined, threadVars, mailboxVars, workerVars, diskVars
<1>7. CASE Collect \/ Release
  BY <1>0, <1>7 DEF Collect, Release, threadVars, mailboxVars, workerVars, diskVars
<1>8. CASE FfmpegDies
  BY <1>0, <1>8, ZenonT(60) DEF FfmpegDies, threadVars, mailboxVars, workerVars, diskVars
<1> QED BY <1>1, <1>2, <1>3, <1>4, <1>5, <1>6, <1>7, <1>8, Zenon DEF QuietStep

LEMMA QuietTogether == ASSUME MailInv, QuietStep PROVE Together'
<1> USE DEF MailInv, Together, threadVars, mailboxVars, workerVars, Drained
<1>1. CASE Start
  BY <1>1 DEF Start, Encoding, Before, Filing
<1>2. CASE StartFails
  BY <1>2 DEF StartFails
<1>3. CASE Sent
  BY <1>3 DEF Sent
<1>4. ASSUME NEW d \in Durations, Finish(d) PROVE Together'
  BY <1>4 DEF Finish
<1>5. CASE Cancel
  BY <1>5 DEF Cancel
<1>6. CASE Joined
  BY <1>6 DEF Joined
<1>7. CASE Collect \/ Release \/ FfmpegDies
  BY <1>7 DEF Collect, Release, FfmpegDies
<1> QED BY <1>1, <1>2, <1>3, <1>4, <1>5, <1>6, <1>7, Zenon DEF QuietStep

LEMMA QuietKeeps == ASSUME MailInv, QuietStep PROVE MailInv'
<1> USE DEF MailInv
<1>1. TypeOK' /\ Together'
  BY QuietTypes, QuietTogether
<1>3. Bounded'
  BY DEF QuietStep, Together, Bounded, Start, StartFails, Sent, Finish, Cancel, Joined,
         Collect, Release, FfmpegDies, threadVars, mailboxVars, workerVars, Drained, Filing
<1>4. Newest'
  BY DEF QuietStep, Together, Newest, Start, StartFails, Sent, Finish, Cancel, Joined,
         Collect, Release, FfmpegDies, threadVars, mailboxVars, workerVars
<1> QED BY <1>1, <1>3, <1>4

LEMMA LookKeeps == ASSUME MailInv, Look PROVE MailInv'
<1> USE DEF MailInv
<1>1. TypeOK'
  BY DEF Look, Fails, TypeOK, threadVars, Encoding, Before
<1>2. Together'
  BY DEF Look, Fails, Together, threadVars, Encoding, Before, Filing, Drained
<1>3. Bounded'
  BY DEF Look, Fails, Bounded, threadVars, Drained, Filing
<1>4. Newest'
  BY DEF Look, Fails, Newest, threadVars
<1> QED BY <1>1, <1>2, <1>3, <1>4

(* Taking the last frame of the mailbox makes it the last one taken.       *)
LEMMA TakeKeeps == ASSUME MailInv, Take PROVE MailInv'
<1> USE DEF MailInv
<1> DEFINE f == Head(mailbox)
<1>1. mailbox \in Seq(Frame) /\ mailbox # <<>> /\ taken \in Seq(Frame)
  BY DEF Take, TypeOK
<1>2. /\ f \in Frame /\ mailbox' \in Seq(Frame) /\ Len(mailbox') = Len(mailbox) - 1
      /\ mailbox' = <<>> => f = Last(mailbox)
      /\ mailbox' # <<>> => Last(mailbox') = Last(mailbox)
  BY <1>1, TailFacts DEF Take
<1>3. taken' = Append(taken, f) /\ taken' \in Seq(Frame) /\ taken' # <<>> /\ Last(taken') = f
  BY <1>1, <1>2, AppendFacts DEF Take
<1>4. Emission(f) \in Seq(1..MaxFrames)
  BY <1>2, EmissionType
<1>5. ticks' \in Nat
  BY <1>2, TickType, MotionAssumption DEF Take, TypeOK, Frame
<1>6. /\ worker \in {"taking", "draining"}
      /\ \/ worker' = "failed" /\ receiver' = FALSE /\ files' = files \ {"part"} /\ video' = video
         \/ /\ video' = video \o Emission(f) /\ UNCHANGED <<receiver, files>>
            /\ worker' = IF worker = "taking" THEN "receiving" ELSE "draining"
      /\ UNCHANGED <<threadVars, session, cancel, duration, ffmpeg, scratch, asset>>
  BY DEF Take, Write, Fails
<1> HIDE DEF f
<1>7. TypeOK'
  <2>1. video \in Seq(1..MaxFrames)
    BY DEF TypeOK
  <2>2. video \o Emission(f) \in Seq(1..MaxFrames)
    BY <1>4, <2>1, ConcatProperties
  <2>3. video' \in Seq(1..MaxFrames)
    BY <1>6, <2>1, <2>2
  <2>4. /\ worker' \in Encoding \cup Filing \cup {"none", "ready", "failed"}
        /\ receiver' \in BOOLEAN /\ files' \subseteq {"part", "final"}
    BY <1>6 DEF TypeOK, Encoding, Before
  <2> HIDE DEF MailInv
  <2>5. TypeOK
    BY DEF MailInv
  <2> QED BY <1>2, <1>3, <1>5, <1>6, <2>3, <2>4, <2>5 DEF TypeOK, threadVars
<1>8. Together'
  BY <1>6, <1>3 DEF Together, threadVars, Encoding, Before, Filing, Drained
<1>9. Bounded'
  <2>1. Len(mailbox) \in Nat
    BY <1>1, LenProperties
  <2> QED BY <1>2, <1>6, <2>1, MotionAssumption DEF Bounded, threadVars, Drained, Filing
<1>10. Newest'
  BY <1>1, <1>2, <1>3, <1>6 DEF Newest, threadVars
<1> QED BY <1>7, <1>8, <1>9, <1>10

LEMMA NothingKeeps == ASSUME MailInv, NothingToTake PROVE MailInv'
  BY DEF NothingToTake, MailInv, TypeOK, Together, Bounded, Newest, threadVars, mailboxVars,
         diskVars, Encoding, Before, Filing, Drained

LEMMA FillKeeps == ASSUME MailInv, Fill PROVE MailInv'
<1>1. Remaining \in Seq(1..MaxFrames)
  BY RemainingType DEF MailInv
<1>2. /\ worker = "filling"
      /\ \/ worker' = "failed" /\ receiver' = FALSE /\ files' = files \ {"part"} /\ video' = video
         \/ video' = video \o Remaining /\ worker' = "closing" /\ UNCHANGED <<receiver, files>>
      /\ UNCHANGED <<threadVars, mailbox, session, cancel, taken, ticks, duration,
                     ffmpeg, scratch, asset>>
  BY DEF Fill, Write, Fails
<1>3. video' \in Seq(1..MaxFrames)
  <2>1. video \in Seq(1..MaxFrames)
    BY DEF MailInv, TypeOK
  <2>2. video \o Remaining \in Seq(1..MaxFrames)
    BY <1>1, <2>1, ConcatProperties
  <2> QED BY <1>2, <2>1, <2>2
<1> QED BY <1>2, <1>3, ZenonT(60) DEF MailInv, TypeOK, Together, Bounded, Newest, threadVars,
         Encoding, Before, Filing, Drained

LEMMA CloseKeeps == ASSUME MailInv, Close PROVE MailInv'
  BY DEF Close, Fails, MailInv, TypeOK, Together, Bounded, Newest, threadVars,
         Encoding, Before, Filing, Drained

LEMMA FilingKeeps == ASSUME MailInv, Probe \/ Rename \/ Hash PROVE MailInv'
<1>1. ASSUME NEW from \in Filing, NEW next \in Filing \cup {"ready"}, NEW becomes, NEW left,
             becomes \subseteq {"part", "final"}, left \subseteq {"part", "final"},
             File(from, next, becomes, left)
      PROVE  MailInv'
  <2> USE <1>1 DEF File, Fails, MailInv, threadVars
  <2>1. TypeOK'
    <3>1. worker' \in Filing \cup {"ready", "failed"} /\ receiver' \in BOOLEAN
          /\ files' \subseteq {"part", "final"}
      BY DEF TypeOK
    <3> QED BY <3>1 DEF TypeOK
  <2>2. Together'
    BY DEF Together, Encoding, Before, Filing, Drained
  <2>3. Bounded'
    BY DEF Bounded, Drained
  <2>4. Newest'
    BY DEF Newest, Filing
  <2> QED BY <2>1, <2>2, <2>3, <2>4
<1>2. files \subseteq {"part", "final"}
  BY DEF MailInv, TypeOK
<1>3. {"probing", "renaming", "hashing"} = Filing
  BY DEF Filing
<1>4. CASE Probe
  BY <1>1, <1>2, <1>3, <1>4 DEF Probe
<1>5. CASE Rename
  BY <1>1, <1>3, <1>5 DEF Rename
<1>6. CASE Hash
  BY <1>1, <1>2, <1>3, <1>6 DEF Hash
<1> QED BY <1>4, <1>5, <1>6

LEMMA NextMail == MailInv /\ [Next]_vars => MailInv'
<1> SUFFICES ASSUME MailInv, [Next]_vars PROVE MailInv'
  OBVIOUS
<1>1. CASE QuietStep
  BY <1>1, QuietKeeps
<1>2. ASSUME NEW at_ms \in Times, NEW fits \in {TRUE, ~CropFails}, Offer(at_ms, fits) PROVE MailInv'
  BY <1>2, OfferKeeps, MotionAssumption
<1>3. CASE Evict \/ Resend
  BY <1>3, EvictKeeps, ResendKeeps
<1>4. CASE WorkerStep
  BY <1>4, LookKeeps, TakeKeeps, NothingKeeps, FillKeeps, CloseKeeps, FilingKeeps DEF WorkerStep
<1>5. CASE UNCHANGED vars
  BY <1>5 DEF vars, threadVars, mailboxVars, workerVars, diskVars, MailInv, TypeOK, Together,
             Bounded, Newest
<1> QED BY <1>1, <1>2, <1>3, <1>4, <1>5, Zenon DEF Next, ThreadStep, QuietStep

THEOREM MailInvariant == Spec => []MailInv
  BY InitMail, NextMail, PTL DEF Spec

(* The type invariant, for any mailbox, any number of frames and any times. *)
THEOREM MotionTypeCorrect == Spec => []TypeOK
<1>1. MailInv => TypeOK
  BY DEF MailInv
<1> QED BY <1>1, MailInvariant, PTL

(* Load never costs the newest frame: when the worker has drained the      *)
(* mailbox it has received the last frame of the capture, and the second   *)
(* attempt to send always finds a place.                                   *)
THEOREM NewestFrameSurvives == Spec => []NewestSurvives
<1>1. MailInv => NewestSurvives
  BY DEF MailInv, Together, Bounded, Newest, NewestSurvives, Drained, Filing
<1> QED BY <1>1, MailInvariant, PTL

-----------------------------------------------------------------------------
(* Who owns the scratch directory: a recording under way has one, and the  *)
(* finished file is the only thing in it when the worker says it is ready. *)
Owned ==
    /\ thread \notin {"idle", "done"} => scratch
    /\ thread = "idle" => files = {}
    /\ asset # "none" => thread = "done"
    /\ worker \in {"hashing", "ready"} /\ thread = "finishing" => files = {"final"}

ScratchInv == MailInv /\ Owned /\ ScratchHasOwner

LEMMA InitScratch == Init => ScratchInv
  BY InitMail DEF Init, ScratchInv, Owned, ScratchHasOwner

LEMMA NextScratch == ScratchInv /\ [Next]_vars => ScratchInv'
<1> SUFFICES ASSUME ScratchInv, [Next]_vars PROVE Owned' /\ ScratchHasOwner'
  BY NextMail DEF ScratchInv
<1> USE DEF ScratchInv
<1>1. CASE QuietStep
  <2> USE DEF MailInv, Together, Owned, ScratchHasOwner, threadVars, workerVars, diskVars, Drained
  <2>1. CASE Start
    BY <2>1 DEF Start
  <2>2. CASE StartFails
    BY <2>2 DEF StartFails, TypeOK
  <2>3. CASE Sent \/ (\E d \in Durations : Finish(d)) \/ Cancel
    BY <2>3 DEF Sent, Finish, Cancel, Filing
  <2>4. CASE Joined
    BY <2>4 DEF Joined
  <2>5. CASE Collect \/ Release \/ FfmpegDies
    BY <2>5 DEF Collect, Release, FfmpegDies
  <2> QED BY <1>1, <2>1, <2>2, <2>3, <2>4, <2>5, Zenon DEF QuietStep
<1>2. ASSUME NEW at_ms \in Times, NEW fits \in {TRUE, ~CropFails}, Offer(at_ms, fits)
      PROVE Owned' /\ ScratchHasOwner'
  BY <1>2 DEF Offer, Owned, ScratchHasOwner, workerVars, diskVars
<1>3. CASE Evict \/ Resend
  BY <1>3 DEF Evict, Resend, Owned, ScratchHasOwner, workerVars, diskVars
<1>4. CASE WorkerStep
  <2>1. worker \notin {"none", "ready", "failed"}
    BY <1>4 DEF WorkerStep, Look, Take, NothingToTake, Fill, Close, Probe, Rename, Hash, File
  <2>2. thread \notin {"idle", "done"} /\ asset = "none"
    BY <2>1 DEF MailInv, Together, Owned
  <2>3. UNCHANGED <<thread, scratch, asset>>
    BY <1>4 DEF WorkerStep, Look, Take, NothingToTake, Fill, Close, Probe, Rename, Hash, File,
               threadVars, diskVars
  <2>4. worker' \in {"hashing", "ready"} /\ thread = "finishing" => files' = {"final"}
    BY <1>4, <2>1 DEF WorkerStep, Look, Take, NothingToTake, Fill, Close, Probe, Rename, Hash,
               File, Fails, Write, Owned, diskVars
  <2> QED BY <2>2, <2>3, <2>4 DEF Owned, ScratchHasOwner
<1>5. CASE UNCHANGED vars
  BY <1>5 DEF vars, threadVars, workerVars, diskVars, Owned, ScratchHasOwner
<1> QED BY <1>1, <1>2, <1>3, <1>4, <1>5, Zenon DEF Next, ThreadStep, QuietStep

(* The scratch directory of a recording never outlives its owner.          *)
THEOREM ScratchAlwaysHasOwner == Spec => []ScratchHasOwner
<1>1. ScratchInv => ScratchHasOwner
  BY DEF ScratchInv
<1> QED BY <1>1, InitScratch, NextScratch, PTL DEF Spec

-----------------------------------------------------------------------------
(* The video against the clock.  A frame numbered one is at time zero,     *)
(* wherever it is.                                                         *)
ZeroFirst(s) == \A i \in DOMAIN s : s[i].id = 1 => s[i].at_ms = 0

FirstAtZero == ZeroFirst(captured) /\ ZeroFirst(mailbox) /\ ZeroFirst(taken)

(* What VideoKeepsTime assumes of the frames received.                     *)
Whole == taken # <<>> /\ taken[1].id = 1 /\ \A i \in DOMAIN taken : taken[i].fits

(* The set Due takes the maximum of does have one: Due is defined by a     *)
(* choice, and this is what makes it the latest tick so far.               *)
TicksBy(i) == {TickOf(taken[j].at_ms) : j \in 1..i}

DueIsLatest == \A i \in DOMAIN taken : Due(i) \in TicksBy(i) /\ \A t \in TicksBy(i) : Due(i) >= t

(* The image of a tick is that of the last frame due before it.            *)
Shows(tick, i) ==
    video[tick] = taken[i].id /\ Due(i) <= tick /\ \A j \in DOMAIN taken : Due(j) < tick => j <= i

KeptUntil(end) == Len(video) = end /\ \A tick \in DOMAIN video : \E i \in DOMAIN taken : Shows(tick, i)

Writing == Before \cup {"filling"}

(* While images are written the video ends with the tick of the scheduler, *)
(* which is that of the latest frame.                                      *)
WrittenInTime ==
    /\ worker \in Writing \cup {"none"} /\ taken = <<>> => ticks = 0 /\ video = <<>>
    /\ worker \in Writing /\ Whole => Due(Len(taken)) = ticks /\ KeptUntil(ticks)

TimeInv == MailInv /\ FirstAtZero /\ DueIsLatest /\ WrittenInTime /\ VideoKeepsTime

-----------------------------------------------------------------------------
LEMMA MaxIs ==
  ASSUME NEW S \in SUBSET Nat, NEW m \in S, \A y \in S : m >= y
  PROVE  Max(S) = m
<1>1. \A x \in S : (\A y \in S : x >= y) => x = m
  OBVIOUS
<1> QED BY <1>1 DEF Max

LEMMA RepeatShape ==
  ASSUME NEW S, NEW x \in S, NEW n \in Nat
  PROVE  /\ Repeat(x, n) \in Seq(S) /\ Len(Repeat(x, n)) = n
         /\ \A k \in 1..n : Repeat(x, n)[k] = x
<1>1. Repeat(x, n) = [i \in 1..n |-> x]
  BY DEF Repeat
<1>2. Len(Repeat(x, n)) = n
  BY <1>1, RepeatType, LenProperties
<1> QED BY <1>1, <1>2, RepeatType, Zenon

LEMMA ZeroAppend ==
  ASSUME NEW s \in Seq(Frame), NEW f \in Frame, ZeroFirst(s), f.id = 1 => f.at_ms = 0
  PROVE  ZeroFirst(Append(s, f))
<1>1. /\ DOMAIN Append(s, f) = 1..(Len(s) + 1) /\ DOMAIN s = 1..Len(s) /\ Len(s) \in Nat
      /\ \A i \in 1..Len(s) : Append(s, f)[i] = s[i]
      /\ Append(s, f)[Len(s) + 1] = f
  BY AppendProperties, LenProperties
<1> SUFFICES ASSUME NEW i \in 1..(Len(s) + 1), Append(s, f)[i].id = 1
             PROVE  Append(s, f)[i].at_ms = 0
  BY <1>1, Zenon DEF ZeroFirst
<1>2. i \in 1..Len(s) \/ i = Len(s) + 1
  BY <1>1
<1> QED BY <1>1, <1>2, Zenon DEF ZeroFirst

LEMMA ZeroTail ==
  ASSUME NEW s \in Seq(Frame), s # <<>>, ZeroFirst(s)
  PROVE  ZeroFirst(Tail(s)) /\ (Head(s).id = 1 => Head(s).at_ms = 0)
<1>1. /\ Len(s) \in Nat \ {0} /\ Len(Tail(s)) = Len(s) - 1
      /\ Head(s) = s[1] /\ DOMAIN s = 1..Len(s) /\ DOMAIN Tail(s) = 1..Len(Tail(s))
      /\ \A i \in 1..Len(Tail(s)) : Tail(s)[i] = s[i + 1]
  BY EmptySeq, HeadTailProperties, LenProperties
<1>2. ASSUME NEW i \in 1..Len(Tail(s)) PROVE i + 1 \in 1..Len(s)
  BY <1>1
<1>3. 1 \in 1..Len(s)
  BY <1>1
<1>4. ZeroFirst(Tail(s))
  <2> SUFFICES ASSUME NEW i \in 1..Len(Tail(s)), Tail(s)[i].id = 1
               PROVE  Tail(s)[i].at_ms = 0
    BY <1>1, Zenon DEF ZeroFirst
  <2>1. Tail(s)[i] = s[i + 1] /\ i + 1 \in DOMAIN s
    BY <1>1, <1>2, Zenon
  <2> QED BY <2>1, Zenon DEF ZeroFirst
<1> QED BY <1>1, <1>3, <1>4, Zenon DEF ZeroFirst

LEMMA ZeroLast ==
  ASSUME NEW s \in Seq(Frame), s # <<>>, ZeroFirst(s)
  PROVE  Last(s).id = 1 => Last(s).at_ms = 0
<1>1. Len(s) \in DOMAIN s
  BY EmptySeq, LenProperties
<1> QED BY <1>1, Zenon DEF ZeroFirst, Last

(* Due does not change for the frames already received, and the new frame  *)
(* is due at its tick or at that of the one before.                        *)
LEMMA DueOfNext ==
  ASSUME taken \in Seq(Frame), DueIsLatest, NEW f \in Frame, taken' = Append(taken, f),
         NEW n, n = Len(taken)
  PROVE  /\ Len(taken') = n + 1 /\ n \in Nat
         /\ \A i \in 1..n : taken'[i] = taken[i]
         /\ taken'[n + 1] = f
         /\ DOMAIN taken = 1..n /\ DOMAIN taken' = 1..(n + 1)
         /\ \A i \in 1..n : Due(i) \in Nat /\ Due(i)' = Due(i)
         /\ Due(n + 1)' =
              IF taken # <<>> /\ Due(n) >= TickOf(f.at_ms)
              THEN Due(n) ELSE TickOf(f.at_ms)
         /\ DueIsLatest'
<1> DEFINE t == TickOf(f.at_ms)
<1>1. /\ Len(taken') = n + 1 /\ n \in Nat
      /\ \A i \in 1..n : taken'[i] = taken[i]
      /\ taken'[n + 1] = f
      /\ DOMAIN taken = 1..n /\ DOMAIN taken' = 1..(n + 1)
      /\ taken' \in Seq(Frame)
  BY AppendProperties, LenProperties
<1>2. \A g \in Frame : TickOf(g.at_ms) \in Nat
  BY TickType, MotionAssumption DEF Frame
<1>3. ASSUME NEW i \in 1..n PROVE TicksBy(i)' = TicksBy(i) /\ TicksBy(i) \in SUBSET Nat
  <2>1. \A j \in 1..i : j \in 1..n
    BY <1>1
  <2>2. \A j \in 1..i : taken[j] \in Frame
    BY <1>1, <2>1, ElementOfSeq
  <2> QED BY <1>1, <1>2, <2>1, <2>2, Zenon DEF TicksBy
<1>4. \A i \in 1..n : Due(i) \in Nat /\ Due(i)' = Due(i)
  <2> SUFFICES ASSUME NEW i \in 1..n PROVE Due(i) \in Nat /\ Due(i)' = Due(i)
    OBVIOUS
  <2>1. Due(i) \in TicksBy(i)
    BY <1>1 DEF DueIsLatest
  <2>2. Due(i) = Max(TicksBy(i)) /\ Due(i)' = Max(TicksBy(i)')
    BY Zenon DEF Due, TicksBy
  <2> QED BY <1>3, <2>1, <2>2, Zenon
<1> DEFINE m == IF taken # <<>> /\ Due(n) >= t THEN Due(n) ELSE t
<1>5. TicksBy(n + 1)' = (IF n = 0 THEN {} ELSE TicksBy(n)) \cup {t}
  <2>1. TicksBy(n + 1)' = {TickOf(taken'[j].at_ms) : j \in 1..(n + 1)}
    BY DEF TicksBy
  <2>2. 1..(n + 1) = (IF n = 0 THEN {} ELSE 1..n) \cup {n + 1}
    BY <1>1
  <2>3. CASE n = 0
    BY <1>1, <2>1, <2>2, <2>3, Zenon
  <2>4. CASE n # 0
    <3>1. \A j \in 1..n : TickOf(taken'[j].at_ms) = TickOf(taken[j].at_ms)
      BY <1>1, Zenon
    <3>2. 1..(n + 1) = 1..n \cup {n + 1} /\ TickOf(taken'[n + 1].at_ms) = t
      BY <1>1, <2>2, <2>4, Zenon
    <3>3. {TickOf(taken'[j].at_ms) : j \in 1..(n + 1)}
            = {TickOf(taken[j].at_ms) : j \in 1..n} \cup {t}
      BY <3>1, <3>2
    <3> QED BY <2>1, <2>4, <3>3 DEF TicksBy
  <2> QED BY <2>3, <2>4
<1>6. t \in Nat
  BY <1>2
<1>7. taken = <<>> <=> n = 0
  BY EmptySeq
<1>8. n # 0 => /\ Due(n) \in Nat /\ Due(n) \in TicksBy(n) /\ TicksBy(n) \in SUBSET Nat
               /\ \A y \in TicksBy(n) : Due(n) >= y
  <2> SUFFICES ASSUME n # 0 PROVE n \in 1..n
    BY <1>1, <1>3, <1>4, Zenon DEF DueIsLatest
  <2> QED BY <1>1
<1>9. /\ TicksBy(n + 1)' \in SUBSET Nat /\ m \in TicksBy(n + 1)'
      /\ \A y \in TicksBy(n + 1)' : m >= y
  <2>1. CASE n = 0
    BY <1>5, <1>6, <1>7, <2>1
  <2>2. CASE n # 0 /\ Due(n) >= t
    BY <1>5, <1>6, <1>7, <1>8, <2>2
  <2>3. CASE n # 0 /\ ~(Due(n) >= t)
    BY <1>5, <1>6, <1>7, <1>8, <2>3
  <2> QED BY <2>1, <2>2, <2>3
<1>10. Due(n + 1)' = m
  <2>1. Due(n + 1)' = Max(TicksBy(n + 1)')
    BY Zenon DEF Due, TicksBy
  <2> HIDE DEF m
  <2> QED BY <1>9, <2>1, MaxIs
<1>11. DueIsLatest'
  <2> SUFFICES ASSUME NEW i \in 1..(n + 1)
               PROVE  Due(i)' \in TicksBy(i)' /\ \A y \in TicksBy(i)' : Due(i)' >= y
    BY <1>1, Zenon DEF DueIsLatest
  <2>1. CASE i \in 1..n
    BY <1>1, <1>3, <1>4, <2>1, Zenon DEF DueIsLatest
  <2>2. CASE i = n + 1
    BY <1>9, <1>10, <2>2, Zenon
  <2> QED BY <1>1, <2>1, <2>2
<1> QED BY <1>1, <1>4, <1>10, <1>11, Zenon

(* What the pipe gets for a frame after others, all of the right size: the *)
(* last image up to the tick before the frame's, then the frame.           *)
LEMMA EmissionShape ==
  ASSUME TypeOK, NEW f \in Frame, f.fits, taken # <<>>, Last(taken).fits
  PROVE  /\ TickOf(f.at_ms) <= ticks => Emission(f) = <<>>
         /\ TickOf(f.at_ms) > ticks =>
              /\ Len(Emission(f)) = TickOf(f.at_ms) - ticks
              /\ \A k \in 1..(TickOf(f.at_ms) - ticks - 1) : Emission(f)[k] = Last(taken).id
              /\ Emission(f)[TickOf(f.at_ms) - ticks] = f.id
<1> DEFINE t == TickOf(f.at_ms)
<1>1. t \in Nat /\ ticks \in Nat /\ f.id \in 1..MaxFrames
  BY TickType, MotionAssumption DEF Frame, TypeOK
<1>2. Last(taken).id \in 1..MaxFrames
  BY LastOfTaken
<1>3. CASE t <= ticks
  <2>1. Holds(f) = <<>> /\ Fresh(f) = <<>>
    BY <1>1, <1>3 DEF Holds, Fresh
  <2> QED BY <1>1, <1>3, <2>1, EmptySeq DEF Emission
<1>4. CASE t > ticks
  <2> DEFINE h == t - ticks - 1
  <2>1. h \in Nat
    BY <1>1, <1>4
  <2>2. Holds(f) = Repeat(Last(taken).id, h) /\ Fresh(f) = <<f.id>>
    BY <1>1, <1>4 DEF Holds, Fresh
  <2> HIDE DEF h
  <2>3. ASSUME NEW x \in 1..MaxFrames, NEW k \in Nat
        PROVE  /\ Repeat(x, k) \in Seq(1..MaxFrames) /\ Len(Repeat(x, k)) = k
               /\ \A i \in 1..k : Repeat(x, k)[i] = x
    BY RepeatShape
  <2>7. /\ Repeat(Last(taken).id, h) \in Seq(1..MaxFrames)
        /\ Len(Repeat(Last(taken).id, h)) = h
        /\ \A k \in 1..h : Repeat(Last(taken).id, h)[k] = Last(taken).id
    BY <1>2, <2>1, <2>3, Zenon
  <2>4. <<f.id>> \in Seq(1..MaxFrames) /\ Len(<<f.id>>) = 1 /\ <<f.id>>[1] = f.id
    BY <1>1
  <2>5. /\ Len(Emission(f)) = h + 1
        /\ \A k \in 1..h : Emission(f)[k] = Last(taken).id
        /\ Emission(f)[h + 1] = f.id
    BY <2>1, <2>2, <2>4, <2>7, ConcatProperties DEF Emission
  <2>6. h + 1 = t - ticks
    BY <1>1 DEF h
  <2> QED BY <1>1, <1>4, <2>5, <2>6 DEF h
<1> QED BY <1>1, <1>3, <1>4

-----------------------------------------------------------------------------
(* Frames at time zero stay where they are: an offer is the only new one.  *)
LEMMA FramesStep == MailInv /\ FirstAtZero /\ [Next]_vars => FirstAtZero'
<1> SUFFICES ASSUME MailInv, FirstAtZero, [Next]_vars PROVE FirstAtZero'
  OBVIOUS
<1> USE DEF FirstAtZero
<1>1. captured \in Seq(Frame) /\ mailbox \in Seq(Frame) /\ taken \in Seq(Frame)
  BY DEF MailInv, TypeOK
<1>2. ASSUME NEW at_ms \in Times, NEW fits \in {TRUE, ~CropFails}, Offer(at_ms, fits)
      PROVE  FirstAtZero'
  <2> DEFINE f == NextFrame(at_ms, fits)
  <2>1. f.id = Len(captured) + 1 /\ (captured = <<>> => f.at_ms = 0)
    BY DEF NextFrame
  <2>2. f \in Frame
    <3>1. Len(captured) + 1 \in 1..MaxFrames
      BY <1>1, <1>2, LenProperties, MotionAssumption DEF Offer
    <3>2. (IF captured = <<>> THEN 0 ELSE at_ms) \in Times /\ fits \in BOOLEAN
      BY MotionAssumption
    <3> QED BY <3>1, <3>2 DEF NextFrame, Frame
  <2>3. f.id = 1 => f.at_ms = 0
    <3>1. f.id = 1 => Len(captured) = 0
      BY <1>1, <2>1, LenProperties
    <3>2. Len(captured) = 0 => captured = <<>>
      BY <1>1, EmptySeq
    <3> QED BY <2>1, <3>1, <3>2, Zenon
  <2>4. /\ captured' = Append(captured, f) /\ taken' = taken
        /\ mailbox' = mailbox \/ mailbox' = Append(mailbox, f)
    BY <1>2 DEF Offer, workerVars
  <2> HIDE DEF f
  <2> QED BY <1>1, <2>2, <2>3, <2>4, ZeroAppend
<1>3. CASE Evict
  <2>1. /\ UNCHANGED <<captured, taken>>
        /\ mailbox' = mailbox \/ (mailbox # <<>> /\ mailbox' = Tail(mailbox))
    BY <1>3 DEF Evict, workerVars
  <2> QED BY <1>1, <2>1, ZeroTail
<1>4. CASE Resend
  <2>1. captured # <<>> /\ thread = "resending"
    BY <1>4 DEF Resend, MailInv, Together
  <2>2. Last(captured) \in Frame /\ (Last(captured).id = 1 => Last(captured).at_ms = 0)
    BY <1>1, <2>1, LastType, ZeroLast
  <2>3. /\ UNCHANGED <<captured, taken>>
        /\ mailbox' = mailbox \/ mailbox' = Append(mailbox, Last(captured))
    BY <1>4 DEF Resend, workerVars
  <2> QED BY <1>1, <2>2, <2>3, ZeroAppend
<1>5. CASE Take
  <2>1. /\ mailbox # <<>> /\ mailbox' = Tail(mailbox) /\ captured' = captured
        /\ taken' = Append(taken, Head(mailbox))
    BY <1>5 DEF Take, threadVars
  <2>2. Head(mailbox) \in Frame /\ (Head(mailbox).id = 1 => Head(mailbox).at_ms = 0)
        /\ ZeroFirst(Tail(mailbox))
    BY <1>1, <2>1, TailFacts, ZeroTail
  <2> QED BY <1>1, <2>1, <2>2, ZeroAppend
<1>6. ASSUME UNCHANGED <<captured, mailbox, taken>> PROVE FirstAtZero'
  BY <1>6
<1>7. CASE QuietStep
  BY <1>6, <1>7 DEF QuietStep, Start, StartFails, Sent, Finish, Cancel, Joined, Collect, Release,
     FfmpegDies, threadVars, mailboxVars, workerVars
<1>8. CASE Look \/ NothingToTake \/ Fill \/ Close \/ Probe \/ Rename \/ Hash
  BY <1>6, <1>8 DEF Look, NothingToTake, Fill, Close, Probe, Rename, Hash, File, threadVars,
     mailboxVars
<1>9. CASE UNCHANGED vars
  BY <1>6, <1>9 DEF vars, threadVars, mailboxVars, workerVars
<1> QED BY <1>2, <1>3, <1>4, <1>5, <1>7, <1>8, <1>9, Zenon
     DEF Next, ThreadStep, WorkerStep, QuietStep

(* A frame taken and written in time leaves the video ending at its tick,  *)
(* or where it ended when the frame is late.                               *)
LEMMA TakeInTime ==
  ASSUME TimeInv, MailInv', Take PROVE DueIsLatest' /\ WrittenInTime' /\ VideoKeepsTime'
<1>f. PICK f : f = Head(mailbox)
  OBVIOUS
<1>t. PICK t : t = TickOf(f.at_ms)
  OBVIOUS
<1>n. PICK n : n = Len(taken)
  OBVIOUS
<1>1. taken \in Seq(Frame) /\ video \in Seq(1..MaxFrames) /\ ticks \in Nat /\ TypeOK
  BY DEF TimeInv, MailInv, TypeOK
<1>2. f \in Frame /\ (f.id = 1 => f.at_ms = 0) /\ t \in Nat
  <2>1. mailbox \in Seq(Frame) /\ mailbox # <<>> /\ ZeroFirst(mailbox)
    BY DEF TimeInv, MailInv, TypeOK, FirstAtZero, Take
  <2>2. f \in Frame /\ (f.id = 1 => f.at_ms = 0)
    BY <1>f, <2>1, TailFacts, ZeroTail
  <2> QED BY <1>t, <2>2, TickType, MotionAssumption DEF Frame
<1>3. /\ taken' = Append(taken, f) /\ ticks' = IF t > ticks THEN t ELSE ticks
      /\ worker \in {"taking", "draining"}
      /\ \/ worker' = "failed"
         \/ worker' \in {"receiving", "draining"} /\ video' = video \o Emission(f)
  BY <1>f, <1>t DEF Take, Write, Fails
<1>4. /\ Len(taken') = n + 1 /\ n \in Nat
      /\ \A i \in 1..n : taken'[i] = taken[i]
      /\ taken'[n + 1] = f
      /\ DOMAIN taken = 1..n /\ DOMAIN taken' = 1..(n + 1)
      /\ DueIsLatest'
  BY <1>1, <1>2, <1>3, <1>n, <1>t, DueOfNext DEF TimeInv
<1>5. /\ \A i \in 1..n : Due(i) \in Nat /\ Due(i)' = Due(i)
      /\ Due(n + 1)' = IF taken # <<>> /\ Due(n) >= t THEN Due(n) ELSE t
  BY <1>1, <1>2, <1>3, <1>n, <1>t, DueOfNext DEF TimeInv
<1>6. taken = <<>> <=> n = 0
  BY <1>1, <1>n, EmptySeq
<1>7. VideoKeepsTime'
  BY <1>3 DEF VideoKeepsTime, Filing
<1>8. ASSUME worker' # "failed", Whole'
      PROVE  Due(n + 1)' = ticks' /\ KeptUntil(ticks)'
  <2>1. video' = video \o Emission(f) /\ f.fits /\ worker \in Writing
    <3>1. n + 1 \in DOMAIN taken'
      BY <1>4
    <3>2. taken'[n + 1].fits
      BY <1>8, <3>1, Zenon DEF Whole
    <3>3. worker \in Writing
      BY <1>3 DEF Writing, Before
    <3> QED BY <1>3, <1>4, <1>8, <3>2, <3>3, Zenon
  <2>2. SUFFICES /\ Due(n + 1)' = ticks' /\ Len(video') = ticks' /\ ticks' \in Nat
                 /\ \A tick \in 1..ticks' : \E i \in 1..(n + 1) : Shows(tick, i)'
    <3>1. video' \in Seq(1..MaxFrames)
      BY DEF MailInv, TypeOK
    <3>2. DOMAIN video' = 1..Len(video')
      BY <3>1, LenProperties
    <3> QED BY <1>4, <2>2, <3>2, Zenon DEF KeptUntil
  <2>3. CASE n = 0
    <3>1. taken = <<>> /\ ticks = 0 /\ video = <<>>
      BY <1>6, <2>1, <2>3 DEF TimeInv, WrittenInTime
    <3>2. f.id = 1 /\ f.at_ms = 0
      BY <1>2, <1>4, <1>8, <2>3 DEF Whole
    <3>3. t = 1
      BY <1>t, <3>2 DEF TickOf
    <3>4. Holds(f) = <<>> /\ Fresh(f) = <<f.id>>
      BY <1>t, <2>1, <3>1, <3>3 DEF Holds, Fresh
    <3>5. video' = <<f.id>>
      BY <2>1, <3>1, <3>4 DEF Emission
    <3>6. ticks' = 1 /\ Due(n + 1)' = 1
      BY <1>3, <1>5, <3>1, <3>3
    <3>7. Len(video') = 1 /\ video'[1] = f.id
      BY <3>5
    <3>8. Shows(1, 1)'
      BY <1>4, <2>3, <3>6, <3>7 DEF Shows
    <3> QED BY <2>3, <3>6, <3>7, <3>8
  <2>4. CASE n # 0
    <3>1. taken # <<>> /\ n \in 1..n /\ 1 \in 1..n /\ Last(taken) = taken[n]
      BY <1>4, <1>6, <1>n, <2>4 DEF Last
    <3>2. Whole
      <4>1. taken[1].id = 1
        BY <1>4, <1>8, <3>1 DEF Whole
      <4>2. ASSUME NEW i \in 1..n PROVE taken[i].fits
        BY <1>4, <1>8 DEF Whole
      <4> QED BY <1>4, <3>1, <4>1, <4>2 DEF Whole
    <3>3. Due(n) = ticks /\ Len(video) = ticks /\ Due(n)' = ticks /\ Last(taken).fits
          /\ \A tick \in 1..ticks : \E i \in 1..n : Shows(tick, i)
      <4>1. Due(n) = ticks /\ KeptUntil(ticks)
        BY <1>n, <2>1, <3>2 DEF TimeInv, WrittenInTime
      <4>2. DOMAIN video = 1..Len(video)
        BY <1>1, LenProperties
      <4> QED BY <1>4, <1>5, <3>1, <3>2, <4>1, <4>2, Zenon DEF KeptUntil, Whole
    <3>4. Due(n + 1)' = ticks' /\ ticks' \in Nat /\ ticks' >= ticks
      BY <1>1, <1>2, <1>3, <1>5, <3>1, <3>3
    <3>5. Emission(f) \in Seq(1..MaxFrames)
      BY <1>1, <1>2, EmissionType
    <3>6. /\ Len(video') = ticks + Len(Emission(f))
          /\ \A tick \in 1..ticks : video'[tick] = video[tick]
          /\ \A k \in 1..Len(Emission(f)) : video'[ticks + k] = Emission(f)[k]
      <4>1. /\ Len(video \o Emission(f)) = Len(video) + Len(Emission(f))
            /\ \A i \in 1..(Len(video) + Len(Emission(f))) :
                 (video \o Emission(f))[i] = IF i <= Len(video) THEN video[i]
                                             ELSE Emission(f)[i - Len(video)]
        BY <1>1, <3>5, ConcatProperties
      <4>2. Len(Emission(f)) \in Nat
        BY <3>5, LenProperties
      <4>3. video' = video \o Emission(f) /\ Len(video) = ticks
        BY <2>1, <3>3, Zenon
      <4>4. /\ Len(video') = ticks + Len(Emission(f))
            /\ \A i \in 1..(ticks + Len(Emission(f))) :
                 video'[i] = IF i <= ticks THEN video[i] ELSE Emission(f)[i - ticks]
        BY <4>1, <4>3, Zenon
      <4>5. ASSUME NEW tick \in 1..ticks PROVE video'[tick] = video[tick]
        BY <1>1, <4>2, <4>4
      <4>6. ASSUME NEW k \in 1..Len(Emission(f)) PROVE video'[ticks + k] = Emission(f)[k]
        <5>1. /\ ticks + k \in 1..(ticks + Len(Emission(f))) /\ ~(ticks + k <= ticks)
              /\ (ticks + k) - ticks = k
          BY <1>1, <4>2
        <5> QED BY <4>4, <5>1
      <4> QED BY <4>4, <4>5, <4>6, Zenon
    <3>7. ASSUME NEW tick \in 1..ticks PROVE \E i \in 1..(n + 1) : Shows(tick, i)'
      <4>1. PICK i \in 1..n : Shows(tick, i)
        BY <3>3
      <4>2. video'[tick] = taken'[i].id /\ Due(i)' <= tick /\ i \in 1..(n + 1)
        BY <1>4, <1>5, <3>6, <4>1 DEF Shows
      <4>3. ASSUME NEW j \in 1..(n + 1), Due(j)' < tick PROVE j <= i
        <5>1. j # n + 1
          BY <1>1, <3>4, <4>3
        <5>2. j \in 1..n
          BY <1>4, <5>1
        <5> QED BY <1>4, <1>5, <4>1, <4>3, <5>2 DEF Shows
      <4> QED BY <1>4, <4>2, <4>3 DEF Shows
    <3>8. CASE t <= ticks
      <4>1. Emission(f) = <<>> /\ ticks' = ticks
        BY <1>1, <1>2, <1>3, <2>1, <3>1, <3>3, <3>8, <1>t, EmissionShape
      <4>2. Len(Emission(f)) = 0
        BY <4>1, EmptySeq
      <4> QED BY <1>1, <3>4, <3>6, <3>7, <4>1, <4>2
    <3>9. CASE t > ticks
      <4>1. /\ Len(Emission(f)) = t - ticks
            /\ \A k \in 1..(t - ticks - 1) : Emission(f)[k] = Last(taken).id
            /\ Emission(f)[t - ticks] = f.id
        BY <1>1, <1>2, <2>1, <3>1, <3>3, <3>9, <1>t, EmissionShape
      <4>2. ticks' = t
        BY <1>3, <3>9
      <4>3. Len(video') = t
        BY <1>1, <1>2, <3>6, <3>9, <4>1
      <4>4. ASSUME NEW tick \in (ticks + 1)..(t - 1) PROVE Shows(tick, n)'
        <5>1. tick - ticks \in 1..(t - ticks - 1) /\ tick - ticks \in 1..(t - ticks)
              /\ ticks + (tick - ticks) = tick
          BY <1>1, <1>2, <3>9
        <5>2. video'[tick] = Last(taken).id
          BY <3>6, <4>1, <5>1
        <5>3. video'[tick] = taken'[n].id
          BY <1>4, <3>1, <5>2
        <5>4. Due(n)' <= tick
          BY <1>1, <1>2, <3>3
        <5>5. ASSUME NEW j \in 1..(n + 1), Due(j)' < tick PROVE j <= n
          BY <1>2, <1>4, <3>4, <4>2, <5>5
        <5> QED BY <1>4, <5>3, <5>4, <5>5 DEF Shows
      <4>5. Shows(t, n + 1)'
        <5>1. t - ticks \in 1..(t - ticks) /\ ticks + (t - ticks) = t
          BY <1>1, <1>2, <3>9
        <5>2. video'[t] = f.id
          BY <3>6, <4>1, <5>1
        <5> QED BY <1>2, <1>4, <3>4, <4>2, <5>2 DEF Shows
      <4>6. ASSUME NEW tick \in 1..t PROVE \E i \in 1..(n + 1) : Shows(tick, i)'
        <5>1. tick \in 1..ticks \/ tick \in (ticks + 1)..(t - 1) \/ tick = t
          BY <1>1, <1>2, <4>6
        <5>2. n \in 1..(n + 1) /\ n + 1 \in 1..(n + 1)
          BY <1>4, <3>1
        <5> QED BY <3>7, <4>4, <4>5, <5>1, <5>2, Zenon
      <4> QED BY <3>4, <4>2, <4>3, <4>6, Zenon
    <3> QED BY <1>1, <1>2, <3>8, <3>9
  <2> QED BY <1>4, <2>3, <2>4
<1>9. taken' # <<>>
  BY <1>1, <1>2, <1>3, AppendFacts
<1>10. WrittenInTime'
  <2>1. worker' \in Writing => worker' # "failed"
    BY DEF Writing, Before
  <2> QED BY <1>4, <1>8, <1>9, <2>1, Zenon DEF WrittenInTime
<1> QED BY <1>4, <1>7, <1>10

(* The same frames are due at the same ticks.                              *)
LEMMA SameFrames ==
  ASSUME DueIsLatest, UNCHANGED taken PROVE DueIsLatest' /\ \A i : Due(i)' = Due(i)
<1>1. \A i : TicksBy(i)' = TicksBy(i) /\ Due(i)' = Due(i)
  BY Zenon DEF TicksBy, Due
<1> QED BY <1>1, Zenon DEF DueIsLatest

(* The last image fills the session up.                                    *)
LEMMA FillInTime == ASSUME TimeInv, MailInv', Fill PROVE VideoKeepsTime'
<1>1. taken \in Seq(Frame) /\ video \in Seq(1..MaxFrames) /\ ticks \in Nat /\ TypeOK
  BY DEF TimeInv, MailInv, TypeOK
<1>2. /\ worker = "filling" /\ UNCHANGED <<taken, ticks, duration>>
      /\ \/ worker' = "failed"
         \/ worker' = "closing" /\ video' = video \o Remaining
  BY DEF Fill, Write, Fails
<1>n. PICK n : n = Len(taken)
  OBVIOUS
<1>t. PICK total : total = TotalTicks(duration)
  OBVIOUS
<1>3. \A i : Due(i)' = Due(i)
  BY <1>2, SameFrames DEF TimeInv
<1>4. total \in Nat
  BY <1>1, <1>t, TickType, MotionAssumption DEF TypeOK
<1> SUFFICES ASSUME worker' = "closing", Whole'
             PROVE  /\ Len(video') = Max({TotalTicks(duration'), Due(Len(taken))'})
                    /\ \A tick \in DOMAIN video' : \E i \in DOMAIN taken' : Shows(tick, i)'
  BY <1>2, Zenon DEF VideoKeepsTime, Whole, Shows, Filing
<1>5. Whole /\ taken # <<>> /\ n \in Nat \ {0} /\ DOMAIN taken = 1..n
  BY <1>1, <1>2, <1>n, EmptySeq, LenProperties DEF Whole
<1>6. Due(n) = ticks /\ KeptUntil(ticks) /\ Len(video) = ticks /\ DOMAIN video = 1..ticks
  <2>1. Due(n) = ticks /\ KeptUntil(ticks)
    BY <1>2, <1>5, <1>n DEF TimeInv, WrittenInTime, Writing
  <2> QED BY <1>1, <2>1, LenProperties DEF KeptUntil
<1>7. Last(taken) = taken[n] /\ n \in 1..n /\ Last(taken).fits
  BY <1>5, <1>n DEF Whole, Last
<1>8. DOMAIN video' = 1..Len(video')
  <2>1. video' \in Seq(1..MaxFrames)
    BY DEF MailInv, TypeOK
  <2> QED BY <2>1, LenProperties
<1>9. ASSUME NEW tick \in 1..ticks, video'[tick] = video[tick]
      PROVE  \E i \in DOMAIN taken' : Shows(tick, i)'
  <2>1. PICK i \in DOMAIN taken : Shows(tick, i)
    BY <1>6 DEF KeptUntil
  <2> QED BY <1>2, <1>3, <1>9, <2>1, Zenon DEF Shows
<1>10. CASE total <= ticks
  <2>1. Remaining = <<>>
    BY <1>10, <1>t DEF Remaining
  <2>2. video' = video
    BY <1>1, <1>2, <2>1, ConcatEmptySeq
  <2>3. Max({total, ticks}) = ticks
    BY <1>1, <1>4, <1>10, MaxIs
  <2>4. Len(video') = ticks /\ TotalTicks(duration') = total /\ Due(Len(taken))' = ticks
    BY <1>2, <1>3, <1>6, <1>n, <1>t, <2>2
  <2> QED BY <1>6, <1>8, <1>9, <2>2, <2>3, <2>4
<1>11. CASE total > ticks
  <2>1. Remaining = Repeat(Last(taken).id, total - ticks) /\ total - ticks \in Nat
    BY <1>1, <1>4, <1>5, <1>7, <1>11, <1>t DEF Remaining
  <2>2. Last(taken).id \in 1..MaxFrames
    BY <1>1, <1>5, LastOfTaken
  <2>3. ASSUME NEW x \in 1..MaxFrames, NEW k \in Nat
        PROVE  /\ Repeat(x, k) \in Seq(1..MaxFrames) /\ Len(Repeat(x, k)) = k
               /\ \A i \in 1..k : Repeat(x, k)[i] = x
    BY RepeatShape
  <2>4. /\ Remaining \in Seq(1..MaxFrames) /\ Len(Remaining) = total - ticks
        /\ \A k \in 1..(total - ticks) : Remaining[k] = Last(taken).id
    BY <2>1, <2>2, <2>3, Zenon
  <2>5. /\ Len(video \o Remaining) = Len(video) + Len(Remaining)
        /\ \A i \in 1..(Len(video) + Len(Remaining)) :
             (video \o Remaining)[i] = IF i <= Len(video) THEN video[i]
                                       ELSE Remaining[i - Len(video)]
    BY <1>1, <2>4, ConcatProperties
  <2>6. /\ Len(video') = total
        /\ \A i \in 1..total : video'[i] = IF i <= ticks THEN video[i] ELSE Remaining[i - ticks]
    <3>1. video' = video \o Remaining /\ Len(video) = ticks /\ Len(Remaining) = total - ticks
      BY <1>2, <1>6, <2>4
    <3>2. ticks + (total - ticks) = total
      BY <1>1, <1>4
    <3> QED BY <2>5, <3>1, <3>2
  <2>7. Max({total, ticks}) = total
    BY <1>1, <1>4, <1>11, MaxIs
  <2>8. TotalTicks(duration') = total /\ Due(Len(taken))' = ticks
    BY <1>2, <1>3, <1>6, <1>n, <1>t
  <2>9. ASSUME NEW tick \in 1..total PROVE \E i \in DOMAIN taken' : Shows(tick, i)'
    <3>1. CASE tick <= ticks
      BY <1>1, <1>9, <2>6, <3>1
    <3>2. CASE tick > ticks
      <4>1. tick - ticks \in 1..(total - ticks)
        BY <1>1, <1>4, <3>2
      <4>2. video'[tick] = taken[n].id
        BY <1>1, <1>7, <2>4, <2>6, <3>2, <4>1
      <4>3. Due(n) <= tick
        BY <1>1, <1>6, <3>2
      <4>4. \A j \in DOMAIN taken : j <= n
        BY <1>5
      <4>5. Shows(tick, n)'
        BY <1>2, <1>3, <4>2, <4>3, <4>4, Zenon DEF Shows
      <4> QED BY <1>2, <1>5, <1>7, <4>5
    <3> QED BY <1>1, <1>4, <3>1, <3>2
  <2> QED BY <1>8, <2>6, <2>7, <2>8, <2>9
<1> QED BY <1>1, <1>4, <1>10, <1>11

(* Steps that neither take a frame nor write one.                          *)
LEMMA UnwrittenInTime ==
  ASSUME TimeInv, UNCHANGED <<taken, ticks, video>>,
         \/ UNCHANGED <<worker, duration>>
         \/ worker \in Writing /\ worker' \in Writing \cup {"failed"}
         \/ worker = "none" /\ worker' = "receiving" /\ taken = <<>>
         \/ /\ worker \in {"closing"} \cup Filing
            /\ worker' \in Filing \cup {"ready", "failed"} /\ UNCHANGED duration
  PROVE  DueIsLatest' /\ WrittenInTime' /\ VideoKeepsTime'
<1>1. DueIsLatest' /\ \A i : Due(i)' = Due(i)
  BY SameFrames DEF TimeInv
<1>2. \A tick, i : Shows(tick, i)' = Shows(tick, i)
  BY <1>1, Zenon DEF Shows
<1>3. \A end : KeptUntil(end)' = KeptUntil(end)
  BY <1>2, Zenon DEF KeptUntil
<1>4. Whole' = Whole /\ Due(Len(taken))' = Due(Len(taken)) /\ (taken = <<>> => ~Whole)
  BY <1>1, Zenon DEF Whole
<1>5. WrittenInTime'
  BY <1>3, <1>4, Zenon DEF TimeInv, WrittenInTime, Writing, Before, Filing
<1>6. VideoKeepsTime'
  <2> SUFFICES ASSUME worker' \in {"closing", "ready"} \cup Filing, Whole
               PROVE  /\ Len(video) = Max({TotalTicks(duration'), Due(Len(taken))})
                      /\ \A tick \in DOMAIN video : \E i \in DOMAIN taken : Shows(tick, i)
    BY <1>1, <1>2, <1>4, Zenon DEF VideoKeepsTime, Whole, Shows
  <2>1. duration' = duration /\ worker \in {"closing", "ready"} \cup Filing
    BY DEF Writing, Before, Filing
  <2> QED BY <2>1, Zenon DEF TimeInv, VideoKeepsTime, Whole, Shows
<1> QED BY <1>1, <1>5, <1>6

LEMMA InitTime == Init => TimeInv
<1> SUFFICES ASSUME Init PROVE TimeInv
  OBVIOUS
<1>1. MailInv
  BY InitMail
<1>2. captured = <<>> /\ mailbox = <<>> /\ taken = <<>> /\ DOMAIN <<>> = {} /\ worker = "none"
  BY DEF Init
<1>3. FirstAtZero /\ DueIsLatest
  BY <1>2 DEF FirstAtZero, ZeroFirst, DueIsLatest
<1> QED BY <1>1, <1>2, <1>3 DEF TimeInv, Init, WrittenInTime, VideoKeepsTime, Writing, Before, Filing

LEMMA NextTime == TimeInv /\ [Next]_vars => TimeInv'
<1> SUFFICES ASSUME TimeInv, [Next]_vars PROVE DueIsLatest' /\ WrittenInTime' /\ VideoKeepsTime'
  BY NextMail, FramesStep DEF TimeInv
<1>1. MailInv'
  BY NextMail DEF TimeInv
<1>2. CASE Take
  BY <1>1, <1>2, TakeInTime
<1>3. CASE Fill
  <2>1. worker' \in {"closing", "failed"} /\ UNCHANGED taken
    BY <1>3 DEF Fill, Write, Fails
  <2> QED BY <1>1, <1>3, <2>1, FillInTime, SameFrames DEF TimeInv, WrittenInTime, Writing, Before
<1>4. CASE Start
  <2>1. thread = "idle" /\ worker' = "receiving" /\ UNCHANGED <<taken, ticks, video>>
    BY <1>4 DEF Start
  <2>2. worker = "none" /\ taken = <<>>
    BY <2>1 DEF TimeInv, MailInv, Together
  <2> QED BY <2>1, <2>2, UnwrittenInTime
<1>5. CASE Look \/ NothingToTake
  <2>1. UNCHANGED <<taken, ticks, video>> /\ worker \in Writing /\ worker' \in Writing \cup {"failed"}
    BY <1>5 DEF Look, NothingToTake, Fails, Writing, Before
  <2> QED BY <2>1, UnwrittenInTime
<1>6. CASE Close \/ Probe \/ Rename \/ Hash
  <2>1. /\ UNCHANGED <<taken, ticks, video, duration>> /\ worker \in {"closing"} \cup Filing
        /\ worker' \in Filing \cup {"ready", "failed"}
    BY <1>6 DEF Close, Probe, Rename, Hash, File, Fails, Filing
  <2> QED BY <2>1, UnwrittenInTime
<1>7. ASSUME UNCHANGED workerVars PROVE DueIsLatest' /\ WrittenInTime' /\ VideoKeepsTime'
  BY <1>7, UnwrittenInTime DEF workerVars
<1>8. CASE QuietStep
  BY <1>4, <1>7, <1>8 DEF QuietStep, StartFails, Sent, Finish, Cancel, Joined, Collect, Release,
     FfmpegDies
<1>9. CASE (\E at_ms \in Times, fits \in {TRUE, ~CropFails} : Offer(at_ms, fits)) \/ Evict \/ Resend
  BY <1>7, <1>9 DEF Offer, Evict, Resend
<1>10. CASE UNCHANGED vars
  BY <1>7, <1>10 DEF vars
<1> QED BY <1>2, <1>3, <1>5, <1>6, <1>8, <1>9, <1>10, Zenon
     DEF Next, ThreadStep, WorkerStep, QuietStep

(* A recording whose first frame reached the worker and whose frames have  *)
(* the size of the video keeps time: it has an image for every tick of the *)
(* session, each that of the frame that was due.                           *)
THEOREM VideoAlwaysKeepsTime == Spec => []VideoKeepsTime
<1>1. TimeInv => VideoKeepsTime
  BY DEF TimeInv
<1> QED BY <1>1, InitTime, NextTime, PTL DEF Spec
=============================================================================
