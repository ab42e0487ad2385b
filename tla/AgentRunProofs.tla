--------------------------- MODULE AgentRunProofs ---------------------------
(***************************************************************************)
(* What holds of an agent run for any budget, authority, number of turns,  *)
(* batches and sources: the types, what a successful run spent, what it    *)
(* hands over for review, how often the provider is asked, how a refused   *)
(* call ends the run, and what a cancellation stops.                       *)
(***************************************************************************)
EXTENDS AgentRun, FiniteSetTheorems, SequenceTheorems, TLAPS

(* What the tools keep of the draft: evidence of the current generation    *)
(* has its result, and a handoff is the current source with both kinds.    *)
DraftOK(d) ==
    /\ HasEvidence(d, "validation") => d.last_validated \in ValidSources
    /\ HasEvidence(d, "dry_run") => d.last_dry_run_source \in ValidSources
    /\ d.pending_ready_for_review # NoHandoff =>
          LET ready == d.pending_ready_for_review IN
          /\ HasEvidence(d, "validation") /\ HasEvidence(d, "dry_run")
          /\ ready.generation = d.generation /\ ready.source = d.source
          /\ ready.validated = d.source /\ ready.dry_run = d.source
          /\ d.source \in ValidSources

HandsOver(d) == d.pending_ready_for_review # NoHandoff

(* The turns the two rig instances may take together, and the dispatches   *)
(* they have made, each of which is charged when it completes.             *)
Asking == IF pc \in {"streaming", "end"} THEN 1 ELSE 0

Turns ==
    /\ rig.turns <= rig.max
    /\ started + (rig.max - rig.turns) = MaxTurns
    /\ dispatched <= started
    /\ pc = "stream" => dispatched < started
    /\ dispatched <= used["model_calls"] + Asking
    /\ used["model_calls"] <= conf.budget["model_calls"]
    /\ turn["model_calls"] = 0

(* Where a batch may have stopped, and what a denial leads to.             *)
Early == {"start", "loop", "stream", "streaming", "load"}

Flow ==
    /\ pc # "end" => terminal = None
    /\ pc \in Early => at = 1
    /\ pc = "start" => rig.phase = "call"
    /\ pc = "results" => conf.profile = "redaction"
    /\ batch.stopped # None => pc \in {"results", "audit", "end"}
    /\ pc = "audit" => after \in Failures
    /\ denied => pc \in {"results", "audit", "end"} /\ terminal \notin Successes
    /\ denied /\ pc = "results" => batch.stopped = "denied"
    /\ denied /\ pc = "end" /\ conf.audit_sink =>
          recorded \/ terminal \in {"AuditFailure", "BudgetExhausted"}

Kept ==
    /\ DraftOK(draft)
    /\ batch.stopped = "submitted" \/ terminal = "ReadyForReview" => HandsOver(draft)

(* What may be spent where.  A batch of auxiliary calls may exceed the     *)
(* budget, but the next completed turn notices.                            *)
Covered(x) == used[x] + turn[x] <= conf.budget[x]
Clear == \A x \in Dims : turn[x] = 0 /\ used[x] <= conf.budget[x]

Spent ==
    /\ Covered("attachments")
    /\ pc = "start" => turn["attachments"] = 0
    /\ pc \in Early => \A x \in Dims \ {"attachments"} : turn[x] = 0
    /\ conf.profile # "single" /\ pc # "end" => \A x \in Dims : Covered(x)
    /\ conf.profile = "redaction" /\ pc # "end" => turn["candidate_count"] = 0
    /\ conf.profile = "single" /\ pc = "loop" /\ rig.phase # "call" => Clear
    /\ conf.profile = "single" /\ pc = "tools" =>
          /\ at \in DOMAIN calls
          /\ \/ calls[at] = "submit" /\ Clear
             \/ turn["attachments"] = 0 /\ \A i \in DOMAIN calls : calls[i] = "auxiliary"
    /\ terminal \in Successes => \A x \in Dims : used[x] <= conf.budget[x]

IInv == TypeOK /\ Turns /\ Flow /\ Kept /\ Spent

-----------------------------------------------------------------------------
(* Usage.                                                                  *)
LEMMA UsageType ==
  ASSUME NEW x \in Dims, NEW n \in Nat
  PROVE  /\ Usage(x, n) \in [Dims -> Nat]
         /\ \A y \in Dims : Usage(x, n)[y] = IF y = x THEN n ELSE 0
  BY DEF Usage

LEMMA PlusType ==
  ASSUME NEW u \in [Dims -> Nat], NEW v \in [Dims -> Nat]
  PROVE  /\ Plus(u, v) \in [Dims -> Nat]
         /\ \A x \in Dims : Plus(u, v)[x] = u[x] + v[x]
  BY DEF Plus

LEMMA TwoUsages ==
  ASSUME NEW x \in Dims, NEW n \in Nat, NEW y \in Dims, NEW k \in Nat, x # y
  PROVE  /\ [Usage(x, n) EXCEPT ![y] = k] \in [Dims -> Nat]
         /\ \A z \in Dims : [Usage(x, n) EXCEPT ![y] = k][z] =
               IF z = y THEN k ELSE IF z = x THEN n ELSE 0
  BY DEF Usage

LEMMA BatchUsageType ==
  ASSUME TypeOK
  PROVE  /\ BatchUsage \in [Dims -> Nat]
         /\ \A x \in Dims \ {"tool_calls", "dry_run_attempts"} : BatchUsage[x] = 0
<1> DEFINE D == {i \in DOMAIN calls : calls[i] = "dry_run"}
<1>1. Len(calls) \in Nat /\ DOMAIN calls = 1..Len(calls)
  BY DEF TypeOK
<1>2. IsFiniteSet(DOMAIN calls)
  BY <1>1, FS_Interval
<1>3. Cardinality(D) \in Nat
  BY <1>2, FS_Subset, FS_CardinalityType
<1>4. "tool_calls" \in Dims /\ "dry_run_attempts" \in Dims
  BY DEF Dims
<1>5. BatchUsage = [Usage("tool_calls", Len(calls)) EXCEPT !["dry_run_attempts"] = Cardinality(D)]
  BY DEF BatchUsage
<1> HIDE DEF D
<1> QED BY <1>1, <1>3, <1>4, <1>5, TwoUsages

LEMMA CallerType ==
  ASSUME TypeOK
  PROVE  conf \in Conf /\ conf.budget \in [Dims -> Nat] /\ conf.profile \in Profiles
         /\ conf.attachments \in Nat
  BY RunAssumption DEF TypeOK, Conf

-----------------------------------------------------------------------------
(* The tools.                                                              *)
Sound(name, o) ==
    /\ o.draft \in Draft /\ DraftOK(o.draft) /\ o.candidate_count \in Nat
    /\ name = "submit_for_review" /\ o.kind = "success" => HandsOver(o.draft)

LEMMA UnchangedIsSound ==
  ASSUME NEW d \in Draft, DraftOK(d), NEW name, name # "submit_for_review"
  PROVE  Sound(name, Success(d)) /\ Sound(name, Recoverable(d))
  BY DEF Sound, Success, Recoverable

LEMMA RefusalIsSound ==
  ASSUME NEW d \in Draft, DraftOK(d), NEW name
  PROVE  Sound(name, Recoverable(d))
  BY DEF Sound, Recoverable

LEMMA RewriteIsSound ==
  ASSUME NEW d \in Draft, DraftOK(d), NEW s \in Sources
  PROVE  Rewrite(d, s) \in Draft /\ DraftOK(Rewrite(d, s))
<1>1. NoHandoff \in Handoff /\ NoSource \in Cached
  BY DEF NoHandoff, Handoff, Cached
<1>2. Rewrite(d, s) \in Draft
  BY <1>1 DEF Rewrite, Draft
<1>3. ~HasEvidence(Rewrite(d, s), "validation") /\ ~HasEvidence(Rewrite(d, s), "dry_run")
  BY DEF Rewrite, HasEvidence, Draft
<1>4. Rewrite(d, s).pending_ready_for_review = NoHandoff
  BY DEF Rewrite
<1> QED BY <1>2, <1>3, <1>4 DEF DraftOK

LEMMA EditIsSound ==
  ASSUME NEW d \in Draft, DraftOK(d), NEW g, NEW s \in Sources, NEW once
  PROVE  Sound("replace_source", ReplaceSource(d, g, s)) /\ Sound("edit_source", EditSource(d, g, s, once))
<1>1. Rewrite(d, s) \in Draft /\ DraftOK(Rewrite(d, s))
  BY RewriteIsSound
<1>2. Sound("replace_source", Success(Rewrite(d, s))) /\ Sound("edit_source", Success(Rewrite(d, s)))
  BY <1>1, UnchangedIsSound
<1> QED BY <1>2, RefusalIsSound DEF ReplaceSource, EditSource

LEMMA ValidateIsSound ==
  ASSUME NEW d \in Draft, DraftOK(d), NEW g, NEW s \in Sources
  PROVE  Sound("validate_source", ValidateSource(d, g, s))
<1>1. CASE ~(g = d.generation /\ s \in ValidSources)
  BY <1>1, RefusalIsSound DEF ValidateSource
<1>2. CASE g = d.generation /\ s \in ValidSources
  <2>0. d.evidence \cup {<<"validation", d.generation>>} \in SUBSET (Kinds \X Nat) /\ s \in Cached
    BY DEF Draft, Kinds, Cached
  <2>1. PICK e \in Draft : e = [d EXCEPT !.evidence = d.evidence \cup {<<"validation", d.generation>>},
                                        !.last_validated = s]
    BY <2>0 DEF Draft
  <2>2. /\ e.evidence = d.evidence \cup {<<"validation", d.generation>>} /\ e.last_validated = s
        /\ e.generation = d.generation /\ e.source = d.source
        /\ e.last_dry_run_source = d.last_dry_run_source
        /\ e.pending_ready_for_review = d.pending_ready_for_review
    BY <2>1 DEF Draft
  <2>3. HasEvidence(e, "validation") /\ (HasEvidence(e, "dry_run") <=> HasEvidence(d, "dry_run"))
    BY <2>2 DEF HasEvidence
  <2>4. DraftOK(e)
    BY <1>2, <2>2, <2>3 DEF DraftOK
  <2>5. ValidateSource(d, g, s) = Success(e)
    BY <1>2, <2>1 DEF ValidateSource
  <2> QED BY <2>4, <2>5, UnchangedIsSound
<1> QED BY <1>1, <1>2

LEMMA DryRunIsSound ==
  ASSUME NEW d \in Draft, DraftOK(d), NEW g, NEW s \in Sources, NEW ok \in BOOLEAN, NEW n \in Nat
  PROVE  Sound("dry_run", DryRun(d, g, s, ok, n))
<1>1. CASE ~(g = d.generation /\ s \in ValidSources /\ ok)
  BY <1>1, RefusalIsSound DEF DryRun
<1>2. CASE g = d.generation /\ s \in ValidSources /\ ok
  <2>0. d.evidence \cup {<<"dry_run", d.generation>>} \in SUBSET (Kinds \X Nat) /\ s \in Cached
    BY DEF Draft, Kinds, Cached
  <2>1. PICK e \in Draft : e = [d EXCEPT !.evidence = d.evidence \cup {<<"dry_run", d.generation>>},
                                        !.last_dry_run_source = s]
    BY <2>0 DEF Draft
  <2>2. /\ e.evidence = d.evidence \cup {<<"dry_run", d.generation>>} /\ e.last_dry_run_source = s
        /\ e.generation = d.generation /\ e.source = d.source
        /\ e.last_validated = d.last_validated
        /\ e.pending_ready_for_review = d.pending_ready_for_review
    BY <2>1 DEF Draft
  <2>3. HasEvidence(e, "dry_run") /\ (HasEvidence(e, "validation") <=> HasEvidence(d, "validation"))
    BY <2>2 DEF HasEvidence
  <2>4. DraftOK(e)
    BY <1>2, <2>2, <2>3 DEF DraftOK
  <2>5. DryRun(d, g, s, ok, n) = [Success(e) EXCEPT !.candidate_count = n]
    BY <1>2, <2>1 DEF DryRun
  <2> QED BY <2>4, <2>5 DEF Sound, Success
<1> QED BY <1>1, <1>2

LEMMA SubmitIsSound ==
  ASSUME NEW d \in Draft, DraftOK(d), NEW g
  PROVE  Sound("submit_for_review", SubmitForReview(d, g))
<1>1. CASE ~(g = d.generation /\ MaySubmit(d))
  BY <1>1, RefusalIsSound DEF SubmitForReview
<1>2. CASE g = d.generation /\ MaySubmit(d)
  <2>1. PICK ready \in Handoff :
           ready = [generation |-> d.generation, source |-> d.source,
                    validated |-> d.last_validated, dry_run |-> d.last_dry_run_source]
    BY DEF Draft, Handoff, Cached
  <2>2. PICK e \in Draft : e = [d EXCEPT !.pending_ready_for_review = ready]
    BY DEF Draft
  <2>3. /\ e.evidence = d.evidence /\ e.generation = d.generation /\ e.source = d.source
        /\ e.last_validated = d.last_validated /\ e.last_dry_run_source = d.last_dry_run_source
        /\ e.pending_ready_for_review = ready
    BY <2>2 DEF Draft
  <2>4. ready.source # NoSource /\ ready # NoHandoff
    BY <2>1, SourcesAssumption DEF Draft, NoHandoff
  <2>5. HasEvidence(e, "validation") /\ HasEvidence(e, "dry_run")
        /\ d.last_validated = d.source /\ d.last_dry_run_source = d.source
        /\ d.source \in ValidSources
    BY <1>2, <2>3 DEF MaySubmit, HasEvidence, DraftOK
  <2>6. DraftOK(e) /\ HandsOver(e)
    BY <2>1, <2>3, <2>4, <2>5 DEF DraftOK, HandsOver
  <2>7. SubmitForReview(d, g) = Success(e)
    BY <1>2, <2>1, <2>2 DEF SubmitForReview
  <2> QED BY <2>6, <2>7 DEF Sound, Success
<1> QED BY <1>1, <1>2

(* Every tool call of the redaction run is one with a sound outcome.       *)
LEMMA CallsAreSound ==
  ASSUME TypeOK, DraftOK(draft),
         \/ CallReplaceSource \/ CallEditSource \/ CallValidateSource \/ CallDryRun
         \/ CallSubmitForReview \/ CallRequestUserInput \/ CallReadCurrentSource
  PROVE  \E name, o : Sound(name, o) /\ Execute(name, o)
<1>1. draft \in Draft /\ 0 .. MaxAmount \subseteq Nat
  BY RunAssumption DEF TypeOK
<1>2. CASE CallReplaceSource
  BY <1>1, <1>2, EditIsSound DEF CallReplaceSource
<1>3. CASE CallEditSource
  BY <1>1, <1>3, EditIsSound DEF CallEditSource
<1>4. CASE CallValidateSource
  BY <1>1, <1>4, ValidateIsSound DEF CallValidateSource
<1>5. CASE CallDryRun
  BY <1>1, <1>5, DryRunIsSound DEF CallDryRun
<1>6. CASE CallSubmitForReview
  BY <1>1, <1>6, SubmitIsSound DEF CallSubmitForReview
<1>7. CASE CallRequestUserInput
  BY <1>1, <1>7, UnchangedIsSound DEF CallRequestUserInput
<1>8. CASE CallReadCurrentSource
  BY <1>1, <1>8, UnchangedIsSound DEF CallReadCurrentSource
<1> QED BY <1>2, <1>3, <1>4, <1>5, <1>6, <1>7, <1>8

-----------------------------------------------------------------------------
(* Ends.                                                                   *)
LEMMA NoUsageType ==
  NoUsage \in [Dims -> Nat] /\ \A x \in Dims : NoUsage[x] = 0
  BY DEF NoUsage

LEMMA InDims ==
  /\ "model_calls" \in Dims /\ "input_tokens" \in Dims /\ "tool_calls" \in Dims
  /\ "candidate_count" \in Dims /\ "result_bytes" \in Dims /\ "attachments" \in Dims
  BY DEF Dims

LEMMA NoBatchType ==
  /\ NoBatch \in [stopped : {None, "error", "denied", "submitted", "asked"},
                  candidate_count : Nat, successes : Nat]
  /\ NoBatch.stopped = None
  BY DEF NoBatch

(* A step that ends the run keeps the invariant when a success is one that *)
(* stayed within the budget and follows no denial.                         *)
LEMMA EndKeeps ==
  ASSUME IInv, NEW state \in Successes \cup Failures, End(state), pc # "end",
         UNCHANGED <<conf, rig, draft, started, retried, failure, cancelled, late,
                     dispatched>>,
         recorded' \in BOOLEAN,
         calls' \in Seq(CallNames), at' \in Nat, batch' \in {batch, NoBatch},
         used' \in [Dims -> Nat], turn' \in [Dims -> Nat],
         used["model_calls"] <= used'["model_calls"],
         used'["model_calls"] <= conf.budget["model_calls"],
         turn'["model_calls"] = 0,
         used'["attachments"] + turn'["attachments"] <= conf.budget["attachments"],
         denied' \in BOOLEAN,
         denied' => /\ state \in Failures
                    /\ recorded' \/ state \in {"AuditFailure", "BudgetExhausted"} \/ ~conf.audit_sink,
         state \in Successes => \A x \in Dims : used'[x] <= conf.budget[x],
         state = "ReadyForReview" => HandsOver(draft)
  PROVE  IInv'
<1>0. TypeOK /\ Turns /\ Flow /\ Kept /\ Spent
  BY DEF IInv
<1>e. pc' = "end" /\ terminal' = state /\ after' = after
  BY DEF End
<1>1. TypeOK'
  BY <1>0, <1>e, NoBatchType DEF TypeOK, PCs
<1>2. Turns'
  <2>1. used["model_calls"] \in Nat /\ used'["model_calls"] \in Nat /\ dispatched \in Nat
    BY <1>0, InDims DEF TypeOK
  <2>2. dispatched <= used["model_calls"] + 1
    BY <1>0, <2>1 DEF Turns, Asking
  <2> QED BY <1>0, <1>e, <2>1, <2>2 DEF Turns, Asking
<1>3. Flow'
  BY <1>0, <1>e DEF Flow, Early, Successes, Failures
<1>4. Kept'
  BY <1>0, <1>e, NoBatchType DEF Kept, None
<1>5. Spent'
  BY <1>0, <1>e DEF Spent, Early, Covered
<1> QED BY <1>1, <1>2, <1>3, <1>4, <1>5 DEF IInv

Untouched == <<conf, rig, calls, at, batch, draft, used, turn, started, retried,
               failure, cancelled, late, dispatched, recorded>>

(* What is known of the meters between two steps.                          *)
LEMMA Meters ==
  ASSUME IInv
  PROVE  /\ used \in [Dims -> Nat] /\ turn \in [Dims -> Nat]
         /\ used["model_calls"] <= conf.budget["model_calls"]
         /\ turn["model_calls"] = 0
         /\ used["attachments"] + turn["attachments"] <= conf.budget["attachments"]
         /\ \A x \in Dims : used[x] \in Nat /\ turn[x] \in Nat /\ conf.budget[x] \in Nat
         /\ calls \in Seq(CallNames) /\ at \in Nat
  BY CallerType DEF IInv, TypeOK, Turns, Spent, Covered

LEMMA Amounts ==
  ASSUME IInv
  PROVE  \A x \in Dims : used[x] \in Nat /\ turn[x] \in Nat /\ conf.budget[x] \in Nat
  BY Meters

LEMMA FailureKeeps ==
  ASSUME IInv, NEW state \in Failures, End(state), pc # "end",
         UNCHANGED Untouched, denied' = denied,
         denied => state = "BudgetExhausted"
  PROVE  IInv'
<1>1. state \notin Successes
  BY DEF Successes, Failures
<1>2. denied \in BOOLEAN
  BY DEF IInv, TypeOK
<1>3. /\ UNCHANGED <<conf, rig, draft, started, retried, failure, cancelled, late,
                       dispatched, recorded>>
      /\ calls' = calls /\ at' = at /\ batch' = batch /\ used' = used /\ turn' = turn
  BY DEF Untouched
<1>4. /\ calls' \in Seq(CallNames) /\ at' \in Nat /\ batch' \in {batch, NoBatch}
      /\ used' \in [Dims -> Nat] /\ turn' \in [Dims -> Nat]
      /\ used["model_calls"] <= used'["model_calls"]
      /\ used'["model_calls"] <= conf.budget["model_calls"]
      /\ turn'["model_calls"] = 0
      /\ used'["attachments"] + turn'["attachments"] <= conf.budget["attachments"]
  BY <1>3, Meters, InDims
<1>5. state # "ReadyForReview" /\ denied' \in BOOLEAN /\ recorded' \in BOOLEAN
  BY <1>1, <1>2, <1>3 DEF Successes, IInv, TypeOK
<1> QED BY <1>1, <1>3, <1>4, <1>5, EndKeeps

(* A denial that is being recorded, or that nobody can record.             *)
LEMMA DenialKeeps ==
  ASSUME IInv, NEW state \in Failures, Denied(state), pc \notin {"streaming", "end", "audit"},
         UNCHANGED <<conf, rig, calls, at, batch, draft, used, started, retried,
                     failure, cancelled, late, dispatched, recorded>>,
         turn' \in [Dims -> Nat],
         turn'["model_calls"] = 0, turn'["attachments"] = turn["attachments"],
         conf.profile # "single" => turn' = turn
  PROVE  IInv'
<1>0. TypeOK /\ Turns /\ Flow /\ Kept /\ Spent
  BY DEF IInv
<1>a. CASE ~conf.audit_sink
  <2>1. End("ProtocolFailure") /\ denied'
    BY <1>a DEF Denied
  <2>2. "ProtocolFailure" \in Failures \ Successes
    BY DEF Failures, Successes
  <2>3. /\ calls' \in Seq(CallNames) /\ at' \in Nat /\ batch' \in {batch, NoBatch}
        /\ used' \in [Dims -> Nat]
        /\ used["model_calls"] <= used'["model_calls"]
        /\ used'["model_calls"] <= conf.budget["model_calls"]
        /\ used'["attachments"] + turn'["attachments"] <= conf.budget["attachments"]
    <3>1. calls' = calls /\ at' = at /\ batch' = batch /\ used' = used
      OBVIOUS
    <3>2. used["attachments"] + turn["attachments"] <= conf.budget["attachments"]
          /\ used["model_calls"] <= conf.budget["model_calls"]
          /\ used["model_calls"] \in Nat
      BY Meters, InDims
    <3>3. turn'["attachments"] = turn["attachments"]
      OBVIOUS
    <3>4. used' \in [Dims -> Nat] /\ calls' \in Seq(CallNames) /\ at' \in Nat
      BY <3>1, Meters
    <3> QED BY <3>1, <3>2, <3>3, <3>4
  <2>4. "ProtocolFailure" # "ReadyForReview" /\ denied' \in BOOLEAN /\ recorded' \in BOOLEAN
    BY <1>0, <2>1 DEF TypeOK
  <2> QED BY <1>a, <2>1, <2>2, <2>3, <2>4, EndKeeps
<1>b. CASE conf.audit_sink
  <2>e. pc' = "audit" /\ after' = state /\ terminal' = terminal /\ denied' = TRUE
    BY <1>b DEF Denied
  <2>1. TypeOK'
    BY <1>0, <2>e DEF TypeOK, PCs
  <2>2. Turns'
    <3>1. used["model_calls"] \in Nat /\ dispatched \in Nat
      BY <1>0, InDims DEF TypeOK
    <3>2. Asking = 0 /\ Asking' = 0
      BY <2>e DEF Asking
    <3> QED BY <1>0, <2>e, <3>1, <3>2 DEF Turns
  <2>3. Flow'
    BY <1>0, <2>e DEF Flow, Early, Successes, Failures, None
  <2>4. Kept'
    BY <1>0, <2>e DEF Kept
  <2>5. Spent'
    BY <1>0, <2>e DEF Spent, Early, Covered, Clear
  <2> QED BY <2>1, <2>2, <2>3, <2>4, <2>5 DEF IInv
<1> QED BY <1>a, <1>b

-----------------------------------------------------------------------------
(* The steps that go on, one lemma each.                                   *)

(* Nothing was refused while the run works.                                *)
LEMMA Working ==
  ASSUME IInv, pc \in Early \cup {"tools"}
  PROVE  ~denied /\ terminal = None /\ batch.stopped = None /\ pc # "end"
  BY DEF IInv, Flow, Early, TypeOK

LEMMA MeterSums ==
  ASSUME IInv, NEW delta \in [Dims -> Nat]
  PROVE  /\ Plus(turn, delta) \in [Dims -> Nat]
         /\ \A x \in Dims : Plus(turn, delta)[x] = turn[x] + delta[x]
         /\ Plus(used, Plus(turn, delta)) \in [Dims -> Nat]
         /\ \A x \in Dims : Plus(used, Plus(turn, delta))[x] = used[x] + (turn[x] + delta[x])
         /\ Plus(used, turn) \in [Dims -> Nat]
         /\ \A x \in Dims : Plus(used, turn)[x] = used[x] + turn[x]
         /\ Plus(used, delta) \in [Dims -> Nat]
         /\ \A x \in Dims : Plus(used, delta)[x] = used[x] + delta[x]
         /\ \A x \in Dims : delta[x] \in Nat
<1>1. used \in [Dims -> Nat] /\ turn \in [Dims -> Nat]
  BY Meters
<1>2. Plus(turn, delta) \in [Dims -> Nat] /\ \A x \in Dims : Plus(turn, delta)[x] = turn[x] + delta[x]
  BY <1>1, PlusType
<1>3. /\ Plus(used, Plus(turn, delta)) \in [Dims -> Nat]
      /\ \A x \in Dims : Plus(used, Plus(turn, delta))[x] = used[x] + Plus(turn, delta)[x]
  BY <1>1, <1>2, PlusType
<1>4. Plus(used, turn) \in [Dims -> Nat] /\ \A x \in Dims : Plus(used, turn)[x] = used[x] + turn[x]
  BY <1>1, PlusType
<1>5. Plus(used, delta) \in [Dims -> Nat] /\ \A x \in Dims : Plus(used, delta)[x] = used[x] + delta[x]
  BY <1>1, PlusType
<1> QED BY <1>2, <1>3, <1>4, <1>5

LEMMA EnterKeeps ==
  ASSUME IInv, pc = "start", Goto("loop"),
         UNCHANGED <<conf, rig, calls, at, batch, draft, used, started, retried,
                     failure, cancelled, late, dispatched, denied, recorded>>,
         turn' \in [Dims -> Nat],
         \A x \in Dims \ {"attachments"} : turn'[x] = turn[x],
         used["attachments"] + turn'["attachments"] <= conf.budget["attachments"]
  PROVE  IInv'
<1>0. TypeOK /\ Turns /\ Flow /\ Kept /\ Spent
  BY DEF IInv
<1>e. pc' = "loop" /\ terminal' = terminal /\ after' = after
  BY DEF Goto
<1>1. TypeOK'
  BY <1>0, <1>e DEF TypeOK, PCs
<1>2. Turns'
  BY <1>0, <1>e, InDims DEF Turns, Asking
<1>3. Flow'
  BY <1>0, <1>e DEF Flow, Early
<1>4. Kept'
  BY <1>0, <1>e DEF Kept
<1>5. Spent'
  <2>1. terminal' = None /\ terminal' \notin Successes /\ rig'.phase = "call"
    BY <1>0, <1>e DEF Flow, None, Successes
  <2>2. \A x \in Dims : used[x] + turn'[x] <= conf.budget[x] \/ conf.profile = "single"
    BY <1>0 DEF Spent, Covered
  <2>3. "attachments" \in Dims /\ "candidate_count" \in Dims \ {"attachments"}
    BY DEF Dims
  <2> QED BY <1>0, <1>e, <2>1, <2>2, <2>3 DEF Spent, Covered, Early
<1> QED BY <1>1, <1>2, <1>3, <1>4, <1>5 DEF IInv

LEMMA PreflightKeeps ==
  ASSUME IInv, Preflight PROVE IInv'
<1>0. pc = "start" /\ ~denied /\ turn["attachments"] = 0
      /\ UNCHANGED <<conf, rig, calls, at, batch, draft, used, started, retried,
                     failure, cancelled, late>>
  BY Working DEF Preflight, SameBatch, SameRun, IInv, Spent, Early
<1>1. CASE Goto("loop") /\ UNCHANGED turn /\ Quiet
  BY <1>0, <1>1, Meters, EnterKeeps DEF Quiet
<1>2. CASE (\E state \in {"Cancelled", "ProtocolFailure", "BudgetExhausted"} : End(state))
           /\ UNCHANGED turn /\ Quiet
  BY <1>0, <1>2, FailureKeeps DEF Quiet, Untouched, Failures
<1>3. CASE Denied("AuthorityDenied") /\ UNCHANGED <<turn, recorded, dispatched>>
  BY <1>0, <1>3, Meters, DenialKeeps DEF Failures
<1>4. CASE /\ Fits(Usage("attachments", conf.attachments)) /\ Goto("loop")
           /\ Charge(Usage("attachments", conf.attachments)) /\ Quiet
  <2> DEFINE delta == Usage("attachments", conf.attachments)
  <2>1. delta \in [Dims -> Nat] /\ \A x \in Dims : delta[x] = IF x = "attachments" THEN conf.attachments ELSE 0
    BY InDims, CallerType, UsageType DEF IInv
  <2>2. turn' = Plus(turn, delta) /\ used["attachments"] + delta["attachments"] <= conf.budget["attachments"]
    BY <1>4, InDims DEF Charge, Fits
  <2> HIDE DEF delta
  <2>3. turn' \in [Dims -> Nat] /\ \A x \in Dims : turn'[x] = turn[x] + delta[x]
    BY <2>1, <2>2, MeterSums
  <2>4. \A x \in Dims \ {"attachments"} : turn'[x] = turn[x]
    BY <2>1, <2>3, Meters
  <2>5. turn'["attachments"] = delta["attachments"]
    BY <1>0, <2>1, <2>3, InDims, CallerType DEF IInv
  <2> QED BY <1>0, <1>4, <2>2, <2>3, <2>4, <2>5, EnterKeeps DEF Quiet
<1> QED BY <1>1, <1>2, <1>3, <1>4 DEF Preflight

LEMMA StoppedKeeps ==
  ASSUME IInv, Stopped \/ OutOfTurns \/ StreamFails \/ LoadFails PROVE IInv'
<1>1. pc \in Early
  BY DEF Stopped, OutOfTurns, StreamFails, LoadFails, Early
<1>2. \E state \in Failures : End(state)
  BY DEF Stopped, OutOfTurns, StreamFails, LoadFails, Failures
<1>3. UNCHANGED Untouched /\ denied' = denied
  BY DEF Stopped, OutOfTurns, StreamFails, LoadFails, Untouched, SameBatch, SameRun, Quiet
<1> QED BY <1>1, <1>2, <1>3, Working, FailureKeeps

LEMMA CallModelKeeps ==
  ASSUME IInv, CallModel PROVE IInv'
<1>0. TypeOK /\ Turns /\ Flow /\ Kept /\ Spent
  BY DEF IInv
<1>e. /\ pc = "loop" /\ pc' = "stream" /\ rig.turns < rig.max
      /\ rig' = [rig EXCEPT !.turns = rig.turns + 1] /\ started' = started + 1
      /\ UNCHANGED <<terminal, after, calls, at, batch, denied, recorded, dispatched, conf,
                     draft, used, turn, retried, failure, cancelled, late>>
  BY DEF CallModel, Goto, SameBatch, Quiet
<1>1. TypeOK'
  <2>1. rig \in [phase : {"call", "tools", "done"}, turns : Nat, max : Nat] /\ started \in Nat
    BY <1>0 DEF TypeOK
  <2>2. rig' \in [phase : {"call", "tools", "done"}, turns : Nat, max : Nat] /\ started' \in Nat
    BY <1>e, <2>1
  <2> QED BY <1>0, <1>e, <2>2 DEF TypeOK, PCs
<1>2. Turns'
  <2>1. rig'.turns = rig.turns + 1 /\ rig'.max = rig.max
    BY <1>0, <1>e DEF TypeOK
  <2>2. rig.turns \in Nat /\ rig.max \in Nat /\ started \in Nat /\ dispatched \in Nat
    BY <1>0 DEF TypeOK
  <2> QED BY <1>0, <1>e, <2>1, <2>2 DEF Turns, Asking
<1>3. Flow'
  BY <1>0, <1>e DEF Flow, Early
<1>4. Kept'
  BY <1>0, <1>e DEF Kept
<1>5. Spent'
  BY <1>0, <1>e DEF Spent, Covered, Early, Clear
<1> QED BY <1>1, <1>2, <1>3, <1>4, <1>5 DEF IInv

LEMMA DispatchKeeps ==
  ASSUME IInv, Dispatch PROVE IInv'
<1>0. TypeOK /\ Turns /\ Flow /\ Kept /\ Spent
  BY DEF IInv
<1>e. /\ pc = "stream" /\ pc' = "streaming" /\ dispatched' = dispatched + 1
      /\ UNCHANGED <<terminal, after, calls, at, batch, rig, started, denied, recorded, conf,
                     draft, used, turn, retried, failure, cancelled, late>>
  BY DEF Dispatch, Goto, SameBatch, SameRun
<1>1. TypeOK'
  BY <1>0, <1>e DEF TypeOK, PCs
<1>2. Turns'
  <2>1. started \in Nat /\ dispatched \in Nat /\ used["model_calls"] \in Nat
    BY <1>0, InDims DEF TypeOK
  <2> QED BY <1>0, <1>e, <2>1 DEF Turns, Asking
<1>3. Flow'
  BY <1>0, <1>e DEF Flow, Early
<1>4. Kept'
  BY <1>0, <1>e DEF Kept
<1>5. Spent'
  BY <1>0, <1>e DEF Spent, Covered, Early, Clear
<1> QED BY <1>1, <1>2, <1>3, <1>4, <1>5 DEF IInv

LEMMA TurnKeeps ==
  ASSUME IInv, NEW b \in Batches[conf.profile], NEW tokens \in 0 .. MaxAmount,
         TurnCompletes(b, tokens)
  PROVE  IInv'
<1> DEFINE delta == [Usage("model_calls", 1) EXCEPT !["input_tokens"] = tokens]
<1>0. TypeOK /\ Turns /\ Flow /\ Kept /\ Spent
  BY DEF IInv
<1>d. /\ delta \in [Dims -> Nat] /\ delta["model_calls"] = 1 /\ delta["attachments"] = 0
      /\ tokens \in Nat
  BY InDims, TwoUsages, RunAssumption
<1>b. b \in Seq(CallNames)
  BY <1>0, CallerType, RunAssumption
<1>p. pc = "streaming" /\ pc \in Early /\ ~denied
  BY Working DEF TurnCompletes, Early
<1>m. CASE ~Fits(delta) /\ End("BudgetExhausted") /\ UNCHANGED <<used, turn, rig, calls, at, batch>>
  <2>1. UNCHANGED Untouched /\ denied' = denied
    BY <1>m DEF TurnCompletes, Untouched, Quiet
  <2> QED BY <1>m, <1>p, <2>1, FailureKeeps DEF Failures
<1>n. CASE /\ Fits(delta) /\ Goto("loop")
           /\ used' = Plus(used, Plus(turn, delta)) /\ turn' = NoUsage
           /\ rig' = [rig EXCEPT !.phase = IF b = <<>> THEN "done" ELSE "tools"]
           /\ calls' = b /\ at' = 1 /\ batch' = NoBatch
  <2>e. /\ pc' = "loop" /\ rig' = [rig EXCEPT !.phase = IF b = <<>> THEN "done" ELSE "tools"]
        /\ calls' = b /\ at' = 1 /\ batch' = NoBatch /\ turn' = NoUsage
        /\ UNCHANGED <<terminal, after, started, denied, recorded, dispatched, conf,
                       draft, retried, failure, cancelled, late>>
    BY <1>n DEF TurnCompletes, Goto, Quiet
  <2>f. \A x \in Dims : used[x] + delta[x] <= conf.budget[x]
    BY <1>n DEF Fits
  <2>u. /\ used' \in [Dims -> Nat] /\ \A x \in Dims : used'[x] = used[x] + (turn[x] + delta[x])
        /\ \A x \in Dims : delta[x] \in Nat
    BY <1>n, <1>d, MeterSums
  <2> HIDE DEF delta
  <2>1. TypeOK'
    BY <1>0, <1>b, <2>e, <2>u, NoUsageType, NoBatchType DEF TypeOK, PCs
  <2>w. \A x \in Dims : used'[x] <= conf.budget[x]
    <3>1. ASSUME NEW x \in Dims, x # "attachments" PROVE used'[x] <= conf.budget[x]
      <4>1. turn[x] = 0
        BY <1>0, <1>p, <3>1 DEF Spent
      <4>2. used'[x] = used[x] + (turn[x] + delta[x]) /\ used[x] + delta[x] <= conf.budget[x]
            /\ delta[x] \in Nat
        BY <2>f, <2>u
      <4>3. used[x] \in Nat
        BY Amounts
      <4> QED BY <4>1, <4>2, <4>3
    <3>2. used'["attachments"] <= conf.budget["attachments"]
      <4>1. used'["attachments"] = used["attachments"] + (turn["attachments"] + 0)
        BY <1>d, <2>u, InDims
      <4>2. used["attachments"] + turn["attachments"] <= conf.budget["attachments"]
        BY <1>0 DEF Spent, Covered
      <4>3. turn["attachments"] \in Nat /\ used["attachments"] \in Nat
        BY Amounts, InDims
      <4> QED BY <4>1, <4>2, <4>3
    <3> QED BY <3>1, <3>2
  <2>2. Turns'
    <3>1. used'["model_calls"] = used["model_calls"] + 1
      BY <1>0, <1>d, <2>u, InDims, Meters DEF Turns
    <3>2. dispatched <= used["model_calls"] + 1 /\ dispatched <= started
      BY <1>0, <1>p DEF Turns, Asking
    <3>3. rig'.turns = rig.turns /\ rig'.max = rig.max
      BY <1>0, <2>e DEF TypeOK
    <3>4. turn'["model_calls"] = 0 /\ Asking' = 0
      BY <2>e, NoUsageType, InDims DEF Asking
    <3>5. dispatched \in Nat /\ used["model_calls"] \in Nat
      BY <1>0, Meters, InDims DEF TypeOK
    <3> QED BY <1>0, <2>e, <2>w, <3>1, <3>2, <3>3, <3>4, <3>5, InDims DEF Turns
  <2>3. Flow'
    BY <1>0, <2>e, <1>p, NoBatchType DEF Flow, Early
  <2>4. Kept'
    BY <1>0, <2>e, NoBatchType DEF Kept, None
  <2>5. Spent'
    <3>1. \A x \in Dims : turn'[x] = 0 /\ (used'[x] + turn'[x] <= conf.budget[x])
      BY <2>e, <2>u, <2>w, NoUsageType
    <3> QED BY <2>e, <2>w, <3>1, InDims DEF Spent, Covered, Early, Clear
  <2> QED BY <2>1, <2>2, <2>3, <2>4, <2>5 DEF IInv
<1> QED BY <1>m, <1>n DEF TurnCompletes

LEMMA OverflowKeeps ==
  ASSUME IInv, Overflow PROVE IInv'
<1>0. TypeOK /\ Turns /\ Flow /\ Kept /\ Spent
  BY DEF IInv
<1> DEFINE one == Usage("model_calls", 1)
<1>d. one \in [Dims -> Nat] /\ \A x \in Dims : one[x] = IF x = "model_calls" THEN 1 ELSE 0
  BY InDims, UsageType
<1>p. pc = "streaming" /\ pc \in Early /\ ~denied
  BY Working DEF Overflow, Early
<1>e. UNCHANGED <<rig, calls, at, batch, started, denied, recorded, dispatched, conf,
                  draft, turn, retried, failure, cancelled, late>>
  BY DEF Overflow, SameBatch, SameRun, Quiet
<1>m. CASE OverflowRefused /\ UNCHANGED used
  <2>1. \E state \in Failures : End(state)
    BY <1>m DEF OverflowRefused, Failures
  <2> QED BY <1>m, <1>p, <1>e, <2>1, FailureKeeps DEF Untouched
<1>n. CASE /\ Fits(one) /\ used' = Plus(used, one)
           /\ IF cancelled THEN End("Cancelled") ELSE Goto("load")
  <2>f. \A x \in Dims : used[x] + one[x] <= conf.budget[x]
    BY <1>n DEF Fits
  <2>u. used' \in [Dims -> Nat] /\ \A x \in Dims : used'[x] = used[x] + one[x]
    BY <1>n, <1>d, MeterSums
  <2> HIDE DEF one
  <2>v. /\ used'["model_calls"] = used["model_calls"] + 1
        /\ used'["model_calls"] <= conf.budget["model_calls"]
        /\ used'["attachments"] + turn'["attachments"] <= conf.budget["attachments"]
        /\ \A x \in Dims \ {"model_calls"} : used'[x] = used[x]
    <3>1. \A x \in Dims : used[x] \in Nat /\ turn[x] \in Nat
      BY Amounts
    <3>2. \A x \in Dims \ {"model_calls"} : used'[x] = used[x]
      BY <1>d, <2>u, <3>1
    <3>3. used'["model_calls"] = used["model_calls"] + 1
          /\ used'["model_calls"] <= conf.budget["model_calls"]
      BY <1>d, <2>f, <2>u, InDims
    <3>4. used'["attachments"] = used["attachments"]
      BY <3>2 DEF Dims
    <3>5. used["attachments"] + turn["attachments"] <= conf.budget["attachments"]
      BY <1>0 DEF Spent, Covered
    <3> QED BY <1>e, <3>2, <3>3, <3>4, <3>5
  <2>m. CASE End("Cancelled")
    <3>1. "Cancelled" \in Failures \ Successes
      BY DEF Failures, Successes
    <3>2. /\ calls' \in Seq(CallNames) /\ at' \in Nat /\ batch' \in {batch, NoBatch}
          /\ turn' \in [Dims -> Nat] /\ used["model_calls"] <= used'["model_calls"]
          /\ turn'["model_calls"] = 0 /\ denied' \in BOOLEAN /\ ~denied' /\ recorded' \in BOOLEAN
      <4>1. used["model_calls"] <= used'["model_calls"]
        BY <2>v, Amounts, InDims
      <4>2. turn'["model_calls"] = 0 /\ turn' \in [Dims -> Nat]
        BY <1>0, <1>e DEF Turns, TypeOK
      <4> QED BY <1>0, <1>p, <1>e, <4>1, <4>2 DEF TypeOK
    <3> QED BY <1>p, <1>e, <2>m, <2>u, <2>v, <3>1, <3>2, EndKeeps
  <2>n. CASE Goto("load")
    <3>e. pc' = "load" /\ terminal' = terminal /\ after' = after
      BY <2>n DEF Goto
    <3>1. TypeOK'
      BY <1>0, <1>e, <3>e, <2>u DEF TypeOK, PCs
    <3>2. Turns'
      <4>1. dispatched \in Nat /\ used["model_calls"] \in Nat
        BY <1>0, Meters, InDims DEF TypeOK
      <4> QED BY <1>0, <1>p, <1>e, <3>e, <2>v, <4>1 DEF Turns, Asking
    <3>3. Flow'
      BY <1>0, <1>p, <1>e, <3>e DEF Flow, Early
    <3>4. Kept'
      BY <1>0, <1>e, <3>e DEF Kept
    <3>5. Spent'
      <4>1. \A x \in Dims \ {"attachments"} : turn[x] = 0
        BY <1>0, <1>p DEF Spent
      <4>2. \A x \in Dims : used'[x] + turn'[x] <= conf.budget[x]
        <5>1. ASSUME NEW x \in Dims, x # "attachments" PROVE used'[x] + turn'[x] <= conf.budget[x]
          <6>1. used'[x] = used[x] + one[x] /\ used[x] + one[x] <= conf.budget[x]
            BY <2>f, <2>u
          <6>2. turn'[x] = 0 /\ used'[x] \in Nat
            BY <1>e, <2>u, <4>1, <5>1
          <6> QED BY <6>1, <6>2
        <5> QED BY <2>v, <5>1
      <4>3. terminal' \notin Successes
        BY <1>0, <1>p, <3>e DEF Flow, Early, None, Successes
      <4>4. turn'["candidate_count"] = 0
        BY <1>e, <4>1 DEF Dims
      <4> QED BY <1>0, <1>e, <3>e, <4>1, <4>2, <4>3, <4>4, InDims DEF Spent, Covered, Early
    <3> QED BY <3>1, <3>2, <3>3, <3>4, <3>5 DEF IInv
  <2> QED BY <1>n, <2>m, <2>n
<1> QED BY <1>m, <1>n DEF Overflow

(* Steps that change neither the meters nor the rig's turns, and spend     *)
(* nothing: the dispatches stay accounted for.                             *)
LEMMA TurnsStay ==
  ASSUME IInv, UNCHANGED <<conf, started, dispatched, used>>, turn'["model_calls"] = turn["model_calls"],
         rig'.turns = rig.turns, rig'.max = rig.max,
         pc \notin {"streaming", "end"}, pc' # "stream"
  PROVE  Turns'
<1>1. Turns /\ Asking = 0 /\ Asking' \in {0, 1}
  BY DEF IInv, Asking
<1>2. dispatched \in Nat /\ used["model_calls"] \in Nat
  BY Amounts, InDims DEF IInv, TypeOK
<1> QED BY <1>1, <1>2 DEF Turns

LEMMA RestartKeeps ==
  ASSUME IInv, Restart PROVE IInv'
<1>0. TypeOK /\ Turns /\ Flow /\ Kept /\ Spent
  BY DEF IInv
<1>e. /\ pc = "load" /\ pc \in Early /\ pc' = "loop" /\ rig' = NewRig(MaxTurns - started)
      /\ retried' = TRUE /\ used' = Plus(used, turn) /\ turn' = NoUsage
      /\ UNCHANGED <<terminal, after, calls, at, batch, started, denied, recorded, dispatched,
                     conf, draft, failure, cancelled, late>>
  BY DEF Restart, ApplyTurn, Goto, SameBatch, Quiet, Early
<1>p. ~denied /\ terminal = None
  BY <1>e, Working
<1>u. used' \in [Dims -> Nat] /\ \A x \in Dims : used'[x] = used[x] + turn[x]
  BY <1>e, Meters, PlusType
<1>r. /\ rig' = [phase |-> "call", turns |-> 0, max |-> MaxTurns - started]
      /\ MaxTurns - started \in Nat
  <2>1. rig.turns \in Nat /\ rig.max \in Nat /\ started \in Nat /\ MaxTurns \in Nat
    BY <1>0, RunAssumption DEF TypeOK
  <2>2. MaxTurns - started \in Nat
    BY <1>0, <2>1 DEF Turns
  <2> QED BY <1>e, <2>2 DEF NewRig
<1>z. \A x \in Dims : turn'[x] = 0
  BY <1>e, NoUsageType
<1>1. TypeOK'
  <2>1. rig' \in [phase : {"call", "tools", "done"}, turns : Nat, max : Nat]
    BY <1>r
  <2> QED BY <1>0, <1>e, <1>u, <2>1, NoUsageType DEF TypeOK, PCs
<1>2. Turns'
  <2>1. used'["model_calls"] = used["model_calls"]
    BY <1>0, <1>u, Amounts, InDims DEF Turns
  <2>2. started + (rig'.max - rig'.turns) = MaxTurns /\ rig'.turns <= rig'.max
    BY <1>0, <1>r, RunAssumption DEF TypeOK
  <2>3. Asking = 0 /\ Asking' = 0
    BY <1>e DEF Asking
  <2> QED BY <1>0, <1>e, <1>z, <2>1, <2>2, <2>3, InDims DEF Turns
<1>3. Flow'
  BY <1>0, <1>e, <1>p DEF Flow, Early
<1>4. Kept'
  BY <1>0, <1>e DEF Kept
<1>5. Spent'
  <2>1. used'["attachments"] + turn'["attachments"] <= conf.budget["attachments"]
    <3>1. used["attachments"] + turn["attachments"] <= conf.budget["attachments"]
      BY <1>0 DEF Spent, Covered
    <3> QED BY <1>u, <1>z, <3>1, Amounts, InDims
  <2>2. ASSUME conf.profile # "single"
        PROVE  \A x \in Dims : used'[x] + turn'[x] <= conf.budget[x]
    <3>1. ASSUME NEW x \in Dims PROVE used'[x] + turn'[x] <= conf.budget[x]
      <4>1. used[x] + turn[x] <= conf.budget[x]
        BY <1>0, <1>e, <2>2 DEF Spent, Covered
      <4> QED BY <1>u, <1>z, <4>1, Amounts
    <3> QED BY <3>1
  <2>3. terminal' \notin Successes /\ rig'.phase = "call"
    BY <1>e, <1>p, <1>r DEF None, Successes
  <2> QED BY <1>e, <1>z, <2>1, <2>2, <2>3, InDims DEF Spent, Covered, Early
<1> QED BY <1>1, <1>2, <1>3, <1>4, <1>5 DEF IInv

(* The tool turn of the redaction and visual runs begins: what it asks for *)
(* fits what is left.                                                      *)
LEMMA ChargeKeeps ==
  ASSUME IInv, NEW delta \in [Dims -> Nat], Fits(delta), Charge(delta), Goto("tools"), pc = "loop",
         conf.profile # "single",
         delta["model_calls"] = 0, delta["attachments"] = 0, delta["candidate_count"] = 0,
         UNCHANGED <<conf, rig, calls, at, batch, draft, used, started, retried, failure,
                     cancelled, late, dispatched, denied, recorded>>
  PROVE  IInv'
<1>0. TypeOK /\ Turns /\ Flow /\ Kept /\ Spent
  BY DEF IInv
<1>e. pc' = "tools" /\ terminal' = terminal /\ after' = after /\ pc \in Early
  BY DEF Goto, Early
<1>p. ~denied /\ terminal = None /\ batch.stopped = None
  BY <1>e, Working
<1>u. /\ turn' \in [Dims -> Nat] /\ \A x \in Dims : turn'[x] = turn[x] + delta[x]
      /\ \A x \in Dims : delta[x] \in Nat
  BY MeterSums DEF Charge
<1>f. \A x \in Dims : used[x] + delta[x] <= conf.budget[x]
  BY DEF Fits
<1>1. TypeOK'
  BY <1>0, <1>e, <1>u DEF TypeOK, PCs
<1>2. Turns'
  <2>1. turn'["model_calls"] = turn["model_calls"]
    BY <1>u, Amounts, InDims
  <2> QED BY <1>e, <2>1, TurnsStay
<1>3. Flow'
  BY <1>0, <1>e, <1>p DEF Flow, Early
<1>4. Kept'
  BY <1>0, <1>e DEF Kept
<1>5. Spent'
  <2>1. \A x \in Dims \ {"attachments"} : turn[x] = 0
    BY <1>0, <1>e DEF Spent
  <2>2. turn'["attachments"] = turn["attachments"] /\ turn'["candidate_count"] = 0
    <3>1. turn["candidate_count"] = 0
      BY <2>1 DEF Dims
    <3> QED BY <1>u, <3>1, Amounts, InDims
  <2>3. used["attachments"] + turn["attachments"] <= conf.budget["attachments"]
    BY <1>0 DEF Spent, Covered
  <2>4. ASSUME NEW x \in Dims, x # "attachments" PROVE used[x] + turn'[x] <= conf.budget[x]
    <3>1. turn[x] = 0
      BY <2>1, <2>4
    <3>2. turn'[x] = turn[x] + delta[x] /\ delta[x] \in Nat /\ used[x] + delta[x] <= conf.budget[x]
      BY <1>u, <1>f
    <3> QED BY <3>1, <3>2
  <2>5. \A x \in Dims : used'[x] + turn'[x] <= conf.budget[x]
    BY <2>2, <2>3, <2>4
  <2>6. terminal' \notin Successes
    BY <1>e, <1>p DEF None, Successes
  <2> QED BY <1>e, <2>2, <2>5, <2>6, InDims DEF Spent, Covered, Early
<1> QED BY <1>1, <1>2, <1>3, <1>4, <1>5 DEF IInv

LEMMA BeginToolsKeeps ==
  ASSUME IInv, BeginTools PROVE IInv'
<1>e. /\ pc = "loop" /\ pc \in Early /\ conf.profile = "redaction"
      /\ UNCHANGED <<conf, rig, calls, at, batch, draft, used, started, retried, failure,
                     cancelled, late, dispatched, denied, recorded>>
  BY DEF BeginTools, SameBatch, SameRun, Quiet, Early
<1>1. CASE End("BudgetExhausted") /\ UNCHANGED turn
  BY <1>e, <1>1, FailureKeeps DEF Untouched, Failures
<1>2. CASE Fits(BatchUsage) /\ Goto("tools") /\ Charge(BatchUsage)
  <2>1. /\ BatchUsage \in [Dims -> Nat]
        /\ \A x \in Dims \ {"tool_calls", "dry_run_attempts"} : BatchUsage[x] = 0
    BY BatchUsageType DEF IInv
  <2>2. BatchUsage["model_calls"] = 0 /\ BatchUsage["attachments"] = 0
        /\ BatchUsage["candidate_count"] = 0
    BY <2>1 DEF Dims
  <2> QED BY <1>e, <1>2, <2>1, <2>2, ChargeKeeps
<1> QED BY <1>1, <1>2 DEF BeginTools

LEMMA VisualToolsKeeps ==
  ASSUME IInv, VisualTools PROVE IInv'
<1>e. /\ pc = "loop" /\ pc \in Early /\ conf.profile = "visual"
      /\ UNCHANGED <<conf, rig, calls, at, batch, draft, used, started, retried, failure,
                     cancelled, late>>
  BY DEF VisualTools, SameBatch, SameRun, Early
<1>1. CASE Denied("AuthorityDenied") /\ UNCHANGED <<turn, recorded, dispatched>>
  BY <1>e, <1>1, Meters, DenialKeeps DEF Failures
<1>2. CASE /\ \E state \in {"ProtocolFailure", "BudgetExhausted"} : End(state)
           /\ UNCHANGED turn /\ Quiet
  BY <1>e, <1>2, Working, FailureKeeps DEF Quiet, Untouched, Failures
<1>3. CASE /\ Fits(Usage("tool_calls", 1)) /\ Charge(Usage("tool_calls", 1))
           /\ Goto("tools") /\ Quiet
  <2>1. PICK delta \in [Dims -> Nat] :
           /\ delta = Usage("tool_calls", 1)
           /\ \A x \in Dims : delta[x] = IF x = "tool_calls" THEN 1 ELSE 0
    BY InDims, UsageType
  <2>2. delta["model_calls"] = 0 /\ delta["attachments"] = 0 /\ delta["candidate_count"] = 0
    BY <2>1, InDims
  <2> QED BY <1>e, <1>3, <2>1, <2>2, ChargeKeeps DEF Quiet
<1> QED BY <1>1, <1>2, <1>3 DEF VisualTools

(* A call of the redaction run that enters no body, or one with a sound    *)
(* outcome.                                                                *)
LEMMA CallRefusedKeeps ==
  ASSUME IInv, CallRefused PROVE IInv'
<1>0. TypeOK /\ Turns /\ Flow /\ Kept /\ Spent
  BY DEF IInv
<1>e. /\ pc = "tools" /\ pc' = "results" /\ conf.profile = "redaction"
      /\ \/ batch' = [batch EXCEPT !.stopped = "error"] /\ denied' = denied
         \/ batch' = [batch EXCEPT !.stopped = "denied"] /\ denied' = TRUE
      /\ UNCHANGED <<terminal, after, conf, rig, calls, at, draft, used, turn, started, retried,
                     failure, cancelled, late, dispatched, recorded>>
  BY DEF CallRefused, Goto, SameRun
<1>p. ~denied /\ terminal = None
  BY <1>e, Working
<1>b. /\ batch' \in [stopped : {None, "error", "denied", "submitted", "asked"},
                     candidate_count : Nat, successes : Nat]
      /\ \/ batch'.stopped = "error" /\ denied' = denied
         \/ batch'.stopped = "denied" /\ denied' = TRUE
  BY <1>0, <1>e DEF TypeOK
<1>1. TypeOK'
  BY <1>0, <1>e, <1>b, ZenonT(60) DEF TypeOK, PCs
<1>2. Turns'
  BY <1>e, TurnsStay
<1>3. Flow'
  BY <1>0, <1>e, <1>b, <1>p DEF Flow, Early, None, Successes
<1>4. Kept'
  BY <1>0, <1>e, <1>b DEF Kept
<1>5. Spent'
  BY <1>0, <1>e DEF Spent, Covered, Early, Clear
<1> QED BY <1>1, <1>2, <1>3, <1>4, <1>5 DEF IInv

LEMMA ExecuteKeeps ==
  ASSUME IInv, NEW name, NEW o, Sound(name, o), Execute(name, o)
  PROVE  IInv'
<1>0. TypeOK /\ Turns /\ Flow /\ Kept /\ Spent
  BY DEF IInv
<1>e. /\ pc = "tools" /\ conf.profile = "redaction" /\ draft' = o.draft
      /\ UNCHANGED <<terminal, after, conf, rig, calls, used, turn, started, retried,
                     cancelled, late, dispatched, denied, recorded>>
  BY DEF Execute, Accept, ResultTooLarge, MayEnter, Goto, SameRun, Quiet
<1>p. ~denied /\ terminal = None /\ batch.stopped = None
  BY <1>e, Working
<1>b. /\ pc' \in {"results", "tools"} /\ at' \in Nat
      /\ batch' \in [stopped : {None, "error", "denied", "submitted", "asked"},
                     candidate_count : Nat, successes : Nat]
      /\ failure' \in {None, "SourceValidationFailure", "RuntimeFailure"}
      /\ batch'.stopped # None => pc' = "results"
      /\ batch'.stopped = "submitted" => HandsOver(draft')
  <2>0. /\ batch \in [stopped : {None, "error", "denied", "submitted", "asked"},
                      candidate_count : Nat, successes : Nat]
        /\ at \in Nat /\ failure \in {None, "SourceValidationFailure", "RuntimeFailure"}
    BY <1>0 DEF TypeOK
  <2>1. CASE ResultTooLarge(name, o)
    <3>1. /\ batch' = [batch EXCEPT !.stopped = "error"] /\ pc' = "results"
          /\ at' = at /\ failure' = failure
      BY <2>1 DEF ResultTooLarge, Goto, SameRun
    <3> QED BY <2>0, <3>1
  <2>2. CASE Accept(name, o)
    <3> DEFINE ok == o.kind = "success"
               stop == CASE ok /\ name = "submit_for_review" -> "submitted"
                         [] ok /\ name = "request_user_input" -> "asked"
                         [] OTHER -> None
    <3>1. /\ batch' = [stopped |-> stop,
                       candidate_count |-> batch.candidate_count + o.candidate_count,
                       successes |-> IF ok THEN batch.successes + 1 ELSE batch.successes]
          /\ failure' \in {failure, "SourceValidationFailure", "RuntimeFailure"}
          /\ \/ pc' = "results" /\ at' = at
             \/ stop = None /\ pc' = "tools" /\ at' = at + 1
      BY <2>2 DEF Accept, Goto
    <3>2. /\ stop \in {None, "submitted", "asked"}
          /\ stop = "submitted" => ok /\ name = "submit_for_review"
      BY DEF None
    <3>3. o.candidate_count \in Nat
      BY DEF Sound
    <3>4. stop = "submitted" => HandsOver(draft')
      BY <1>e, <3>2 DEF Sound
    <3> HIDE DEF ok, stop
    <3>5. batch' \in [stopped : {None, "error", "denied", "submitted", "asked"},
                      candidate_count : Nat, successes : Nat] /\ batch'.stopped = stop
      BY <2>0, <3>1, <3>2, <3>3
    <3> QED BY <2>0, <3>1, <3>4, <3>5
  <2> QED BY <2>1, <2>2 DEF Execute
<1>1. TypeOK'
  BY <1>0, <1>e, <1>b DEF TypeOK, PCs, Sound
<1>2. Turns'
  BY <1>e, <1>b, TurnsStay
<1>3. Flow'
  BY <1>0, <1>e, <1>b, <1>p DEF Flow, Early
<1>4. Kept'
  BY <1>e, <1>b, <1>p DEF Kept, Sound, None
<1>5. Spent'
  BY <1>0, <1>e, <1>b, <1>p DEF Spent, Covered, Early, Clear, None, Successes
<1> QED BY <1>1, <1>2, <1>3, <1>4, <1>5 DEF IInv

-----------------------------------------------------------------------------
(* The results of a batch.                                                 *)
LEMMA ResultsFailKeep ==
  ASSUME IInv, ResultsTooLarge \/ ResultsFail PROVE IInv'
<1>e. /\ pc = "results"
      /\ UNCHANGED <<conf, rig, calls, at, batch, draft, used, turn, started, retried, failure,
                     cancelled, late, dispatched, recorded>>
  BY DEF ResultsTooLarge, ResultsFail, SameBatch, SameRun, Quiet
<1>1. CASE End("BudgetExhausted") /\ UNCHANGED denied
  BY <1>e, <1>1, FailureKeeps DEF Untouched, Failures
<1>2. CASE batch.stopped = "error" /\ End("ProtocolFailure") /\ UNCHANGED denied
  <2>1. ~denied
    BY <1>e, <1>2 DEF IInv, Flow
  <2> QED BY <1>e, <1>2, <2>1, FailureKeeps DEF Untouched, Failures
<1>3. CASE Denied("ProtocolFailure")
  BY <1>e, <1>3, Meters, DenialKeeps DEF Failures
<1> QED BY <1>1, <1>2, <1>3 DEF ResultsTooLarge, ResultsFail, Quiet

LEMMA ResultsTakenKeep ==
  ASSUME IInv, ResultsTaken PROVE IInv'
<1> DEFINE delta == Usage("candidate_count", batch.candidate_count)
<1>0. TypeOK /\ Turns /\ Flow /\ Kept /\ Spent
  BY DEF IInv
<1>e. /\ pc = "results" /\ conf.profile = "redaction"
      /\ batch.stopped \in {None, "submitted", "asked"}
      /\ calls' = <<>> /\ at' = 1 /\ batch' = NoBatch
      /\ UNCHANGED <<conf, draft, started, retried, failure, cancelled, late, dispatched,
                     denied, recorded>>
  BY <1>0 DEF ResultsTaken, Quiet, Flow
<1>p. ~denied /\ terminal = None
  BY <1>0, <1>e DEF Flow, None
<1>s. calls' \in Seq(CallNames) /\ at' \in Nat /\ batch' \in {batch, NoBatch}
  BY <1>e
<1>d. /\ delta \in [Dims -> Nat]
      /\ \A x \in Dims : delta[x] = 0 \/ x = "candidate_count"
  <2>1. batch.candidate_count \in Nat
    BY <1>0 DEF TypeOK
  <2>2. /\ Usage("candidate_count", batch.candidate_count) \in [Dims -> Nat]
        /\ \A x \in Dims : Usage("candidate_count", batch.candidate_count)[x] =
              IF x = "candidate_count" THEN batch.candidate_count ELSE 0
    BY <2>1, InDims, UsageType
  <2> QED BY <2>2
<1>n. denied' \in BOOLEAN /\ ~denied' /\ recorded' \in BOOLEAN
  BY <1>0, <1>e, <1>p DEF TypeOK
<1>a. CASE ~Fits(delta) /\ End("BudgetExhausted") /\ UNCHANGED <<used, turn, rig>>
  <2>1. "BudgetExhausted" \in Failures \ Successes
    BY DEF Failures, Successes
  <2>2. /\ used' \in [Dims -> Nat] /\ turn' \in [Dims -> Nat]
        /\ used["model_calls"] <= used'["model_calls"]
        /\ used'["model_calls"] <= conf.budget["model_calls"]
        /\ turn'["model_calls"] = 0
        /\ used'["attachments"] + turn'["attachments"] <= conf.budget["attachments"]
    <3>1. used["model_calls"] \in Nat
      BY Amounts, InDims
    <3> QED BY <1>a, <3>1, Meters
  <2> QED BY <1>e, <1>s, <1>n, <1>a, <2>1, <2>2, EndKeeps
<1>b. CASE Fits(delta) /\ used' = Plus(used, Plus(turn, delta)) /\ turn' = NoUsage
  <2>f. \A x \in Dims : used[x] + delta[x] <= conf.budget[x]
    BY <1>b DEF Fits
  <2>u. /\ used' \in [Dims -> Nat] /\ \A x \in Dims : used'[x] = used[x] + (turn[x] + delta[x])
        /\ \A x \in Dims : delta[x] \in Nat
    BY <1>b, <1>d, MeterSums
  <2>z. turn' \in [Dims -> Nat] /\ \A x \in Dims : turn'[x] = 0
    BY <1>b, NoUsageType
  <2> HIDE DEF delta
  <2>c. turn["candidate_count"] = 0 /\ \A x \in Dims : used[x] + turn[x] <= conf.budget[x]
    BY <1>0, <1>e DEF Spent, Covered
  <2>w. ASSUME NEW x \in Dims PROVE used'[x] <= conf.budget[x] /\ used[x] <= used'[x]
    <3>1. used[x] \in Nat /\ turn[x] \in Nat /\ delta[x] \in Nat
      BY <2>u, Amounts
    <3>2. used'[x] = used[x] + (turn[x] + delta[x])
      BY <2>u
    <3>3. CASE delta[x] = 0
      BY <2>c, <3>1, <3>2, <3>3
    <3>4. CASE turn[x] = 0
      BY <2>f, <3>1, <3>2, <3>4
    <3> QED BY <1>d, <2>c, <3>3, <3>4
  <2>m. used'["model_calls"] = used["model_calls"]
    <3>1. delta["model_calls"] = 0 /\ turn["model_calls"] = 0
      BY <1>0, <1>d, InDims DEF Turns
    <3> QED BY <2>u, <3>1, Amounts, InDims
  <2>v. /\ used["model_calls"] <= used'["model_calls"]
        /\ used'["model_calls"] <= conf.budget["model_calls"]
        /\ turn'["model_calls"] = 0
        /\ used'["attachments"] + turn'["attachments"] <= conf.budget["attachments"]
    <3>1. used'["attachments"] <= conf.budget["attachments"] /\ used'["attachments"] \in Nat
      BY <2>u, <2>w, InDims
    <3>2. turn'["attachments"] = 0 /\ turn'["model_calls"] = 0
      BY <2>z, InDims
    <3> QED BY <2>w, <3>1, <3>2, InDims
  <2>1. CASE /\ UNCHANGED rig
             /\ \E state \in {"NeedsUserInput", "ReadyForReview", "BudgetExhausted", "RuntimeFailure"} :
                   End(state) /\ (state = "ReadyForReview" => HandsOver(draft))
    <3>1. PICK state \in Successes \cup Failures :
             End(state) /\ (state = "ReadyForReview" => HandsOver(draft))
      BY <2>1 DEF Successes, Failures
    <3>2. \A x \in Dims : used'[x] <= conf.budget[x]
      BY <2>w
    <3>3. UNCHANGED <<conf, rig, draft, started, retried, failure, cancelled, late, dispatched>>
          /\ pc # "end"
      BY <1>e, <2>1
    <3> QED BY <1>s, <1>n, <2>u, <2>z, <2>v, <3>1, <3>2, <3>3, EndKeeps
  <2>2. CASE Goto("loop") /\ rig' = [rig EXCEPT !.phase = "call"]
    <3>e. pc' = "loop" /\ terminal' = terminal /\ after' = after
      BY <2>2 DEF Goto
    <3>r. /\ rig' \in [phase : {"call", "tools", "done"}, turns : Nat, max : Nat]
          /\ rig'.turns = rig.turns /\ rig'.max = rig.max /\ rig'.phase = "call"
      BY <1>0, <2>2 DEF TypeOK
    <3>1. TypeOK'
      BY <1>0, <1>e, <1>s, <2>u, <2>z, <3>e, <3>r, NoBatchType DEF TypeOK, PCs
    <3>2. Turns'
      <4>1. Asking = 0 /\ Asking' = 0
        BY <1>e, <3>e DEF Asking
      <4> QED BY <1>0, <1>e, <2>m, <2>v, <3>e, <3>r, <4>1 DEF Turns
    <3>3. Flow'
      BY <1>0, <1>e, <1>p, <3>e, NoBatchType DEF Flow, Early
    <3>4. Kept'
      BY <1>0, <1>e, <3>e, NoBatchType DEF Kept, None
    <3>5. Spent'
      <4>1. \A x \in Dims : used'[x] + turn'[x] <= conf.budget[x]
        BY <2>u, <2>w, <2>z
      <4>2. terminal' \notin Successes
        BY <1>p, <3>e DEF None, Successes
      <4> QED BY <1>e, <2>z, <3>e, <4>1, <4>2, InDims DEF Spent, Covered, Early
    <3> QED BY <3>1, <3>2, <3>3, <3>4, <3>5 DEF IInv
  <2> QED BY <1>b, <1>e, <2>1, <2>2, <1>a DEF ResultsTaken, HandsOver
<1> QED BY <1>a, <1>b DEF ResultsTaken

-----------------------------------------------------------------------------
(* The visual and single-submit runs.                                      *)
LEMMA VisualSubmitKeeps ==
  ASSUME IInv, VisualSubmit PROVE IInv'
<1>0. TypeOK /\ Turns /\ Flow /\ Kept /\ Spent
  BY DEF IInv
<1>e. /\ pc = "tools" /\ conf.profile = "visual"
      /\ UNCHANGED <<conf, rig, calls, at, batch, draft, started, retried, failure, cancelled,
                     late, dispatched, denied, recorded>>
  BY DEF VisualSubmit, SameBatch, SameRun, Quiet
<1>p. ~denied /\ denied' \in BOOLEAN /\ ~denied' /\ recorded' \in BOOLEAN
  BY <1>0, <1>e, Working DEF TypeOK
<1>1. CASE End("ProtocolFailure") /\ UNCHANGED <<used, turn>>
  BY <1>e, <1>p, <1>1, FailureKeeps DEF Untouched, Failures
<1>2. CASE End("Submitted") /\ ApplyTurn
  <2>1. \A x \in Dims : used[x] + turn[x] <= conf.budget[x]
    BY <1>0, <1>e DEF Spent, Covered
  <2>2. used' \in [Dims -> Nat] /\ \A x \in Dims : used'[x] = used[x] + turn[x]
    BY <1>2, Meters, PlusType DEF ApplyTurn
  <2>3. turn' \in [Dims -> Nat] /\ \A x \in Dims : turn'[x] = 0
    BY <1>2, NoUsageType DEF ApplyTurn
  <2>4. \A x \in Dims : used'[x] <= conf.budget[x]
    BY <2>1, <2>2
  <2>5. /\ used["model_calls"] <= used'["model_calls"]
        /\ used'["model_calls"] <= conf.budget["model_calls"]
        /\ turn'["model_calls"] = 0
        /\ used'["attachments"] + turn'["attachments"] <= conf.budget["attachments"]
    <3>1. /\ used'["model_calls"] = used["model_calls"] + turn["model_calls"]
          /\ used["model_calls"] \in Nat /\ turn["model_calls"] \in Nat
      BY <2>2, Amounts, InDims
    <3>2. turn'["attachments"] = 0 /\ turn'["model_calls"] = 0 /\ used'["attachments"] \in Nat
      BY <2>2, <2>3, InDims
    <3> QED BY <2>4, <3>1, <3>2, InDims
  <2>6. "Submitted" \in Successes /\ "Submitted" # "ReadyForReview"
    BY DEF Successes
  <2>7. calls' \in Seq(CallNames) /\ at' \in Nat /\ batch' \in {batch, NoBatch}
    BY <1>0, <1>e DEF TypeOK
  <2> QED BY <1>e, <1>p, <1>2, <2>2, <2>3, <2>4, <2>5, <2>6, <2>7, EndKeeps
<1> QED BY <1>1, <1>2 DEF VisualSubmit

LEMMA SingleToolsKeeps ==
  ASSUME IInv, SingleTools PROVE IInv'
<1>0. TypeOK /\ Turns /\ Flow /\ Kept /\ Spent
  BY DEF IInv
<1>e. /\ pc = "loop" /\ pc \in Early /\ conf.profile = "single" /\ rig.phase = "tools"
      /\ UNCHANGED <<conf, rig, calls, at, batch, draft, used, turn, started, retried, failure,
                     cancelled, late, dispatched, denied, recorded>>
  BY DEF SingleTools, SameBatch, SameRun, Quiet, Early
<1>p. ~denied /\ terminal = None /\ batch.stopped = None
  BY <1>e, Working
<1>1. CASE End("ProtocolFailure")
  BY <1>e, <1>p, <1>1, FailureKeeps DEF Untouched, Failures
<1>2. CASE /\ Goto("tools")
           /\ calls = <<"submit">> \/ {calls[i] : i \in DOMAIN calls} = {"auxiliary"}
  <2>e. pc' = "tools" /\ terminal' = terminal /\ after' = after
    BY <1>2 DEF Goto
  <2>1. TypeOK'
    BY <1>0, <1>e, <2>e DEF TypeOK, PCs
  <2>2. Turns'
    BY <1>e, <2>e, TurnsStay
  <2>3. Flow'
    BY <1>0, <1>e, <1>p, <2>e DEF Flow, Early
  <2>4. Kept'
    BY <1>0, <1>e, <2>e DEF Kept
  <2>5. Spent'
    <3>1. Clear /\ at = 1
      BY <1>0, <1>e DEF Spent, Flow
    <3>2. /\ at \in DOMAIN calls
          /\ calls[at] = "submit" \/ \A i \in DOMAIN calls : calls[i] = "auxiliary"
      <4>1. CASE calls = <<"submit">>
        BY <3>1, <4>1
      <4>2. CASE {calls[i] : i \in DOMAIN calls} = {"auxiliary"}
        <5>1. Len(calls) \in Nat /\ DOMAIN calls = 1..Len(calls)
          BY <1>0 DEF TypeOK
        <5>2. \A i \in DOMAIN calls : calls[i] = "auxiliary"
          BY <4>2
        <5>3. \E i \in DOMAIN calls : TRUE
          BY <4>2
        <5>4. 1 \in DOMAIN calls
          BY <5>1, <5>3
        <5> QED BY <3>1, <5>2, <5>4
      <4> QED BY <1>2, <4>1, <4>2
    <3>3. turn["attachments"] = 0
      BY <3>1, InDims DEF Clear
    <3>4. terminal' \notin Successes
      BY <1>p, <2>e DEF None, Successes
    <3> QED BY <1>0, <1>e, <2>e, <3>1, <3>2, <3>3, <3>4 DEF Spent, Covered, Early, Clear
  <2> QED BY <2>1, <2>2, <2>3, <2>4, <2>5 DEF IInv
<1> QED BY <1>1, <1>2 DEF SingleTools

LEMMA SingleCallFailsKeeps ==
  ASSUME IInv, NEW bytes \in Nat, SingleCallFails(bytes) PROVE IInv'
<1> DEFINE call == Usage("tool_calls", 1)
<1>0. TypeOK /\ Turns /\ Flow /\ Kept /\ Spent
  BY DEF IInv
<1>e. /\ pc = "tools" /\ conf.profile = "single"
      /\ UNCHANGED <<conf, rig, calls, at, batch, draft, used, started, retried, failure,
                     cancelled, late, dispatched, recorded>>
      /\ turn' = turn \/ turn' = Plus(turn, call)
  BY DEF SingleCallFails, SameBatch, SameRun, Quiet, Charge
<1>p. ~denied
  BY <1>e, Working
<1>d. call \in [Dims -> Nat] /\ call["model_calls"] = 0 /\ call["attachments"] = 0
  <2>1. /\ Usage("tool_calls", 1) \in [Dims -> Nat]
        /\ \A x \in Dims : Usage("tool_calls", 1)[x] = IF x = "tool_calls" THEN 1 ELSE 0
    BY InDims, UsageType
  <2> QED BY <2>1, InDims
<1> HIDE DEF call
<1>t. /\ turn' \in [Dims -> Nat] /\ turn'["model_calls"] = 0
      /\ turn'["attachments"] = turn["attachments"]
  <2>1. CASE turn' = turn
    BY <2>1, Meters
  <2>2. CASE turn' = Plus(turn, call)
    <3>1. /\ turn' \in [Dims -> Nat]
          /\ turn'["model_calls"] = turn["model_calls"] + 0
          /\ turn'["attachments"] = turn["attachments"] + 0
      BY <1>d, <2>2, MeterSums, InDims
    <3>2. turn["model_calls"] = 0 /\ turn["attachments"] \in Nat
      BY <1>0, Amounts, InDims DEF Turns
    <3> QED BY <3>1, <3>2
  <2> QED BY <1>e, <2>1, <2>2
<1>1. CASE (\E state \in {"BudgetExhausted", "ProtocolFailure"} : End(state)) /\ Quiet
  <2>1. PICK state \in Failures \ Successes : End(state)
    BY <1>1 DEF Failures, Successes
  <2>2. /\ calls' \in Seq(CallNames) /\ at' \in Nat /\ batch' \in {batch, NoBatch}
        /\ denied' \in BOOLEAN /\ ~denied' /\ recorded' \in BOOLEAN
    BY <1>0, <1>e, <1>p, <1>1 DEF TypeOK, Quiet
  <2>3. /\ used' \in [Dims -> Nat]
        /\ used["model_calls"] <= used'["model_calls"]
        /\ used'["model_calls"] <= conf.budget["model_calls"]
        /\ used'["attachments"] + turn'["attachments"] <= conf.budget["attachments"]
    <3>1. used["model_calls"] \in Nat
      BY Amounts, InDims
    <3> QED BY <1>e, <1>t, <3>1, Meters
  <2>4. UNCHANGED <<conf, rig, draft, started, retried, failure, cancelled, late, dispatched>>
    BY <1>e, <1>1 DEF Quiet
  <2>5. state # "ReadyForReview" /\ state \notin Successes
    BY DEF Successes
  <2> QED BY <1>e, <1>t, <2>1, <2>2, <2>3, <2>4, <2>5, EndKeeps
<1>2. CASE Denied("AuthorityDenied")
  BY <1>e, <1>t, <1>2, DenialKeeps DEF Failures
<1> QED BY <1>1, <1>2 DEF SingleCallFails

LEMMA SingleUsageType ==
  ASSUME NEW bytes \in Nat
  PROVE  /\ SingleUsage(bytes) \in [Dims -> Nat]
         /\ \A x \in Dims : SingleUsage(bytes)[x] =
               IF x = "result_bytes" THEN bytes ELSE IF x = "tool_calls" THEN 1 ELSE 0
  BY InDims, TwoUsages DEF SingleUsage

LEMMA SingleSubmitKeeps ==
  ASSUME IInv, NEW bytes \in Nat, SingleSubmit(bytes) PROVE IInv'
<1> DEFINE delta == SingleUsage(bytes)
<1>0. TypeOK /\ Turns /\ Flow /\ Kept /\ Spent
  BY DEF IInv
<1>e. /\ pc = "tools" /\ conf.profile = "single" /\ calls[at] = "submit"
      /\ Fits(Usage("tool_calls", 1)) /\ Fits(Usage("result_bytes", bytes))
      /\ End("Submitted") /\ used' = Plus(used, Plus(turn, delta)) /\ turn' = NoUsage
      /\ UNCHANGED <<conf, rig, calls, at, batch, draft, started, retried, failure, cancelled,
                     late, dispatched, denied, recorded>>
  BY DEF SingleSubmit, SingleCallSucceeds, SameBatch, SameRun, Quiet
<1>p. ~denied /\ denied' \in BOOLEAN /\ ~denied' /\ recorded' \in BOOLEAN
  BY <1>0, <1>e, Working DEF TypeOK
<1>d. /\ delta \in [Dims -> Nat]
      /\ \A x \in Dims : delta[x] =
            IF x = "result_bytes" THEN bytes ELSE IF x = "tool_calls" THEN 1 ELSE 0
  BY SingleUsageType
<1>u. used' \in [Dims -> Nat] /\ \A x \in Dims : used'[x] = used[x] + (turn[x] + delta[x])
  BY <1>d, <1>e, MeterSums
<1> HIDE DEF delta
<1>c. \A x \in Dims : turn[x] = 0 /\ used[x] <= conf.budget[x]
  BY <1>0, <1>e DEF Spent, Clear
<1>f. /\ used["tool_calls"] + 1 <= conf.budget["tool_calls"]
      /\ used["result_bytes"] + bytes <= conf.budget["result_bytes"]
  <2>1. Usage("tool_calls", 1)["tool_calls"] = 1 /\ Usage("result_bytes", bytes)["result_bytes"] = bytes
    BY InDims, UsageType
  <2> QED BY <1>e, <2>1, InDims DEF Fits
<1>w. \A x \in Dims : used'[x] <= conf.budget[x]
  BY <1>c, <1>d, <1>f, <1>u, Amounts
<1>z. turn' \in [Dims -> Nat] /\ \A x \in Dims : turn'[x] = 0
  BY <1>e, NoUsageType
<1>v. /\ used["model_calls"] <= used'["model_calls"]
      /\ used'["model_calls"] <= conf.budget["model_calls"]
      /\ turn'["model_calls"] = 0
      /\ used'["attachments"] + turn'["attachments"] <= conf.budget["attachments"]
  <2>1. delta["model_calls"] = 0 /\ turn["model_calls"] = 0 /\ used["model_calls"] \in Nat
    BY <1>c, <1>d, Amounts, InDims
  <2>2. used'["model_calls"] = used["model_calls"] + (turn["model_calls"] + delta["model_calls"])
    BY <1>u, InDims
  <2>3. turn'["attachments"] = 0 /\ turn'["model_calls"] = 0 /\ used'["attachments"] \in Nat
    BY <1>u, <1>z, InDims
  <2> QED BY <1>w, <2>1, <2>2, <2>3, InDims
<1>1. "Submitted" \in Successes /\ "Submitted" # "ReadyForReview" /\ pc # "end"
  BY <1>e DEF Successes
<1>2. calls' \in Seq(CallNames) /\ at' \in Nat /\ batch' \in {batch, NoBatch}
  BY <1>0, <1>e DEF TypeOK
<1> QED BY <1>e, <1>p, <1>u, <1>w, <1>z, <1>v, <1>1, <1>2, EndKeeps

LEMMA SingleAuxiliaryKeeps ==
  ASSUME IInv, NEW bytes \in Nat, SingleAuxiliary(bytes) PROVE IInv'
<1> DEFINE delta == SingleUsage(bytes)
<1>0. TypeOK /\ Turns /\ Flow /\ Kept /\ Spent
  BY DEF IInv
<1>e. /\ pc = "tools" /\ conf.profile = "single" /\ calls[at] = "auxiliary"
      /\ UNCHANGED <<conf, draft, started, retried, failure, cancelled, late, dispatched,
                     denied, recorded>>
  BY DEF SingleAuxiliary, SingleCallSucceeds, Quiet
<1>p. ~denied /\ terminal = None /\ batch.stopped = None
  BY <1>e, Working
<1>d. delta \in [Dims -> Nat] /\ delta["model_calls"] = 0 /\ delta["attachments"] = 0
  BY SingleUsageType, InDims
<1>c. /\ turn["attachments"] = 0 /\ turn["model_calls"] = 0
      /\ used["attachments"] + turn["attachments"] <= conf.budget["attachments"]
      /\ at \in DOMAIN calls /\ \A i \in DOMAIN calls : calls[i] = "auxiliary"
  BY <1>0, <1>e DEF Spent, Turns, Covered
<1>n. /\ used["model_calls"] \in Nat /\ turn["model_calls"] \in Nat
      /\ used["attachments"] \in Nat /\ turn["attachments"] \in Nat
  BY Amounts, InDims
<1>1. CASE /\ at < Len(calls) /\ Goto("tools") /\ Charge(delta) /\ at' = at + 1
           /\ UNCHANGED <<used, rig, calls, batch>>
  <2>e. pc' = "tools" /\ terminal' = terminal /\ after' = after
    BY <1>1 DEF Goto
  <2>u. /\ turn' \in [Dims -> Nat]
        /\ turn'["model_calls"] = turn["model_calls"] + delta["model_calls"]
        /\ turn'["attachments"] = turn["attachments"] + delta["attachments"]
    BY <1>d, <1>1, MeterSums, InDims DEF Charge
  <2> HIDE DEF delta
  <2>v. turn'["model_calls"] = turn["model_calls"] /\ turn'["attachments"] = 0
    BY <1>c, <1>d, <1>n, <2>u
  <2>a. at' \in Nat
    BY <1>0, <1>1 DEF TypeOK
  <2>1. TypeOK'
    BY <1>0, <1>e, <1>1, <2>e, <2>u, <2>a DEF TypeOK, PCs
  <2>2. Turns'
    BY <1>e, <1>1, <2>e, <2>v, TurnsStay
  <2>3. Flow'
    BY <1>0, <1>e, <1>1, <1>p, <2>e DEF Flow, Early
  <2>4. Kept'
    BY <1>0, <1>e, <1>1, <2>e DEF Kept
  <2>5. Spent'
    <3>1. at' \in DOMAIN calls'
      <4>1. Len(calls) \in Nat /\ DOMAIN calls = 1..Len(calls) /\ at \in Nat
        BY <1>0 DEF TypeOK
      <4> QED BY <1>1, <4>1, <1>c
    <3>2. terminal' \notin Successes
      BY <1>p, <2>e DEF None, Successes
    <3>3. used'["attachments"] + turn'["attachments"] <= conf.budget["attachments"]
      BY <1>c, <1>1, <2>v
    <3> QED BY <1>c, <1>e, <1>1, <2>e, <2>v, <3>1, <3>2, <3>3 DEF Spent, Covered, Early
  <2> QED BY <2>1, <2>2, <2>3, <2>4, <2>5 DEF IInv
<1>2. CASE /\ Goto("loop") /\ used' = Plus(used, Plus(turn, delta)) /\ turn' = NoUsage
           /\ rig' = [rig EXCEPT !.phase = "call"]
           /\ calls' = <<>> /\ at' = 1 /\ batch' = NoBatch
  <2>e. pc' = "loop" /\ terminal' = terminal /\ after' = after
    BY <1>2 DEF Goto
  <2>u. /\ used' \in [Dims -> Nat]
        /\ used'["model_calls"] = used["model_calls"] + (turn["model_calls"] + delta["model_calls"])
        /\ used'["attachments"] = used["attachments"] + (turn["attachments"] + delta["attachments"])
    BY <1>d, <1>2, MeterSums, InDims
  <2> HIDE DEF delta
  <2>z. turn' \in [Dims -> Nat] /\ \A x \in Dims : turn'[x] = 0
    BY <1>2, NoUsageType
  <2>v. /\ used'["model_calls"] = used["model_calls"]
        /\ turn'["model_calls"] = turn["model_calls"]
        /\ used'["attachments"] + turn'["attachments"] <= conf.budget["attachments"]
    <3>1. turn'["attachments"] = 0 /\ turn'["model_calls"] = 0
      BY <2>z, InDims
    <3> QED BY <1>c, <1>d, <1>n, <2>u, <3>1
  <2>r. /\ rig' \in [phase : {"call", "tools", "done"}, turns : Nat, max : Nat]
        /\ rig'.turns = rig.turns /\ rig'.max = rig.max /\ rig'.phase = "call"
    BY <1>0, <1>2 DEF TypeOK
  <2>1. TypeOK'
    <3>1. calls' \in Seq(CallNames) /\ at' \in Nat
      BY <1>2
    <3> QED BY <1>0, <1>e, <1>2, <2>e, <2>u, <2>z, <2>r, <3>1, NoBatchType DEF TypeOK, PCs
  <2>2. Turns'
    <3>1. Asking = 0 /\ Asking' = 0
      BY <1>e, <2>e DEF Asking
    <3> QED BY <1>0, <1>e, <2>e, <2>r, <2>v, <3>1 DEF Turns
  <2>3. Flow'
    BY <1>0, <1>e, <1>2, <1>p, <2>e, NoBatchType DEF Flow, Early
  <2>4. Kept'
    BY <1>0, <1>e, <1>2, <2>e, NoBatchType DEF Kept, None
  <2>5. Spent'
    <3>1. terminal' \notin Successes
      BY <1>p, <2>e DEF None, Successes
    <3> QED BY <1>e, <2>e, <2>r, <2>v, <2>z, <3>1 DEF Spent, Covered, Early
  <2> QED BY <2>1, <2>2, <2>3, <2>4, <2>5 DEF IInv
<1> QED BY <1>1, <1>2 DEF SingleAuxiliary

LEMMA DoneKeeps ==
  ASSUME IInv, Done PROVE IInv'
<1>0. TypeOK /\ Turns /\ Flow /\ Kept /\ Spent
  BY DEF IInv
<1>e. /\ pc = "loop" /\ pc \in Early /\ rig.phase = "done"
      /\ UNCHANGED <<conf, rig, calls, at, batch, draft, started, retried, failure, cancelled,
                     late, dispatched, denied, recorded>>
  BY DEF Done, SameBatch, SameRun, Quiet, Early
<1>p. ~denied /\ denied' \in BOOLEAN /\ ~denied' /\ recorded' \in BOOLEAN
  BY <1>0, <1>e, Working DEF TypeOK
<1>s. calls' \in Seq(CallNames) /\ at' \in Nat /\ batch' \in {batch, NoBatch} /\ pc # "end"
  BY <1>0, <1>e DEF TypeOK
<1>1. CASE End("ProtocolFailure") /\ UNCHANGED <<used, turn>>
  BY <1>e, <1>p, <1>1, FailureKeeps DEF Untouched, Failures
<1>2. CASE ApplyTurn /\ \E state \in Failures : End(state)
  <2>1. used' \in [Dims -> Nat] /\ \A x \in Dims : used'[x] = used[x] + turn[x]
    BY <1>2, Meters, PlusType DEF ApplyTurn
  <2>2. turn' \in [Dims -> Nat] /\ \A x \in Dims : turn'[x] = 0
    BY <1>2, NoUsageType DEF ApplyTurn
  <2>3. /\ used["model_calls"] <= used'["model_calls"]
        /\ used'["model_calls"] <= conf.budget["model_calls"]
        /\ turn'["model_calls"] = 0
        /\ used'["attachments"] + turn'["attachments"] <= conf.budget["attachments"]
    <3>1. /\ used'["model_calls"] = used["model_calls"] + turn["model_calls"]
          /\ used'["attachments"] = used["attachments"] + turn["attachments"]
          /\ used["model_calls"] \in Nat /\ used'["attachments"] \in Nat
          /\ turn'["model_calls"] = 0 /\ turn'["attachments"] = 0
      BY <2>1, <2>2, Amounts, InDims
    <3>2. /\ turn["model_calls"] = 0 /\ used["model_calls"] <= conf.budget["model_calls"]
          /\ used["attachments"] + turn["attachments"] <= conf.budget["attachments"]
      BY <1>0 DEF Turns, Spent, Covered
    <3> QED BY <3>1, <3>2
  <2>4. PICK state \in Failures : End(state)
    BY <1>2
  <2>5. state \notin Successes /\ state # "ReadyForReview" /\ state \in Successes \cup Failures
    BY DEF Successes, Failures
  <2> QED BY <1>e, <1>p, <1>s, <2>1, <2>2, <2>3, <2>4, <2>5, EndKeeps
<1>3. CASE /\ conf.profile = "single" /\ UNCHANGED <<used, turn>>
           /\ \E state \in {"TextCompleted", "ProtocolFailure"} : End(state)
  <2>1. PICK state \in Successes \cup Failures : End(state) /\ state # "ReadyForReview"
    BY <1>3 DEF Successes, Failures
  <2>2. \A x \in Dims : used'[x] <= conf.budget[x]
    BY <1>0, <1>e, <1>3 DEF Spent, Clear
  <2>3. /\ used' \in [Dims -> Nat] /\ turn' \in [Dims -> Nat]
        /\ used["model_calls"] <= used'["model_calls"]
        /\ used'["model_calls"] <= conf.budget["model_calls"]
        /\ turn'["model_calls"] = 0
        /\ used'["attachments"] + turn'["attachments"] <= conf.budget["attachments"]
    <3>1. used["model_calls"] \in Nat
      BY Amounts, InDims
    <3> QED BY <1>3, <3>1, Meters
  <2> QED BY <1>e, <1>p, <1>s, <2>1, <2>2, <2>3, EndKeeps
<1>4. CASE conf.profile = "redaction"
  <2>1. ApplyTurn /\ failure \in {None, "SourceValidationFailure", "RuntimeFailure"}
    BY <1>0, <1>e, <1>4 DEF Done, TypeOK
  <2>2. \E state \in Failures : End(state)
    BY <1>4, <2>1 DEF Done, Failures, None
  <2> QED BY <1>2, <2>1, <2>2
<1> QED BY <1>1, <1>3, <1>4 DEF Done

-----------------------------------------------------------------------------
(* The world around the run.                                               *)
LEMMA AuditKeeps ==
  ASSUME IInv, AuditAnswers PROVE IInv'
<1>0. TypeOK /\ Turns /\ Flow /\ Kept /\ Spent
  BY DEF IInv
<1>e. /\ pc = "audit" /\ pc # "end" /\ after \in Failures
      /\ UNCHANGED <<conf, rig, calls, at, batch, draft, used, turn, started, retried, failure,
                     cancelled, late, dispatched, denied>>
  BY <1>0 DEF AuditAnswers, SameBatch, SameRun, Flow
<1>s. /\ calls' \in Seq(CallNames) /\ at' \in Nat /\ batch' \in {batch, NoBatch}
      /\ denied' \in BOOLEAN
  BY <1>0, <1>e DEF TypeOK
<1>1. PICK state \in Failures : /\ End(state) /\ recorded' \in BOOLEAN
                                /\ recorded' \/ state = "AuditFailure"
  BY <1>0, <1>e DEF AuditAnswers, Failures, TypeOK
<1>2. state \notin Successes /\ state # "ReadyForReview" /\ state \in Successes \cup Failures
  BY DEF Successes, Failures
<1>3. /\ used' \in [Dims -> Nat] /\ turn' \in [Dims -> Nat]
      /\ used["model_calls"] <= used'["model_calls"]
      /\ used'["model_calls"] <= conf.budget["model_calls"]
      /\ turn'["model_calls"] = 0
      /\ used'["attachments"] + turn'["attachments"] <= conf.budget["attachments"]
  <2>1. used["model_calls"] \in Nat
    BY Amounts, InDims
  <2> QED BY <1>e, <2>1, Meters
<1> QED BY <1>e, <1>s, <1>1, <1>2, <1>3, EndKeeps

LEMMA SignalKeeps ==
  ASSUME IInv, Cancel \/ DeadlinePasses \/ UNCHANGED vars PROVE IInv'
<1>0. TypeOK /\ Turns /\ Flow /\ Kept /\ Spent
  BY DEF IInv
<1>e. /\ cancelled' \in BOOLEAN /\ late' \in BOOLEAN
      /\ UNCHANGED <<conf, pc, terminal, after, rig, calls, at, batch, draft, used, turn, started,
                     retried, failure, dispatched, denied, recorded>>
  BY <1>0 DEF Cancel, DeadlinePasses, vars, TypeOK
<1>1. TypeOK'
  BY <1>0, <1>e DEF TypeOK
<1>2. Turns' /\ Flow'
  BY <1>0, <1>e DEF Turns, Asking, Flow
<1>3. Kept' /\ Spent'
  BY <1>0, <1>e DEF Kept, Spent, Covered, Clear
<1> QED BY <1>1, <1>2, <1>3 DEF IInv

-----------------------------------------------------------------------------
(* The invariant.                                                          *)
LEMMA InitInv == Init => IInv
<1> SUFFICES ASSUME Init PROVE IInv
  OBVIOUS
<1>c. conf \in Conf /\ conf.budget \in [Dims -> Nat] /\ MaxTurns \in Nat
  BY RunAssumption DEF Init, Conf
<1>d. NewDraft \in Draft /\ DraftOK(NewDraft)
  <2>1. NoHandoff \in Handoff /\ NoSource \in Cached
    BY DEF NoHandoff, Handoff, Cached
  <2>2. NewDraft \in Draft
    BY <2>1, SourcesAssumption DEF NewDraft, Draft
  <2>3. ~HasEvidence(NewDraft, "validation") /\ ~HasEvidence(NewDraft, "dry_run")
    BY DEF NewDraft, HasEvidence
  <2>4. NewDraft.pending_ready_for_review = NoHandoff
    BY DEF NewDraft
  <2> QED BY <2>2, <2>3, <2>4 DEF DraftOK
<1>r. /\ rig = [phase |-> "call", turns |-> 0, max |-> MaxTurns]
      /\ used \in [Dims -> Nat] /\ turn \in [Dims -> Nat]
      /\ \A x \in Dims : used[x] = 0 /\ turn[x] = 0
  BY NoUsageType DEF Init, NewRig
<1>b. \A x \in Dims : conf.budget[x] \in Nat
  BY <1>c
<1>1. TypeOK
  <2>1. calls \in Seq(CallNames) /\ at \in Nat /\ started \in Nat /\ dispatched \in Nat
    BY DEF Init
  <2>2. rig \in [phase : {"call", "tools", "done"}, turns : Nat, max : Nat]
    BY <1>c, <1>r
  <2> QED BY <1>d, <1>r, <2>1, <2>2, NoBatchType DEF Init, TypeOK, PCs
<1>2. Turns
  BY <1>b, <1>c, <1>r, InDims DEF Init, Turns, Asking
<1>3. Flow
  BY <1>r DEF Init, Flow, Early, NoBatch
<1>4. Kept
  BY <1>d DEF Init, Kept, NoBatch, None
<1>5. Spent
  <2>1. \A x \in Dims : used[x] + turn[x] <= conf.budget[x]
    BY <1>b, <1>r
  <2>2. terminal \notin Successes /\ pc = "start" /\ rig.phase = "call"
    BY <1>r DEF Init, None, Successes
  <2> QED BY <1>r, <2>1, <2>2, InDims DEF Spent, Covered, Early
<1> QED BY <1>1, <1>2, <1>3, <1>4, <1>5 DEF IInv

LEMMA StepInv == IInv /\ [Next]_vars => IInv'
<1> SUFFICES ASSUME IInv, [Next]_vars PROVE IInv'
  OBVIOUS
<1>1. CASE Preflight \/ Stopped \/ OutOfTurns \/ CallModel \/ Dispatch \/ LoadFails \/ Restart
  BY <1>1, PreflightKeeps, StoppedKeeps, CallModelKeeps, DispatchKeeps, RestartKeeps
<1>2. CASE BeginTools \/ VisualTools \/ SingleTools
  BY <1>2, BeginToolsKeeps, VisualToolsKeeps, SingleToolsKeeps
<1>3. CASE ToolCall
  <2>1. CASE \/ CallReplaceSource \/ CallEditSource \/ CallValidateSource \/ CallDryRun
             \/ CallSubmitForReview \/ CallRequestUserInput \/ CallReadCurrentSource
    <3>1. TypeOK /\ DraftOK(draft)
      BY DEF IInv, Kept
    <3>2. PICK name, o : Sound(name, o) /\ Execute(name, o)
      BY <2>1, <3>1, CallsAreSound
    <3> QED BY <3>2, ExecuteKeeps
  <2>2. CASE CallRefused \/ VisualSubmit
    BY <2>2, CallRefusedKeeps, VisualSubmitKeeps
  <2>3. CASE \E bytes \in 0 .. MaxAmount :
                SingleCallFails(bytes) \/ SingleSubmit(bytes) \/ SingleAuxiliary(bytes)
    <3>1. PICK bytes \in 0 .. MaxAmount :
             SingleCallFails(bytes) \/ SingleSubmit(bytes) \/ SingleAuxiliary(bytes)
      BY <2>3
    <3>2. bytes \in Nat
      BY RunAssumption
    <3> QED BY <3>1, <3>2, SingleCallFailsKeeps, SingleSubmitKeeps, SingleAuxiliaryKeeps
  <2> QED BY <1>3, <2>1, <2>2, <2>3 DEF ToolCall
<1>4. CASE ResultsTooLarge \/ ResultsFail \/ ResultsTaken \/ Done \/ AuditAnswers
  BY <1>4, ResultsFailKeep, ResultsTakenKeep, DoneKeeps, AuditKeeps
<1>5. CASE ProviderStep
  <2>1. CASE ModelAnswers
    BY <2>1, TurnKeeps DEF ModelAnswers
  <2> QED BY <1>5, <2>1, StoppedKeeps, OverflowKeeps DEF ProviderStep
<1>6. CASE Cancel \/ DeadlinePasses \/ UNCHANGED vars
  BY <1>6, SignalKeeps
<1> QED BY <1>1, <1>2, <1>3, <1>4, <1>5, <1>6 DEF Next, DriverStep

LEMMA RunInv == Spec => []IInv
<1> QED BY InitInv, StepInv, PTL DEF Spec

-----------------------------------------------------------------------------
(* Type correctness, for any budgets, authority and sources.               *)
THEOREM RunTypeCorrect == Spec => []TypeOK
<1>1. IInv => TypeOK
  BY DEF IInv
<1> QED BY <1>1, RunInv, PTL

(* A run that succeeds stayed within its budget in every dimension         *)
(* (check_budget, charge_usage and apply_usage of runtime.rs).             *)
THEOREM SuccessStaysWithinBudget == Spec => []SuccessWithinBudget
<1>1. IInv => SuccessWithinBudget
  BY DEF IInv, Spent, SuccessWithinBudget
<1> QED BY <1>1, RunInv, PTL

(* What a run hands over for review was validated and dry-run as it is     *)
(* (submit_for_review and finalize_ready_for_review).                      *)
THEOREM ReadyIsAlwaysEvidenced == Spec => []ReadyIsEvidenced
<1>1. IInv => ReadyIsEvidenced
  <2> SUFFICES ASSUME IInv, terminal = "ReadyForReview" PROVE ReadyIsEvidenced
    BY DEF ReadyIsEvidenced
  <2>1. DraftOK(draft) /\ draft.pending_ready_for_review # NoHandoff
    BY DEF IInv, Kept, HandsOver
  <2>2. Stage(draft) = "ReadyToSubmit"
    BY <2>1 DEF DraftOK, Stage
  <2> QED BY <2>1, <2>2 DEF DraftOK, ReadyIsEvidenced
<1> QED BY <1>1, RunInv, PTL

(* Evidence of the current generation never lacks the result it is about,  *)
(* and a submission that was accepted has something to hand over.          *)
THEOREM EvidenceAlwaysHasResult == Spec => []EvidenceHasItsResult
<1>1. IInv => EvidenceHasItsResult
  <2> SUFFICES ASSUME IInv PROVE EvidenceHasItsResult
    OBVIOUS
  <2>1. DraftOK(draft) /\ (batch.stopped = "submitted" => HandsOver(draft))
    BY DEF IInv, Kept
  <2>2. NoSource \notin ValidSources
    BY SourcesAssumption
  <2> QED BY <2>1, <2>2 DEF DraftOK, HandsOver, StaleEvidence, EvidenceHasItsResult
<1> QED BY <1>1, RunInv, PTL

(* The provider is asked at most max_turns times, the recovery from an     *)
(* overflow included, and at most once more than the budget charges.       *)
THEOREM DispatchesAlwaysBounded == Spec => []DispatchesBounded
<1>1. IInv => DispatchesBounded
  <2> SUFFICES ASSUME IInv PROVE DispatchesBounded
    OBVIOUS
  <2>1. /\ rig.turns <= rig.max /\ started + (rig.max - rig.turns) = MaxTurns
        /\ dispatched <= started /\ dispatched <= used["model_calls"] + Asking
        /\ used["model_calls"] <= conf.budget["model_calls"]
    BY DEF IInv, Turns
  <2>2. /\ rig.turns \in Nat /\ rig.max \in Nat /\ started \in Nat /\ dispatched \in Nat
        /\ MaxTurns \in Nat
    BY RunAssumption DEF IInv, TypeOK
  <2>3. used["model_calls"] \in Nat /\ conf.budget["model_calls"] \in Nat /\ Asking \in {0, 1}
    BY Amounts, InDims DEF Asking
  <2>4. dispatched <= MaxTurns
    BY <2>1, <2>2
  <2>5. dispatched <= conf.budget["model_calls"] + 1
    BY <2>1, <2>2, <2>3
  <2> QED BY <2>4, <2>5 DEF DispatchesBounded
<1> QED BY <1>1, RunInv, PTL

(* A refused call ends the run, on record when there is a sink (but for    *)
(* results too large to be told apart).                                    *)
THEOREM DenialAlwaysEndsTheRun == Spec => []DenialEndsTheRun
<1>1. IInv => DenialEndsTheRun
  BY DEF IInv, Flow, DenialEndsTheRun
<1> QED BY <1>1, RunInv, PTL

(* Once cancelled, a run neither asks the provider nor touches the draft.  *)
THEOREM CancelAlwaysStopsWork == Spec => CancelStopsWork
<1>1. ASSUME [Next]_vars, cancelled PROVE dispatched' = dispatched /\ draft' = draft
  <2>1. CASE UNCHANGED vars
    BY <2>1 DEF vars
  <2>2. CASE Preflight \/ Stopped \/ OutOfTurns \/ CallModel \/ Dispatch \/ LoadFails \/ Restart
    BY <1>1, <2>2 DEF Preflight, Stopped, OutOfTurns, CallModel, Dispatch, LoadFails, Restart,
       Running, Quiet
  <2>3. CASE BeginTools \/ VisualTools \/ SingleTools
    BY <1>1, <2>3 DEF BeginTools, VisualTools, SingleTools, Running
  <2>4. CASE ToolCall
    <3>1. \A name, o : ~Execute(name, o)
      BY <1>1 DEF Execute, Accept, ResultTooLarge, MayEnter
    <3>2. CASE CallRefused \/ VisualSubmit
      BY <3>2 DEF CallRefused, VisualSubmit, Quiet
    <3>3. CASE \E bytes \in 0 .. MaxAmount :
                  SingleCallFails(bytes) \/ SingleSubmit(bytes) \/ SingleAuxiliary(bytes)
      BY <3>3 DEF SingleCallFails, SingleSubmit, SingleAuxiliary, Quiet
    <3> QED BY <2>4, <3>1, <3>2, <3>3 DEF ToolCall, CallReplaceSource, CallEditSource,
            CallValidateSource, CallDryRun, CallSubmitForReview, CallRequestUserInput,
            CallReadCurrentSource
  <2>5. CASE ResultsTooLarge \/ ResultsFail \/ ResultsTaken \/ Done \/ AuditAnswers
    BY <2>5 DEF ResultsTooLarge, ResultsFail, ResultsTaken, Done, AuditAnswers, Quiet
  <2>6. CASE ProviderStep
    BY <2>6 DEF ProviderStep, ModelAnswers, TurnCompletes, StreamFails, Overflow, Quiet
  <2>7. CASE Cancel \/ DeadlinePasses
    BY <2>7 DEF Cancel, DeadlinePasses
  <2> QED BY <1>1, <2>1, <2>2, <2>3, <2>4, <2>5, <2>6, <2>7 DEF Next, DriverStep
<1>2. [Next]_vars => [cancelled => dispatched' = dispatched /\ draft' = draft]_vars
  BY <1>1
<1> QED BY <1>2, PTL DEF Spec, CancelStopsWork
=============================================================================
