------------------------------- MODULE AgentRun -------------------------------
(***************************************************************************)
(* One bounded agent run (src/crates/rollshot-agent/src/driver.rs): the    *)
(* loop that alternates model turns and tool batches under a budget        *)
(* (runtime.rs), an authority snapshot (authority.rs) and a cancellation   *)
(* shared with the UI.  The three entry points are profiles of one loop:   *)
(*   "redaction"  run_with_provider                                        *)
(*   "visual"     run_visual_annotation_with_provider                      *)
(*   "single"     run_single_submit_with_provider                          *)
(* A step ends where the code awaits: in the provider's stream, in a tool  *)
(* call, in the continuity load and in the audit append.  Cancel and       *)
(* DeadlinePasses happen between any two steps.                            *)
(*                                                                         *)
(* Abstracted: message contents, events and the text of failures.  Budget  *)
(* dimensions charged at the same place in the same way are one dimension: *)
(* input_tokens stands for output_tokens, dry_run_attempts for             *)
(* validation_attempts, candidate_count for affected_area and              *)
(* capability_calls, tool_calls for argument_bytes.                        *)
(***************************************************************************)
EXTENDS AgentTools, Sequences, FiniteSets

CONSTANTS
    MaxTurns,          \* AgentConfig.max_turns
    Confs,             \* what a caller may fix: profile, budget, authority...
    Batches,           \* per profile, the batches of calls a model turn may ask for
    MaxAmount          \* bound: tokens, candidates or result bytes charged at once

Dims == {"model_calls", "input_tokens", "tool_calls", "dry_run_attempts",
         "candidate_count", "result_bytes", "attachments"}

(* RunOperation, as far as the tools require it.                           *)
Operations == {"ReadDraft", "WriteDraft", "InspectPreparedImage",
               "ExecuteRestrictedAutomation", "RequestUserInput", "SubmitReviewCandidate",
               "DiscloseScreenshotAttachment", "ReadAuthorizedWorkspaceFile"}

Profiles == {"redaction", "visual", "single"}

Conf == [profile : Profiles,
         budget : [Dims -> Nat],
         grants : SUBSET Operations,
         audit_sink : BOOLEAN,
         attachments : Nat,
         full_screenshot : BOOLEAN,   \* the disclosure ceiling
         durable : BOOLEAN]           \* RunContinuitySource::Durable

(* Tool::required_operations of each tool.                                 *)
Required ==
    [replace_source      |-> {"WriteDraft"},
     edit_source         |-> {"ReadDraft", "WriteDraft"},
     validate_source     |-> {"ReadDraft"},
     dry_run             |-> {"ReadDraft", "InspectPreparedImage",
                             "ExecuteRestrictedAutomation"},
     submit_for_review   |-> {"ReadDraft", "SubmitReviewCandidate"},
     request_user_input  |-> {"RequestUserInput"},
     read_current_source |-> {"ReadDraft"},
     submit              |-> {"SubmitReviewCandidate"},
     auxiliary           |-> {"ReadAuthorizedWorkspaceFile"}]

RedactionTools == {"replace_source", "edit_source", "validate_source", "dry_run",
                   "submit_for_review", "request_user_input", "read_current_source"}

(* What a call in a batch may name: a tool, or nothing that exists.        *)
CallNames == DOMAIN Required \cup {"unknown"}

ASSUME RunAssumption ==
    /\ MaxTurns \in Nat
    /\ Confs \subseteq Conf
    /\ Batches \in [Profiles -> SUBSET Seq(CallNames)]
    /\ MaxAmount \in Nat

VARIABLES
    conf,         \* what the caller fixed
    pc,           \* where the run stands
    terminal,     \* the RunTerminalState it returned
    after,        \* the terminal that waits for the audit append
    rig,          \* the rig_core AgentRun: its phase, turns and max_turns
    calls,        \* the batch being executed
    at,           \* the next call of it
    batch,        \* what the results of the batch say so far
    draft,        \* ToolContext
    used, turn,   \* BudgetTracker
    started,      \* model_turns_started
    retried,      \* overflow_retry_used
    failure,      \* last_failure_kind
    cancelled,    \* RunCancellation
    late,         \* the wall-time budget is spent
    dispatched,   \* history: provider dispatches
    denied,       \* history: a tool call was refused by the authority
    recorded      \* history: the denial was acknowledged by the audit sink

vars == <<conf, pc, terminal, after, rig, calls, at, batch, draft, used, turn,
          started, retried, failure, cancelled, late, dispatched, denied,
          recorded>>

PCs == {"start", "loop", "stream", "streaming", "load", "tools", "results",
        "audit", "end"}

Successes == {"ReadyForReview", "NeedsUserInput", "Submitted", "TextCompleted"}

Failures == {"Cancelled", "BudgetExhausted", "SourceValidationFailure",
             "RuntimeFailure", "ProtocolFailure", "ProviderFailure",
             "ContextOverflow", "ContextRecoveryFailure", "AuditFailure",
             "AuthorityDenied"}

None == "none"

(* AuthoritySnapshot::authorize_tool.                                      *)
Authorized(name) == name \in DOMAIN Required /\ Required[name] \subseteq conf.grants

NoBatch == [stopped |-> None,         \* "error", "denied", "submitted" or "asked"
            candidate_count |-> 0,
            successes |-> 0]

TypeOK ==
    /\ conf \in Confs
    /\ pc \in PCs
    /\ terminal \in Successes \cup Failures \cup {None}
    /\ after \in Failures \cup {None}
    /\ rig \in [phase : {"call", "tools", "done"}, turns : Nat, max : Nat]
    /\ calls \in Seq(CallNames)
    /\ at \in Nat
    /\ batch \in [stopped : {None, "error", "denied", "submitted", "asked"},
                  candidate_count : Nat, successes : Nat]
    /\ draft \in Draft
    /\ used \in [Dims -> Nat]
    /\ turn \in [Dims -> Nat]
    /\ started \in Nat
    /\ retried \in BOOLEAN
    /\ failure \in {None, "SourceValidationFailure", "RuntimeFailure"}
    /\ cancelled \in BOOLEAN
    /\ late \in BOOLEAN
    /\ dispatched \in Nat
    /\ denied \in BOOLEAN
    /\ recorded \in BOOLEAN

NoUsage == [x \in Dims |-> 0]

NewRig(max) == [phase |-> "call", turns |-> 0, max |-> max]

Init ==
    /\ conf \in Confs
    /\ pc = "start"
    /\ terminal = None
    /\ after = None
    /\ rig = NewRig(MaxTurns)
    /\ calls = <<>>
    /\ at = 1
    /\ batch = NoBatch
    /\ draft = NewDraft
    /\ used = NoUsage
    /\ turn = NoUsage
    /\ started = 0
    /\ retried = FALSE
    /\ failure = None
    /\ cancelled \in BOOLEAN
    /\ late = FALSE
    /\ dispatched = 0
    /\ denied = FALSE
    /\ recorded = FALSE

-----------------------------------------------------------------------------
(* BudgetTracker.                                                          *)

Usage(x, n) == [y \in Dims |-> IF y = x THEN n ELSE 0]
Plus(u, v) == [x \in Dims |-> u[x] + v[x]]

FitsAlone(delta) == \A x \in Dims : delta[x] <= conf.budget[x]   \* mutant: used forgotten

(* check_budget compares the delta with the committed usage only: what the *)
(* turn has charged so far is not counted.                                 *)
Fits(delta) == \A x \in Dims : used[x] + delta[x] <= conf.budget[x]

Charge(delta) == turn' = Plus(turn, delta)

ApplyTurn ==
    /\ used' = Plus(used, turn)
    /\ turn' = NoUsage

AccumulatedFits(u) == \A x \in Dims : u[x] <= conf.budget[x]

-----------------------------------------------------------------------------
(* Ways a step ends.                                                       *)

End(state) == pc' = "end" /\ terminal' = state /\ UNCHANGED after

Goto(next) == pc' = next /\ UNCHANGED <<terminal, after>>

DeniedUnrecorded(state) ==           \* mutant: the terminal without the append
    denied' = TRUE /\ End(state)

(* record_authority_denial: the append is awaited before the terminal; a   *)
(* run without a sink cannot record it and fails with the protocol error.  *)
Denied(state) ==
    /\ denied' = TRUE
    /\ IF conf.audit_sink
       THEN pc' = "audit" /\ after' = state /\ UNCHANGED terminal
       ELSE End("ProtocolFailure")

Quiet == UNCHANGED <<denied, recorded, dispatched>>
SameBatch == UNCHANGED <<calls, at, batch>>
SameRun == UNCHANGED <<rig, started, retried, failure>>

-----------------------------------------------------------------------------
(* Preflight.  run_with_provider has none; the two others check the        *)
(* cancellation, the disclosure and the attachments before the loop.       *)

DisclosureAllowed == conf.full_screenshot \/ conf.attachments = 0

Preflight ==
    /\ pc = "start"
    /\ \/ /\ conf.profile = "redaction"
          /\ Goto("loop") /\ UNCHANGED turn /\ Quiet
       \/ /\ conf.profile # "redaction"
          /\ cancelled
          /\ End("Cancelled") /\ UNCHANGED turn /\ Quiet
       \/ /\ conf.profile = "visual"        \* DiscloseScreenshotAttachment
          /\ ~cancelled
          /\ "DiscloseScreenshotAttachment" \notin conf.grants
          /\ Denied("AuthorityDenied") /\ UNCHANGED <<turn, recorded, dispatched>>
       \/ /\ conf.profile # "redaction"
          /\ ~cancelled
          /\ conf.profile = "visual" => "DiscloseScreenshotAttachment" \in conf.grants
          /\ Quiet
          /\ \/ ~DisclosureAllowed /\ End("ProtocolFailure") /\ UNCHANGED turn
             \/ /\ DisclosureAllowed
                /\ LET delta == Usage("attachments", conf.attachments)
                   IN \/ ~Fits(delta) /\ End("BudgetExhausted") /\ UNCHANGED turn
                      \/ Fits(delta) /\ Goto("loop") /\ Charge(delta)
    /\ SameBatch /\ SameRun
    /\ UNCHANGED <<conf, draft, used, cancelled, late>>

-----------------------------------------------------------------------------
(* The top of the loop: cancellation, wall time, then rig's next step.     *)

StoppedByUser ==                     \* mutant: the deadline is not watched
    /\ pc \in {"loop", "stream", "streaming"}
    /\ cancelled /\ End("Cancelled")
    /\ SameBatch /\ SameRun /\ Quiet
    /\ UNCHANGED <<conf, draft, used, turn, cancelled, late>>

Stopped ==
    /\ pc \in {"loop", "stream", "streaming"}
    /\ \/ cancelled /\ End("Cancelled")
       \/ late /\ (cancelled => pc = "streaming") /\ End("BudgetExhausted")
    /\ SameBatch /\ SameRun /\ Quiet
    /\ UNCHANGED <<conf, draft, used, turn, cancelled, late>>

Running == ~cancelled /\ ~late

(* rig refuses a model call beyond its max_turns.                          *)
OutOfTurns ==
    /\ pc = "loop" /\ Running
    /\ rig.phase = "call"
    /\ rig.turns >= rig.max
    /\ End(IF conf.profile = "redaction" THEN "ProtocolFailure" ELSE "BudgetExhausted")
    /\ SameBatch /\ SameRun /\ Quiet
    /\ UNCHANGED <<conf, draft, used, turn, cancelled, late>>

CallModel ==
    /\ pc = "loop" /\ Running
    /\ rig.phase = "call"
    /\ rig.turns < rig.max
    /\ rig' = [rig EXCEPT !.turns = @ + 1]
    /\ started' = started + 1
    /\ Goto("stream")
    /\ SameBatch /\ Quiet
    /\ UNCHANGED <<conf, draft, used, turn, retried, failure, cancelled, late>>

(* drive_streamed_turn checks both signals again and then polls the        *)
(* provider for the first time.                                            *)
Dispatch ==
    /\ pc = "stream" /\ Running
    /\ dispatched' = dispatched + 1
    /\ Goto("streaming")
    /\ SameBatch /\ SameRun
    /\ UNCHANGED <<conf, draft, used, turn, cancelled, late, denied, recorded>>

(* The stream fails: an error or an end before Completed, a size limit, or *)
(* arguments that are no JSON or that rig refuses.                         *)
StreamFails ==
    /\ pc = "streaming"
    /\ \E state \in {"ProviderFailure", "BudgetExhausted", "ProtocolFailure"} :
          End(state)
    /\ SameBatch /\ SameRun /\ Quiet
    /\ UNCHANGED <<conf, draft, used, turn, cancelled, late>>

(* The turn completes.  A signal that came after the last poll is not seen *)
(* here.  Then the batch, if any, is the rig's next step, and the caller   *)
(* applies the turn.                                                       *)
TurnCompletes(batch_of, tokens) ==
    LET delta == [Usage("model_calls", 1) EXCEPT !["input_tokens"] = tokens]
    IN /\ pc = "streaming"
       /\ \/ /\ ~Fits(delta)
             /\ End("BudgetExhausted")
             /\ UNCHANGED <<used, turn, rig, calls, at, batch>>
          \/ /\ Fits(delta)
             /\ Goto("loop")
             /\ used' = Plus(used, Plus(turn, delta))
             /\ turn' = NoUsage
             /\ rig' = [rig EXCEPT !.phase = IF batch_of = <<>> THEN "done" ELSE "tools"]
             /\ calls' = batch_of /\ at' = 1 /\ batch' = NoBatch
       /\ Quiet
       /\ UNCHANGED <<conf, draft, started, retried, failure, cancelled, late>>

-----------------------------------------------------------------------------
(* Context overflow.  Only the redaction run recovers, and only once.      *)

OverflowRefused ==
    \/ conf.profile # "redaction" /\ End("ProviderFailure")
    \/ /\ conf.profile = "redaction"
       /\ \/ retried /\ End("ContextOverflow")
          \/ ~retried /\ ~conf.durable /\ End("ContextRecoveryFailure")
          \/ /\ ~retried /\ conf.durable
             /\ \/ started >= MaxTurns /\ End("ProtocolFailure")
                \/ /\ started < MaxTurns
                   /\ ~Fits(Usage("model_calls", 1))
                   /\ End("BudgetExhausted")

Overflow ==
    /\ pc = "streaming"
    /\ \/ OverflowRefused /\ UNCHANGED used
       \/ /\ conf.profile = "redaction" /\ ~retried /\ conf.durable
          /\ started < MaxTurns
          /\ Fits(Usage("model_calls", 1))
          /\ used' = Plus(used, Usage("model_calls", 1))   \* charge_model_dispatch
          /\ IF cancelled THEN End("Cancelled") ELSE Goto("load")
    /\ SameBatch /\ SameRun /\ Quiet
    /\ UNCHANGED <<conf, draft, turn, cancelled, late>>

(* The continuity source is read, for at most thirty seconds; neither      *)
(* signal interrupts it.  The snapshot may be missing, corrupt or stale.   *)
LoadFails ==
    /\ pc = "load"
    /\ End("ContextRecoveryFailure")
    /\ SameBatch /\ SameRun /\ Quiet
    /\ UNCHANGED <<conf, draft, used, turn, cancelled, late>>

RestartAfresh ==                     \* mutant: a fresh turn count
    /\ pc = "load"
    /\ ~cancelled
    /\ ~StaleEvidence(draft)
    /\ rig' = NewRig(MaxTurns)
    /\ retried' = TRUE
    /\ ApplyTurn
    /\ Goto("loop")
    /\ SameBatch /\ Quiet
    /\ UNCHANGED <<conf, draft, started, failure, cancelled, late>>

Restart ==
    /\ pc = "load"
    /\ ~cancelled
    /\ ~StaleEvidence(draft)
    /\ rig' = NewRig(MaxTurns - started)
    /\ retried' = TRUE
    /\ ApplyTurn
    /\ Goto("loop")
    /\ SameBatch /\ Quiet
    /\ UNCHANGED <<conf, draft, started, failure, cancelled, late>>

-----------------------------------------------------------------------------
(* The redaction run's tool turn.                                          *)

BatchUsage ==
    [Usage("tool_calls", Len(calls)) EXCEPT
        !["dry_run_attempts"] = Cardinality({i \in DOMAIN calls : calls[i] = "dry_run"})]

BeginTools ==
    /\ pc = "loop" /\ Running
    /\ conf.profile = "redaction" /\ rig.phase = "tools"
    /\ \/ ~Fits(BatchUsage) /\ End("BudgetExhausted") /\ UNCHANGED turn
       \/ Fits(BatchUsage) /\ Goto("tools") /\ Charge(BatchUsage)
    /\ SameBatch /\ SameRun /\ Quiet
    /\ UNCHANGED <<conf, draft, used, cancelled, late>>

(* The call at hand ends the batch without entering its body: the tool is  *)
(* unknown, the run is cancelled, the arguments are too large, or the      *)
(* operation is not granted.                                               *)
CallRefused ==
    /\ pc = "tools" /\ conf.profile = "redaction"
    /\ LET name == calls[at] IN
       \/ /\ name \notin RedactionTools \/ cancelled \/ Authorized(name)
          /\ batch' = [batch EXCEPT !.stopped = "error"]
          /\ UNCHANGED denied
       \/ /\ name \in RedactionTools /\ ~cancelled
          /\ ~Authorized(name)
          /\ batch' = [batch EXCEPT !.stopped = "denied"]
          /\ denied' = TRUE
    /\ Goto("results")
    /\ SameRun
    /\ UNCHANGED <<conf, calls, at, draft, used, turn, cancelled, late,
                   dispatched, recorded>>

MayEnterWhenCancelled(name) ==       \* mutant: the check before each call dropped
    /\ pc = "tools" /\ conf.profile = "redaction"
    /\ calls[at] = name
    /\ Authorized(name)

MayEnter(name) ==
    /\ pc = "tools" /\ conf.profile = "redaction"
    /\ calls[at] = name
    /\ ~cancelled
    /\ Authorized(name)

(* The body of one call and what the driver notes of its result: an error  *)
(* if it is larger than the registry allows, although the draft has        *)
(* changed.  A terminal tool that succeeds stops the batch.                *)
ResultTooLarge(name, outcome) ==
    /\ MayEnter(name)
    /\ draft' = outcome.draft
    /\ batch' = [batch EXCEPT !.stopped = "error"]
    /\ Goto("results")
    /\ SameRun /\ Quiet
    /\ UNCHANGED <<conf, calls, at, used, turn, cancelled, late>>

Accept(name, outcome) ==
    /\ MayEnter(name)
    /\ draft' = outcome.draft
    /\ LET ok == outcome.kind = "success"
           stop == CASE ok /\ name = "submit_for_review" -> "submitted"
                     [] ok /\ name = "request_user_input" -> "asked"
                     [] OTHER -> None
       IN /\ batch' = [stopped |-> stop,
                       candidate_count |-> batch.candidate_count + outcome.candidate_count,
                       successes |-> IF ok THEN batch.successes + 1 ELSE batch.successes]
          /\ failure' = CASE ~ok /\ name = "validate_source" -> "SourceValidationFailure"
                          [] ~ok /\ name = "dry_run" -> "RuntimeFailure"
                          [] OTHER -> failure
          /\ IF stop # None \/ at = Len(calls)
             THEN Goto("results") /\ UNCHANGED at
             ELSE Goto("tools") /\ at' = at + 1
    /\ Quiet
    /\ UNCHANGED <<conf, calls, rig, used, turn, started, retried, cancelled, late>>

Execute(name, outcome) == Accept(name, outcome) \/ ResultTooLarge(name, outcome)

(* The generation in a call's arguments is the model's: right or stale.    *)
Generations == 0 .. draft.generation

CallReplaceSource ==
    \E g \in Generations, s \in Sources :
        Execute("replace_source", ReplaceSource(draft, g, s))
CallEditSource ==
    \E g \in Generations, s \in Sources, once \in BOOLEAN :
        Execute("edit_source", EditSource(draft, g, s, once))
CallValidateSource ==
    \E g \in Generations, s \in Sources :
        Execute("validate_source", ValidateSource(draft, g, s))
CallDryRun ==
    \E g \in Generations, s \in Sources, ok \in BOOLEAN, n \in 0 .. MaxAmount :
        Execute("dry_run", DryRun(draft, g, s, ok, n))
CallSubmitForReview ==
    \E g \in Generations : Execute("submit_for_review", SubmitForReview(draft, g))
CallRequestUserInput == Execute("request_user_input", Success(draft))
CallReadCurrentSource == Execute("read_current_source", Success(draft))

(* run_tool_turn after the batch: the results in order.  They may exceed   *)
(* the result-bytes limit before the one that stopped the batch is met.    *)
ResultsTooLarge ==
    /\ pc = "results"
    /\ batch.successes > 0
    /\ End("BudgetExhausted")
    /\ SameBatch /\ SameRun /\ Quiet
    /\ UNCHANGED <<conf, draft, used, turn, cancelled, late>>

ResultsFail ==
    /\ pc = "results"
    /\ \/ batch.stopped = "error" /\ End("ProtocolFailure") /\ UNCHANGED denied
       \/ batch.stopped = "denied" /\ Denied("ProtocolFailure")
    /\ SameBatch /\ SameRun
    /\ UNCHANGED <<conf, draft, used, turn, cancelled, late, dispatched, recorded>>

(* The usage known only after the calls ran is charged, then a terminal    *)
(* tool ends the run; otherwise rig gets the results and the turn is       *)
(* applied at the bottom of the loop.                                      *)
ResultsTaken ==
    LET delta == Usage("candidate_count", batch.candidate_count)
    IN /\ pc = "results"
       /\ batch.stopped \in {None, "submitted", "asked"}
       /\ \/ /\ ~Fits(delta)
             /\ End("BudgetExhausted")
             /\ UNCHANGED <<used, turn, rig>>
          \/ /\ Fits(delta)
             /\ used' = Plus(used, Plus(turn, delta))
             /\ turn' = NoUsage
             /\ \/ /\ batch.stopped = "asked"
                   /\ End("NeedsUserInput")
                   /\ UNCHANGED rig
                \/ /\ batch.stopped = "submitted"
                   /\ IF ~AccumulatedFits(used') THEN End("BudgetExhausted")
                      ELSE IF draft.pending_ready_for_review = NoHandoff
                      THEN End("RuntimeFailure")
                      ELSE End("ReadyForReview")
                   /\ UNCHANGED rig
                \/ /\ batch.stopped = None
                   /\ Goto("loop")
                   /\ rig' = [rig EXCEPT !.phase = "call"]
       /\ calls' = <<>> /\ at' = 1 /\ batch' = NoBatch
       /\ Quiet
       /\ UNCHANGED <<conf, draft, started, retried, failure, cancelled, late>>

-----------------------------------------------------------------------------
(* The visual run's tool turn: one submit call, authorised before it is    *)
(* looked at.                                                              *)
VisualTools ==
    /\ pc = "loop" /\ Running
    /\ conf.profile = "visual" /\ rig.phase = "tools"
    /\ \/ /\ ~Authorized("submit")
          /\ Denied("AuthorityDenied") /\ UNCHANGED <<turn, recorded, dispatched>>
       \/ /\ Authorized("submit")
          /\ Quiet
          /\ \/ End("ProtocolFailure") /\ UNCHANGED turn   \* the payload does not decode
             \/ /\ calls = <<"submit">>
                /\ \/ /\ ~Fits(Usage("tool_calls", 1))
                      /\ End("BudgetExhausted") /\ UNCHANGED turn
                   \/ /\ Fits(Usage("tool_calls", 1))
                      /\ Charge(Usage("tool_calls", 1))
                      /\ Goto("tools")
    /\ SameBatch /\ SameRun
    /\ UNCHANGED <<conf, draft, used, cancelled, late>>

VisualSubmit ==
    /\ pc = "tools" /\ conf.profile = "visual"
    /\ \/ cancelled /\ End("ProtocolFailure") /\ UNCHANGED <<used, turn>>
       \/ ~cancelled /\ End("Submitted") /\ ApplyTurn
    /\ SameBatch /\ SameRun /\ Quiet
    /\ UNCHANGED <<conf, draft, cancelled, late>>

-----------------------------------------------------------------------------
(* The single-submit run's tool turn.  The terminal call must be alone;    *)
(* auxiliary calls are executed one by one, each charged and authorised on *)
(* its own.                                                                *)
SingleTools ==
    /\ pc = "loop" /\ Running
    /\ conf.profile = "single" /\ rig.phase = "tools"
    /\ LET names == {calls[i] : i \in DOMAIN calls}
           accepted == calls = <<"submit">> \/ names = {"auxiliary"}
       IN IF accepted THEN Goto("tools") ELSE End("ProtocolFailure")
    /\ SameBatch /\ SameRun /\ Quiet
    /\ UNCHANGED <<conf, draft, used, turn, cancelled, late>>

(* What a single call may come to before it succeeds: the charge does not  *)
(* fit, the operation is not granted, the tool fails (or the run is        *)
(* cancelled), or the bytes it returned do not fit.                        *)
SingleCallFails(bytes) ==
    LET call == Usage("tool_calls", 1)
    IN /\ pc = "tools" /\ conf.profile = "single"
       /\ \/ ~Fits(call) /\ End("BudgetExhausted") /\ UNCHANGED turn /\ Quiet
          \/ /\ Fits(call) /\ ~Authorized(calls[at])
             /\ Denied("AuthorityDenied")
             /\ Charge(call)
             /\ UNCHANGED <<recorded, dispatched>>
          \/ /\ Fits(call) /\ Authorized(calls[at])
             /\ End("ProtocolFailure") /\ Charge(call) /\ Quiet
          \/ /\ Fits(call) /\ Authorized(calls[at]) /\ ~cancelled
             /\ ~Fits(Usage("result_bytes", bytes))
             /\ End("BudgetExhausted") /\ Charge(call) /\ Quiet
       /\ SameBatch /\ SameRun
       /\ UNCHANGED <<conf, draft, used, cancelled, late>>

SingleCallSucceeds(bytes) ==
    /\ pc = "tools" /\ conf.profile = "single"
    /\ ~cancelled
    /\ Authorized(calls[at])
    /\ Fits(Usage("tool_calls", 1))
    /\ Fits(Usage("result_bytes", bytes))

SingleUsage(bytes) == [Usage("tool_calls", 1) EXCEPT !["result_bytes"] = bytes]

(* The terminal tool: the run hands its arguments to the caller.           *)
SingleSubmit(bytes) ==
    /\ SingleCallSucceeds(bytes)
    /\ calls[at] = "submit"
    /\ End("Submitted")
    /\ used' = Plus(used, Plus(turn, SingleUsage(bytes)))
    /\ turn' = NoUsage
    /\ SameBatch /\ SameRun /\ Quiet
    /\ UNCHANGED <<conf, draft, cancelled, late>>

(* An auxiliary tool: its result, or its refusal of the arguments (which   *)
(* costs no result bytes), goes back to the model after the last call.     *)
SingleAuxiliary(bytes) ==
    /\ SingleCallSucceeds(bytes)
    /\ calls[at] = "auxiliary"
    /\ \/ /\ at < Len(calls)
          /\ Goto("tools")
          /\ Charge(SingleUsage(bytes))
          /\ at' = at + 1
          /\ UNCHANGED <<used, rig, calls, batch>>
       \/ /\ at = Len(calls)
          /\ Goto("loop")
          /\ used' = Plus(used, Plus(turn, SingleUsage(bytes)))
          /\ turn' = NoUsage
          /\ rig' = [rig EXCEPT !.phase = "call"]
          /\ calls' = <<>> /\ at' = 1 /\ batch' = NoBatch
    /\ Quiet
    /\ UNCHANGED <<conf, draft, started, retried, failure, cancelled, late>>

-----------------------------------------------------------------------------
(* The model stopped calling tools.  The single-submit run looks at the    *)
(* prose of this last turn: some, or none.                                 *)
Done ==
    /\ pc = "loop" /\ Running
    /\ rig.phase = "done"
    /\ \/ /\ conf.profile = "redaction"
          /\ ApplyTurn
          /\ IF ~AccumulatedFits(used') THEN End("BudgetExhausted")
             ELSE IF failure # None THEN End(failure) ELSE End("ProtocolFailure")
       \/ /\ conf.profile = "visual"
          /\ End("ProtocolFailure") /\ UNCHANGED <<used, turn>>
       \/ /\ conf.profile = "single"
          /\ \E state \in {"TextCompleted", "ProtocolFailure"} : End(state)
          /\ UNCHANGED <<used, turn>>
    /\ SameBatch /\ SameRun /\ Quiet
    /\ UNCHANGED <<conf, draft, cancelled, late>>

(* The audit sink answers.                                                 *)
AuditAnswers ==
    /\ pc = "audit"
    /\ \/ End(after) /\ recorded' = TRUE
       \/ End("AuditFailure") /\ UNCHANGED recorded
    /\ SameBatch /\ SameRun
    /\ UNCHANGED <<conf, draft, used, turn, cancelled, late, dispatched, denied>>

-----------------------------------------------------------------------------
(* The user cancels; the wall-time budget runs out.                        *)
Cancel ==
    /\ ~cancelled /\ pc # "end"
    /\ cancelled' = TRUE
    /\ UNCHANGED <<conf, pc, terminal, after, rig, calls, at, batch, draft, used,
                   turn, started, retried, failure, late, dispatched,
                   denied, recorded>>

DeadlinePasses ==
    /\ ~late /\ pc # "end"
    /\ late' = TRUE
    /\ UNCHANGED <<conf, pc, terminal, after, rig, calls, at, batch, draft, used,
                   turn, started, retried, failure, cancelled, dispatched,
                   denied, recorded>>

ModelAnswers ==
    \E b \in Batches[conf.profile], tokens \in 0 .. MaxAmount : TurnCompletes(b, tokens)

ProviderStep == ModelAnswers \/ StreamFails \/ Overflow

ToolCall ==
    \/ CallRefused
    \/ CallReplaceSource \/ CallEditSource \/ CallValidateSource \/ CallDryRun
    \/ CallSubmitForReview \/ CallRequestUserInput \/ CallReadCurrentSource
    \/ VisualSubmit
    \/ \E bytes \in 0 .. MaxAmount :
          SingleCallFails(bytes) \/ SingleSubmit(bytes) \/ SingleAuxiliary(bytes)

(* What the program does by itself, the answers of its own tools, of the   *)
(* task store and of the audit journal included; not what the provider     *)
(* does.                                                                   *)
DriverStep ==
    \/ Preflight \/ Stopped \/ OutOfTurns \/ CallModel \/ Dispatch
    \/ LoadFails \/ Restart
    \/ BeginTools \/ VisualTools \/ SingleTools \/ ToolCall
    \/ ResultsTooLarge \/ ResultsFail \/ ResultsTaken
    \/ Done \/ AuditAnswers

Next == DriverStep \/ ProviderStep \/ Cancel \/ DeadlinePasses

Spec == Init /\ [][Next]_vars

(* The runtime polls a ready future, and time passes.  Nothing is assumed  *)
(* of the provider: it may stay silent for ever.                           *)
Fairness == WF_vars(DriverStep) /\ WF_vars(DeadlinePasses)

LiveSpec == Spec /\ Fairness

-----------------------------------------------------------------------------
(* Correctness.                                                            *)

(* A run that ends in success stayed within every dimension of its budget, *)
(* although check_budget does not count what the turn already charged and  *)
(* a batch of auxiliary calls can exceed it: the next charge notices.      *)
SuccessWithinBudget ==
    terminal \in Successes => \A x \in Dims : used[x] <= conf.budget[x]

(* What the user is asked to review is the draft's current source, which   *)
(* passed validation, and the very source the proposal was computed from.  *)
ReadyIsEvidenced ==
    terminal = "ReadyForReview" =>
        LET ready == draft.pending_ready_for_review
        IN /\ ready.generation = draft.generation
           /\ ready.source = draft.source
           /\ ready.validated = ready.source
           /\ ready.dry_run = ready.source
           /\ ready.source \in ValidSources
           /\ Stage(draft) = "ReadyToSubmit"

(* Evidence never outlives its result, whatever the order of edits,        *)
(* validations and dry runs, so that a recovery after an overflow is never *)
(* refused for StaleEvidence and a successful submission always has a      *)
(* handoff (finalize_ready_for_review's RuntimeFailure is not reached).    *)
EvidenceHasItsResult ==
    /\ ~StaleEvidence(draft)
    /\ batch.stopped = "submitted" => draft.pending_ready_for_review # NoHandoff

(* max_turns holds across the two rig instances of a run that recovered    *)
(* from an overflow, and the provider is asked at most once more than the  *)
(* budget of model calls allows (the call is charged when it completes).   *)
DispatchesBounded ==
    /\ dispatched <= MaxTurns
    /\ dispatched <= conf.budget["model_calls"] + 1

(* Once the authority has refused a call the run cannot succeed, and with  *)
(* an audit sink it ends with the denial on record, with the audit failure *)
(* or (the one way the denial is lost) because the results that precede it *)
(* in its batch are too large.                                             *)
DenialEndsTheRun ==
    denied => /\ terminal \notin Successes
              /\ (pc = "end" /\ conf.audit_sink) =>
                    recorded \/ terminal \in {"AuditFailure", "BudgetExhausted"}

(* "Persist the denial before returning any terminal" (driver.rs:1794).    *)
(* The results before the denied call are bounded first, and a batch of    *)
(* results that is too large ends the run with the denial unrecorded.      *)
DenialIsRecorded ==
    (denied /\ pc = "end" /\ conf.audit_sink) => recorded \/ terminal = "AuditFailure"

(* "The retry is unavailable when the remaining model-call budget cannot   *)
(* fund the additional dispatch."  The failed call is charged, but       *)
(* nothing checks that another fits: with one call left the retry is sent  *)
(* and its answer thrown away.                                             *)
RetryIsFunded ==
    (retried /\ pc = "streaming" /\ rig.turns = 1) =>
        used["model_calls"] + 1 <= conf.budget["model_calls"]

(* After the user cancels, no request goes to the provider and no tool     *)
(* touches the draft any more.                                             *)
CancelStopsWork ==
    [][cancelled => dispatched' = dispatched /\ draft' = draft]_vars

(* However silent the provider, a run ends.                                *)
RunEnds == <>(pc = "end")
=============================================================================
