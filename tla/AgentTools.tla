------------------------------ MODULE AgentTools ------------------------------
(***************************************************************************)
(* The tools of the redaction agent (src/crates/rollshot-agent/src/        *)
(* tools.rs) as operators on the draft they share (ToolContext and the     *)
(* DraftState of runtime.rs).  Every operator returns what the call        *)
(* reports and the draft it leaves.  A tool body runs without yielding, so *)
(* one call is one step of whoever composes this module.                   *)
(*                                                                         *)
(* Abstracted: sources are model values, ValidSources being those that     *)
(* rollshot_automation::validate_source accepts; diffs, previews and       *)
(* messages are left out.                                                  *)
(***************************************************************************)
EXTENDS Naturals

CONSTANTS
    Sources,
    ValidSources,
    InitSource,         \* the source the run starts from
    NoSource            \* a cache that is None

ASSUME SourcesAssumption ==
    /\ ValidSources \subseteq Sources
    /\ InitSource \in Sources
    /\ NoSource \notin Sources

Kinds == {"validation", "dry_run"}
Cached == Sources \cup {NoSource}

(* What submit_for_review leaves for the driver to hand over.              *)
Handoff == [generation : Nat, source : Cached, validated : Cached, dry_run : Cached]

NoHandoff == [generation |-> 0, source |-> NoSource,
              validated |-> NoSource, dry_run |-> NoSource]

Draft == [generation : Nat,
          evidence : SUBSET (Kinds \X Nat),   \* (kind, source_generation)
          source : Sources,
          last_validated : Cached,
          last_dry_run_source : Cached,       \* and the proposal stored with it
          pending_ready_for_review : Handoff]

NewDraft == [generation |-> 0, evidence |-> {}, source |-> InitSource,
             last_validated |-> NoSource, last_dry_run_source |-> NoSource,
             pending_ready_for_review |-> NoHandoff]

Success(d) == [kind |-> "success", draft |-> d, candidate_count |-> 0]
Recoverable(d) == [kind |-> "recoverable", draft |-> d, candidate_count |-> 0]

HasEvidence(d, kind) == <<kind, d.generation>> \in d.evidence

-----------------------------------------------------------------------------
RewriteSameGeneration(d, s) ==       \* mutant: next_generation forgotten
    [d EXCEPT !.source = s, !.last_validated = NoSource, !.last_dry_run_source = NoSource]

(* replace_source, and edit_source once its old text was found exactly     *)
(* once: the next generation, without evidence or cached results.          *)
Rewrite(d, s) ==
    [generation |-> d.generation + 1,
     evidence |-> {e \in d.evidence : e[2] <= d.generation},
     source |-> s,
     last_validated |-> NoSource,
     last_dry_run_source |-> NoSource,
     pending_ready_for_review |-> NoHandoff]

ReplaceSource(d, generation, s) ==
    IF generation = d.generation THEN Success(Rewrite(d, s)) ELSE Recoverable(d)

EditSource(d, generation, s, found_once) ==
    IF generation = d.generation /\ found_once
    THEN Success(Rewrite(d, s)) ELSE Recoverable(d)

(* validate_source checks the source it is GIVEN, which need not be the    *)
(* draft's.                                                                *)
ValidateSource(d, generation, s) ==
    IF generation = d.generation /\ s \in ValidSources
    THEN Success([d EXCEPT !.evidence = @ \cup {<<"validation", d.generation>>},
                           !.last_validated = s])
    ELSE Recoverable(d)

(* dry_run validates its source again and then executes it (executes: the  *)
(* execution and the proposal policy succeed).                             *)
DryRun(d, generation, s, executes, candidates) ==
    IF generation = d.generation /\ s \in ValidSources /\ executes
    THEN [Success([d EXCEPT !.evidence = @ \cup {<<"dry_run", d.generation>>},
                            !.last_dry_run_source = s])
            EXCEPT !.candidate_count = candidates]
    ELSE Recoverable(d)

MaySubmitUnchecked(d) ==             \* mutant: the evidence alone decides
    /\ HasEvidence(d, "validation")
    /\ HasEvidence(d, "dry_run")

(* submit_for_review: both kinds of evidence at this generation, and both  *)
(* about the current source.                                               *)
MaySubmit(d) ==
    /\ HasEvidence(d, "validation")
    /\ HasEvidence(d, "dry_run")
    /\ d.last_validated = d.source
    /\ d.last_dry_run_source = d.source

SubmitForReview(d, generation) ==
    IF generation = d.generation /\ MaySubmit(d)
    THEN Success([d EXCEPT !.pending_ready_for_review =
                    [generation |-> d.generation, source |-> d.source,
                     validated |-> d.last_validated,
                     dry_run |-> d.last_dry_run_source]])
    ELSE Recoverable(d)

(* The stage the recovery manifest reports: which step the restarted model *)
(* is told to take next (derive_stage).                                    *)
Stage(d) ==
    CASE HasEvidence(d, "validation") /\ HasEvidence(d, "dry_run") -> "ReadyToSubmit"
      [] HasEvidence(d, "validation") /\ ~HasEvidence(d, "dry_run") -> "NeedsDryRun"
      [] ~HasEvidence(d, "validation") /\ HasEvidence(d, "dry_run") -> "NeedsValidation"
      [] OTHER -> "Drafting"

(* The manifest refuses evidence whose result is gone (StaleEvidence).     *)
StaleEvidence(d) ==
    \/ HasEvidence(d, "validation") /\ d.last_validated = NoSource
    \/ HasEvidence(d, "dry_run") /\ d.last_dry_run_source = NoSource
=============================================================================
