----------------------------- MODULE MCAgentRun -----------------------------
(* A small instance of AgentRun: for each profile a caller that grants     *)
(* everything, callers whose authority lacks one operation, and budgets    *)
(* that run out in one dimension.                                          *)
EXTENDS AgentRun

Generous == [x \in Dims |-> 3]

Caller(profile) ==
    [profile |-> profile, budget |-> Generous, grants |-> Operations,
     audit_sink |-> TRUE, attachments |-> IF profile = "redaction" THEN 0 ELSE 1,
     full_screenshot |-> TRUE, durable |-> profile = "redaction"]

Without(operation, c) == [c EXCEPT !.grants = @ \ {operation}]
Short(x, n, c) == [c EXCEPT !.budget[x] = n]

Redaction == Caller("redaction")
Visual    == Caller("visual")
Single    == Caller("single")

MCConfs ==
    {Redaction,
     Without("WriteDraft", Redaction),
     [Without("SubmitReviewCandidate", Short("dry_run_attempts", 0, Redaction))
        EXCEPT !.audit_sink = FALSE],
     Without("InspectPreparedImage", Short("model_calls", 1, Redaction)),
     [Short("candidate_count", 0, Redaction) EXCEPT !.durable = FALSE],
     Visual,
     [Visual EXCEPT !.full_screenshot = FALSE],
     Without("DiscloseScreenshotAttachment", Visual),
     Without("SubmitReviewCandidate", Visual),
     Short("tool_calls", 0, Visual),
     Short("attachments", 0, Visual),
     Single,
     Without("SubmitReviewCandidate", Single),
     Without("ReadAuthorizedWorkspaceFile", Single),
     Short("tool_calls", 1, Single),
     Short("result_bytes", 1, Single),
     Short("input_tokens", 0, Single)}

(* Every call alone, and the pairs and triples whose order matters.        *)
MCBatches ==
    [redaction |->
        {<<>>} \cup {<<name>> : name \in RedactionTools \cup {"unknown"}} \cup
        {<<"validate_source", "dry_run">>,
         <<"dry_run", "submit_for_review">>,
         <<"dry_run", "validate_source", "submit_for_review">>,
         <<"submit_for_review", "replace_source">>,
         <<"request_user_input", "edit_source">>,
         <<"read_current_source", "replace_source">>,
         <<"validate_source", "unknown">>},
     visual |-> {<<>>, <<"submit">>, <<"unknown">>, <<"submit", "submit">>},
     single |-> {<<>>, <<"submit">>, <<"auxiliary">>, <<"unknown">>,
                 <<"auxiliary", "auxiliary">>, <<"auxiliary", "submit">>}]
=============================================================================
