------------------------------ MODULE TestPlans ------------------------------
(***************************************************************************)
(* The deterministic plans of core/line_development_runtime.py: for each   *)
(* reviewed task the regression test it adds, and where in its one target  *)
(* file.  Tasks are named by their ids and tests by their names without    *)
(* test_; a target file by one word of its name.                           *)
(*                                                                         *)
(* Every plan is a short edit around one anchor.  Whether it still fits    *)
(* depends on which tests earlier tasks of the same file have put there,   *)
(* and those come in any order.                                            *)
(***************************************************************************)
EXTENDS PlanRules

Row(kind, file, task, names, at) ==
  [kind |-> kind, file |-> file, task |-> task, names |-> names, at |-> at]

Before(file, task, name, test)   == Row("before", file, task, {name}, <<test>>)
Between(file, task, name, test)  == Row("between", file, task, {name}, <<test>>)
After(file, task, name, tests)   == Row("after", file, task, {name}, tests)
Inside(file, task, name)         == Row("inside", file, task, {name}, <<name>>)
Requires(file, task, names)      == Row("requires", file, task, names, <<>>)

ContinuationPlans == {
  Before("continuation", "continuous-loop-not-run-does-not-continue-regression",
    "continuation_gate_stops_when_task_is_not_run",
    "continuation_gate_stops_if_any_task_fails"),
  Before("continuation", "safe-continuation-depth-four-regression-20261026",
    "safe_continuation_depth_guard_accepts_depth_four",
    "continuation_depth_missing_fails_closed")}

RequiredTests == {
  Requires("decision", "control-tower-decision-priority-type-boundaries",
    {"priority_rejects_bool_float_and_out_of_range_values", "priority_accepts_integer_boundaries"}),
  Requires("orchestrator", "control-tower-recovery-evidence-identity-mismatch",
    {"recovery_evidence_identity_mismatch_fails_closed"}),
  Requires("orchestrator", "control-tower-run-identity-invalid-sha-regression",
    {"invalid_sha_format_fails_closed"}),
  Requires("orchestrator", "control-tower-run-identity-invalid-sha-regression-v2",
    {"invalid_sha_format_fails_closed"}),
  Requires("english", "english-core-image-rotation-user-isolation",
    {"vocabulary_rotation_is_independent_per_user"}),
  Requires("english", "english-core-image-rotation-user-isolation-v2",
    {"vocabulary_rotation_is_independent_per_user"}),
  Before("english", "english-core-image-unknown-word-safe-fallback",
    "unknown_core_image_word_fails_closed_without_guessing",
    "core_image_command_is_classified_as_english_learning_intent")}

RefillPlans == {
  Before("refill", "refill-rejects-malformed-completed-state",
    "refill_fails_closed_on_non_string_completed_state",
    "refill_fails_closed_when_recovery_ai_state_is_missing"),
  Before("refill", "refill-rejects-malformed-recovery-task-entry",
    "refill_fails_closed_on_malformed_recovery_ai_task_entry",
    "refill_fails_closed_on_invalid_recovery_ai_held_flag"),
  Before("refill", "refill-rejects-nonobject-recovery-task-map",
    "refill_fails_closed_on_nonobject_recovery_task_map",
    "refill_fails_closed_on_invalid_recovery_ai_schema")}

RefillLimitPlans == {
  Before("refill", "refill-rejects-boolean-catalog-addition-cap",
    "refill_rejects_boolean_catalog_addition_cap",
    "refill_rejects_duplicate_catalog_ids"),
  Before("refill", "refill-preserves-catalog-order-within-addition-cap",
    "refill_preserves_catalog_order_within_addition_cap",
    "refill_reports_catalog_exhaustion_by_durable_state"),
  Before("refill", "refill-rejects-non-ascii-task-id",
    "refill_rejects_non_ascii_task_id",
    "refill_rejects_duplicate_existing_queue_ids")}

ProgressPlans == {
  Before("history", "self-improvement-history-malformed-jsonl-regression",
    "read_jsonl_skips_malformed_rows_and_preserves_valid_order",
    "sanitizer_discards_raw_error_text_and_unknown_fields"),
  Before("progress", "distributed-loop-queue-progress-empty-queue-regression",
    "empty_runtime_queue_reports_zero_progress_for_not_run",
    "progress_uses_runtime_queue_and_counts_refill_tasks"),
  Before("progress", "distributed-loop-queue-progress-empty-queue-regression-v2",
    "empty_runtime_queue_reports_zero_progress_for_not_run_v2",
    "progress_uses_runtime_queue_and_counts_refill_tasks"),
  Before("progress", "queue-progress-excludes-not-run-results-regression",
    "progress_does_not_count_not_run_result_as_completion",
    "progress_uses_runtime_queue_and_counts_refill_tasks"),
  Before("progress", "queue-progress-excludes-not-run-results-regression-v2",
    "progress_does_not_count_not_run_result_as_completion",
    "progress_uses_runtime_queue_and_counts_refill_tasks"),
  Before("worker", "loop-deterministic-nochange-focused-test",
    "run_tests_can_verify_only_allowlisted_target_for_no_change",
    "worker_entrypoint_is_executable")}

StateIsolationPlans == {
  Inside("speaker", "ai-speaker-empty-transcript-no-brain-call",
    "ai_speaker_rejects_empty_transcript"),
  Before("recovery", "recovery-ai-state-isolation",
    "recovery_ai_state_isolation_between_task_ids",
    "same_deterministic_failure_is_not_repaired_repeatedly")}

HandEventPlans == {
  Between("schema", "hand-sign-uhip-contract-phase-start",
    "universal_event_accepts_hand_event_with_phase_start",
    "universal_event_rejects_application_specific_command"),
  Before("schema", "hand-sign-uhip-contract-left-hand",
    "universal_event_accepts_hand_event_with_left_hand",
    "universal_event_rejects_application_specific_command")}

RoutePlans == {
  Before("router", "router-regression-jobs-market-metadata",
    "routes_jobs_and_market_request_with_market_priority_metadata",
    "preserves_multi_specialist_candidates_and_priority"),
  Before("router", "router-regression-english-casefold",
    "routes_mixed_case_english_request_for_distributed_loop",
    "preserves_multi_specialist_candidates_and_priority")}

RecognitionPlans == {
  After("schema", "hand-sign-uhip-contract-test",
    "universal_event_accepts_hand_event_with_recognition_failure",
    <<"adapter_schema_rejects_unknown_risk">>),
  Before("schema", "hand-sign-uhip-contract-negative-confidence",
    "universal_event_accepts_zero_confidence_hand_event",
    "adapter_schema_rejects_unknown_risk")}

SpacingPlans == {
  After("router", "router-regression-whitespace",
    "routes_jobs_request_with_surrounding_whitespace",
    <<"normalizes_full_width_input_and_preserves_channel_metadata">>),
  After("router", "router-regression-fullwidth-market",
    "routes_fullwidth_market_request_after_normalization",
    <<"routes_jobs_request_with_surrounding_whitespace", "normalizes_full_width_input_and_preserves_channel_metadata">>)}

CameraPlans == {
  Between("schema", "hand-sign-uhip-contract-iphone-camera",
    "universal_event_accepts_iphone_camera_hand_event",
    "universal_event_rejects_application_specific_command"),
  Between("schema", "hand-sign-uhip-contract-unknown-hand-label",
    "universal_event_accepts_unknown_hand_label",
    "universal_event_rejects_application_specific_command")}

RoutePriorityPlans == {
  Between("router", "router-regression-casefold-english",
    "routes_mixed_case_english_request",
    "preserves_multi_specialist_candidates_and_priority"),
  After("router", "router-regression-mixed-specialists",
    "preserves_market_priority_over_jobs_for_mixed_request",
    <<"normalizes_full_width_input_and_preserves_channel_metadata">>)}

ConfidencePlans == {
  Before("schema", "uhip-confidence-boundary-acceptance",
    "universal_event_accepts_confidence_boundary_values",
    "universal_event_rejects_application_specific_command"),
  Before("schema", "uhip-confidence-out-of-range-rejection",
    "universal_event_rejects_out_of_range_calibrated_confidence",
    "universal_event_rejects_application_specific_command")}

ApprovalPlans == {
  Before("router", "router-regression-stock-jobs-priority",
    "router_regression_stock_jobs_priority_distributed_loop",
    "preserves_market_priority_over_jobs_for_mixed_request"),
  Before("proposals", "proposal-generator-deduplicates-approved-task-ids-20261027",
    "duplicate_approved_issues_with_same_registered_task_id_are_queued_once",
    "approved_tasks_respect_remaining_queue_capacity"),
  Before("router", "router-regression-market-channel-metadata",
    "router_regression_market_channel_metadata_distributed_loop",
    "normalizes_full_width_input_and_preserves_channel_metadata")}

MetadataPlans == {
  Before("readiness", "macos-readiness-audit-no-secret-leak",
    "readiness_report_never_exposes_bridge_key",
    "load_env_file_ignores_comments_and_strips_quotes"),
  Before("router", "router-regression-general-request-metadata",
    "router_regression_general_request_keeps_channel_and_request_metadata",
    "unresolved_request_records_empty_candidates"),
  Before("router", "router-regression-general-request-metadata-refresh-20261015",
    "router_regression_general_request_keeps_channel_and_request_metadata",
    "unresolved_request_records_empty_candidates"),
  Before("adapter", "recovery-ai-loop-adapter-durable-state-readback",
    "failure_record_survives_new_store_readback",
    "invalid_evidence_holds_for_human_review")}

LoopRecoveryPlans == {
  Inside("loop", "loop-test-recovery-state-isolation",
    "log_line_of_t1"),
  Before("refill", "loop-refill-empty-catalog-next-safe-test-20261023",
    "refill_selects_only_incomplete_unheld_unreviewed_catalog_tasks_within_cap",
    "refill_reports_catalog_exhaustion_by_durable_state"),
  Requires("refill", "refill-all-catalog-candidates-ineligible-regression",
    {"refill_reports_catalog_exhaustion_by_durable_state"})}

ExclusionPlans == {
  Before("trigger", "distributed-loop-dispatch-duplicate-active-run-guard-regression",
    "dispatch_does_not_post_when_run_is_already_active_distributed_loop",
    "dispatch_acknowledges_only_after_run_is_visible"),
  Before("proposals", "proposal-generator-resume-review-exclusion-regression",
    "approved_registered_task_is_not_queued_when_resume_requires_review",
    "approved_tasks_respect_remaining_queue_capacity"),
  Before("progress", "queue-progress-ignores-unrelated-pass-results-regression",
    "progress_ignores_pass_and_no_change_results_outside_runtime_queue",
    "progress_rejects_duplicate_queue_ids")}

CatalogPlans == {
  Before("proposals", "proposal-generator-conflicting-catalog-definitions-regression",
    "conflicting_duplicate_catalog_definitions_fail_closed",
    "fails_closed_on_missing_recovery_state"),
  Before("catalog", "catalog-exhaustion-adapter-deduplicates-duplicate-findings-20261031",
    "duplicate_catalog_candidates_are_deduplicated_within_report",
    "distributed_workflow_wires_analyzer_adapter_before_review_pool"),
  After("registry", "review-coverage-gap-703fa3c06b",
    "list_projects_returns_ordered_snapshot_without_exposing_registry",
    <<"project_record_to_dict_serializes_supported_agents_as_list">>)}

CommandPlans == {
  After("refill", "task-refill-cli-test-20261102",
    "refill_main_cli_adds_one_approved_task",
    <<"refill_selects_exactly_four_new_catalog_tasks_when_older_tasks_are_completed">>),
  After("refill", "task-refill-read-json-test-20261102",
    "read_json_rejects_non_object_root",
    <<"refill_main_cli_adds_one_approved_task", "refill_selects_exactly_four_new_catalog_tasks_when_older_tasks_are_completed">>),
  Before("analyzer", "catalog-exhaustion-analyzer-main-fail-closed-20261105",
    "main_fails_closed_on_malformed_recovery_state",
    "public_function_discovery_skips_protocol_and_abstract_stubs")}

Rows == UNION {
  ContinuationPlans, RequiredTests, RefillPlans, RefillLimitPlans, ProgressPlans,
  StateIsolationPlans, HandEventPlans, RoutePlans, RecognitionPlans, SpacingPlans,
  CameraPlans, RoutePriorityPlans, ConfidencePlans, ApprovalPlans, MetadataPlans,
  LoopRecoveryPlans, ExclusionPlans, CatalogPlans, CommandPlans}

-----------------------------------------------------------------------------
RowOf(task) == CHOOSE row \in Rows : row.task = task

\* _DETERMINISTIC_AUTONOMOUS_TASK_TARGETS.
TargetedTasks == {row.task : row \in Rows} \ {"loop-test-recovery-state-isolation"}
Target(task)  == RowOf(task).file

\* Mutant: the anchors forget that the unknown label's test may be the last one.
EndsOpenButUnknown(piece) ==
  \/ piece.test \in {
       "universal_event_accepts_hand_event_with_recognition_failure",
       "universal_event_accepts_zero_confidence_hand_event",
       "universal_event_accepts_hand_event_with_phase_start",
       "universal_event_accepts_iphone_camera_hand_event",
       "universal_event_accepts_confidence_boundary_values",
       "universal_event_rejects_out_of_range_calibrated_confidence",
       "universal_event_accepts_generic_hand_event"}
  \/ piece = Piece("universal_event_accepts_hand_event_with_left_hand", "kept")

\* The tests of the schema file whose last line, and the two empty lines behind
\* it, begin the anchor of the "between" plans.  One of them is not followed by
\* empty lines when its own plan has put it there.
EndsOpen(piece) ==
  \/ piece.test \in {
       "universal_event_accepts_hand_event_with_recognition_failure",
       "universal_event_accepts_zero_confidence_hand_event",
       "universal_event_accepts_hand_event_with_phase_start",
       "universal_event_accepts_iphone_camera_hand_event",
       "universal_event_accepts_unknown_hand_label",
       "universal_event_accepts_confidence_boundary_values",
       "universal_event_rejects_out_of_range_calibrated_confidence",
       "universal_event_accepts_generic_hand_event"}
  \/ piece = Piece("universal_event_accepts_hand_event_with_left_hand", "kept")

\* _deterministic_autonomous_test_plan, for a task and its own target: nothing to
\* do when the test is there, no plan when its anchor is missing or not unique.
DeterministicPlan(task, text) ==
  LET row    == RowOf(task)
      here   == SelectSeq(row.at, LAMBDA test : test \in TestNames(text))
      anchor == SelectSeq(text, LAMBDA p : p.test = Head(here))
      at     == CHOOSE i \in DOMAIN text : text[i] = anchor[1]
      new    == Piece(CHOOSE name \in row.names : TRUE, "new")
  IN  IF row.kind # "inside" /\ row.names \subseteq TestNames(text) THEN NoChange
      ELSE IF here = <<>> THEN Refused
      ELSE IF Len(anchor) # 1 THEN Refused
      ELSE CASE row.kind = "before"  -> Edit(anchor, <<new>> \o anchor)
             [] row.kind = "after"   -> Edit(anchor, anchor \o <<new>>)
             [] row.kind = "between" ->
                  IF at > 1 /\ EndsOpen(text[at - 1])
                  THEN Edit(<<text[at - 1], text[at]>>, <<text[at - 1], new, text[at]>>)
                  ELSE Refused
             [] row.kind = "inside"  ->
                  IF anchor[1].body = "strengthened" THEN NoChange
                  ELSE Edit(anchor, <<Piece(anchor[1].test, "strengthened")>>)
=============================================================================
