------------------------------ MODULE MCWorkers ------------------------------
(* The test files of the reviewed tasks as they are committed: of each, the *)
(* tests that some plan looks at, in order.                                 *)
EXTENDS Workers

Kept(names) == [i \in DOMAIN names |-> Piece(names[i], "kept")]

MCText0 == [
  continuation |-> Kept(<<"continuation_gate_stops_if_any_task_fails",
    "continuation_gate_stops_when_task_is_not_run",
    "continuation_depth_missing_fails_closed">>),
  decision |-> Kept(<<"priority_rejects_bool_float_and_out_of_range_values",
    "priority_accepts_integer_boundaries">>),
  orchestrator |-> Kept(<<"recovery_evidence_identity_mismatch_fails_closed",
    "invalid_sha_format_fails_closed">>),
  english |-> Kept(<<"vocabulary_rotation_is_independent_per_user",
    "unknown_core_image_word_fails_closed_without_guessing",
    "core_image_command_is_classified_as_english_learning_intent">>),
  refill |-> Kept(<<"refill_rejects_duplicate_catalog_ids",
    "refill_rejects_duplicate_existing_queue_ids",
    "refill_fails_closed_when_recovery_ai_state_is_missing",
    "refill_fails_closed_on_invalid_recovery_ai_schema",
    "refill_fails_closed_on_malformed_recovery_ai_task_entry",
    "refill_fails_closed_on_invalid_recovery_ai_held_flag",
    "refill_reports_catalog_exhaustion_by_durable_state",
    "refill_selects_exactly_four_new_catalog_tasks_when_older_tasks_are_completed">>),
  history |-> Kept(<<"sanitizer_discards_raw_error_text_and_unknown_fields">>),
  progress |-> Kept(<<"progress_does_not_count_not_run_result_as_completion",
    "progress_uses_runtime_queue_and_counts_refill_tasks",
    "progress_rejects_duplicate_queue_ids">>),
  worker |-> Kept(<<"run_tests_can_verify_only_allowlisted_target_for_no_change",
    "worker_entrypoint_is_executable">>),
  speaker |-> <<Piece("ai_speaker_rejects_empty_transcript", "strengthened")>>,
  recovery |-> Kept(<<"same_deterministic_failure_is_not_repaired_repeatedly">>),
  schema |-> Kept(<<"universal_event_accepts_confidence_boundary_values",
    "universal_event_rejects_out_of_range_calibrated_confidence",
    "universal_event_accepts_hand_event_with_phase_start",
    "universal_event_accepts_hand_event_with_left_hand",
    "universal_event_rejects_application_specific_command",
    "adapter_schema_rejects_unknown_risk">>),
  router |-> Kept(<<"routes_jobs_and_market_request_with_market_priority_metadata",
    "routes_mixed_case_english_request_for_distributed_loop",
    "preserves_multi_specialist_candidates_and_priority",
    "unresolved_request_records_empty_candidates",
    "normalizes_full_width_input_and_preserves_channel_metadata",
    "preserves_market_priority_over_jobs_for_mixed_request">>),
  proposals |-> Kept(<<"fails_closed_on_missing_recovery_state",
    "duplicate_approved_issues_with_same_registered_task_id_are_queued_once",
    "approved_tasks_respect_remaining_queue_capacity">>),
  readiness |-> Kept(<<"readiness_report_never_exposes_bridge_key",
    "load_env_file_ignores_comments_and_strips_quotes">>),
  adapter |-> Kept(<<"invalid_evidence_holds_for_human_review">>),
  loop |-> <<>>,
  trigger |-> Kept(<<"dispatch_acknowledges_only_after_run_is_visible">>),
  catalog |-> Kept(<<"duplicate_catalog_candidates_are_deduplicated_within_report",
    "distributed_workflow_wires_analyzer_adapter_before_review_pool">>),
  registry |-> Kept(<<"project_record_to_dict_serializes_supported_agents_as_list">>),
  analyzer |-> Kept(<<"public_function_discovery_skips_protocol_and_abstract_stubs">>),
  code       |-> <<Code("a"), Code("b")>>,
  spec       |-> <<Code("imports"), Piece("first", "kept"), Piece("second", "kept")>>,
  dispatcher |-> <<Flow, Code("rest")>>,
  operations |-> <<Piece("read_only_guard", "kept")>>]
=============================================================================
