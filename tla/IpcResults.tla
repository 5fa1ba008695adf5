----------------------------- MODULE IpcResults ------------------------------
(***************************************************************************)
(* observability-ipc-result-validation*.ts: what the external adapter asks *)
(* of a successful result before it is trusted, operation by operation.    *)
(* The tables read as those of IpcValidation.                              *)
(***************************************************************************)
EXTENDS IpcShapes

isRecord == One({"object", "moment"})
AnyList  == List(Classes \cup {"nothing"})

\* validateResultEnvelopeFields
envelope == [dbPath |-> Name, storeFound |-> Flag]

\* Mutant: a list is checked to be one, its items are not.
UncheckedList(shape) == AnyList

\* A list whose items each go to the validator of their shape.
CheckedList(shape) == ListOf(Ref(shape))

-----------------------------------------------------------------------------
\* Traces.
traceStats ==
    Each({"total_count", "partial_output_count"}, Whole) @@
    Each({"average_gateway_residency_ms", "average_upstream_ttft_ms",
          "average_upstream_duration_ms"}, Opt(Nullable(Amount))) @@
    [outcome_counts |-> CheckedList("traceStatsOutcomeCount"),
     top_failing_routes |-> CheckedList("traceStatsTopFailingRoute")]

outcomeCount    == [outcome |-> Name, count |-> Whole]
topFailingRoute == [route |-> Name, count |-> Whole]

validateTraceStatsResult == envelope @@ [stats |-> Ref("traceStatsRecord")]

validateRequestExecutionRecord ==
    Each({"id", "request_id", "started_at", "request_received_at", "client_api_mode",
          "outcome"}, Name) @@
    Each({"completed_at", "route_resolved_at", "upstream_request_started_at",
          "upstream_response_started_at", "upstream_response_completed_at",
          "client_response_started_at", "client_response_completed_at", "route_id",
          "route_name", "model_id", "provider_id", "provider_model_id",
          "upstream_api_mode", "failure_stage", "failure_reason", "currency"},
         Nullable(Name)) @@
    Each({"status_code", "latency_ms", "ttft_ms", "duration_ms", "input_tokens",
          "output_tokens", "total_tokens", "estimated_cost_micros",
          "switchmaxxer_pre_upstream_ms", "upstream_ttft_ms", "upstream_duration_ms",
          "switchmaxxer_post_upstream_ms", "client_write_ms", "gateway_residency_ms"},
         Nullable(Whole)) @@
    [observation_count |-> Whole, partial_output |-> Bit]

validateTraceListResult == envelope @@ [traces |-> CheckedList("requestExecutionRecord")]

validateObservationRecord ==
    Each({"id", "observed_at", "surface", "kind", "event"}, Name) @@
    Each({"ingested_at", "request_id", "trace_id", "span_id", "parent_span_id", "stage",
          "severity", "outcome", "route_id", "route_name", "model_id", "provider_id",
          "provider_model_id", "client_api_mode", "upstream_api_mode", "listener",
          "actor", "currency", "billing_source", "benchmark_run_id",
          "benchmark_case_id", "optimization_profile_id", "tags_json",
          "attributes_json", "message"}, Nullable(Name)) @@
    Each({"status_code", "latency_ms", "ttft_ms", "duration_ms", "request_bytes",
          "response_bytes", "input_tokens", "output_tokens", "total_tokens",
          "estimated_cost_micros"}, Nullable(Whole)) @@
    [attributes_truncated |-> Opt(Whole)]

validateTraceShowResult ==
    envelope @@
    [requestExecution |-> Nullable(Ref("requestExecutionRecord")),
     observations |-> CheckedList("observationRecord"),
     benchmarkSamples |-> CheckedList("benchmarkSampleRecord")]

validateTraceObservationsResult ==
    envelope @@ [observations |-> CheckedList("observationRecord")]

mismatch ==
    [field |-> Name,
     expected |-> Nullable(String \cup Number \cup One({"infinite"})),
     actual |-> Nullable(String \cup Number \cup One({"infinite"}))]

validateTraceVerificationResult ==
    [request_id |-> Name, status |-> Name, observation_count |-> Whole,
     mismatch_count |-> Whole, mismatches |-> CheckedList("mismatch")]

validateTraceRepairResult ==
    [request_id |-> Name, action |-> Name, observation_count |-> Whole,
     verification |-> Ref("traceVerification")]

validateTraceMaintenanceResult(item) == envelope @@ [results |-> CheckedList(item)]

-----------------------------------------------------------------------------
\* Retention, the Ledger and the control-plane audit.
validateRetentionPruneCounts ==
    Each({"observations_deleted", "request_executions_deleted", "benchmark_runs_deleted",
          "benchmark_samples_deleted", "cost_facts_deleted", "optimization_facts_deleted",
          "control_plane_action_events_deleted", "config_mutation_events_deleted",
          "config_snapshots_deleted", "total_deleted"}, Whole) @@
    [status |-> Name, cutoff_at |-> Name,
     failure_stage |-> Nullable(Name), failure_message |-> Nullable(Name)]

validateRetentionPruneResult == envelope @@ [result |-> Nullable(Ref("retentionPruneCounts"))]

validateControlPlaneActionEventRecord ==
    Each({"id", "created_at", "created_by", "source_surface", "actor_kind", "operation",
          "status", "target_kind", "correlation_ids_json", "result_json", "error_json",
          "metadata_json"}, Name) @@
    Each({"finished_at", "actor_id", "session_id", "target_id", "optimization_run_id",
          "mutation_event_id"}, Nullable(Name))

validateLedgerListResult == envelope @@ [events |-> CheckedList("controlPlaneActionEventRecord")]
validateLedgerShowResult ==
    envelope @@ [event |-> Nullable(Ref("controlPlaneActionEventRecord"))]

validateControlPlaneAuditStartResult  == envelope @@ [actionId |-> Nullable(Name)]
validateControlPlaneAuditFinishResult == envelope

-----------------------------------------------------------------------------
\* Benchmarks.
validateBenchmarkRunRecord ==
    Each({"id", "name", "created_at", "objective", "settings_json", "status"}, Name) @@
    [created_by |-> Nullable(Name), notes |-> Nullable(Name)]

validateBenchmarkRunSummary ==
    Each({"total_samples", "measured_samples", "warmup_samples", "success_count",
          "failed_count"}, Whole) @@
    Each({"average_latency_ms", "min_latency_ms", "max_latency_ms", "average_ttft_ms",
          "average_duration_ms"}, Opt(Nullable(Amount)))

validateBenchmarkSampleRecord ==
    Each({"id", "benchmark_run_id", "request_execution_id", "started_at", "outcome"},
         Name) @@
    Each({"route_id", "provider_id", "provider_model_id", "completed_at", "score_scale",
          "score_direction", "score_source", "score_method", "scored_at", "score_json"},
         Nullable(Name)) @@
    Each({"sample_index", "status_code", "latency_ms", "ttft_ms", "duration_ms",
          "input_tokens", "output_tokens", "total_tokens", "estimated_cost_micros",
          "is_warmup"}, Nullable(Whole)) @@
    [score_value |-> Nullable(Number)]

analysisByPath == [by_path |-> AnyList]

validateBenchmarkReportView ==
    [store_path |-> Opt(Name), run |-> isRecord, summary |-> Ref("benchmarkRunSummary"),
     execution |-> isRecord, analysis |-> Ref("benchmarkAnalysis"),
     samples |-> ListOf(isRecord)]

validateBenchmarkRunnerFailure ==
    Each({"kind", "code", "message"}, Name) @@ [details |-> Opt(isRecord)]

runnerSuccess ==
    [ok |-> Is("true"), benchmarkRunId |-> Name, run |-> Ref("benchmarkRunRecord"),
     summary |-> Ref("benchmarkRunSummary"), samples |-> CheckedList("benchmarkSampleRecord"),
     sampleViews |-> ListOf(isRecord), report |-> Ref("benchmarkReportView")]

runnerFailure == [ok |-> Is("false"), failure |-> Ref("benchmarkRunnerFailure")]

validateBenchmarkRunResult ==
    envelope @@ [result |-> Nullable(Either({"benchmarkRunnerSuccessResult",
                                             "benchmarkRunnerFailureResult"}))]

historyListItem == [run |-> Ref("benchmarkRunRecord"), summary |-> Ref("benchmarkRunSummary")]

validateBenchmarkHistoryListResult == envelope @@ [runs |-> CheckedList("benchmarkHistoryListItem")]

validateBenchmarkHistoryShowResult ==
    envelope @@
    [run |-> Nullable(Ref("benchmarkRunRecord")),
     summary |-> Nullable(Ref("benchmarkRunSummary")),
     samples |-> CheckedList("benchmarkSampleRecord")]

\* validateHistoryDeleteCounts
benchmarkDeleteCounts ==
    Each({"benchmark_runs_deleted", "benchmark_samples_deleted", "total_deleted"}, Whole)

validateBenchmarkHistoryDeleteResult ==
    envelope @@ [result |-> Nullable(Ref("benchmarkHistoryDeleteCounts"))]

-----------------------------------------------------------------------------
\* Optimization history and reports.
validateOptimizationRunRecord ==
    Each({"id", "created_at", "created_by", "target_model", "objective", "status",
          "settings_json", "candidate_snapshot_json", "result_json", "warnings_json"},
         Name) @@
    Each({"finished_at", "winner_route", "benchmark_run_id"}, Nullable(Name))

validateOptimizeReportRun ==
    Each({"status", "target_model", "objective"}, Name) @@
    Each({"run_id", "created_at", "finished_at", "created_by"}, Nullable(Name)) @@
    [persisted |-> Flag]

validateOptimizeReportCandidates ==
    [requested_routes |-> Nullable(ListOf(Name)), resolved_routes |-> ListOf(Name),
     disqualified |-> CheckedList("optimizeReportDisqualifiedCandidate")]

disqualifiedCandidate == Each({"route_id", "reason", "message"}, Name)

referenceTokens ==
    Each({"input_tokens", "output_tokens", "cache_read_tokens", "cache_write_tokens"}, Whole)

validateOptimizeReportBench ==
    [run_id |-> Name, summary |-> Ref("benchmarkRunSummary"), execution |-> isRecord]

validateOptimizeRankingEntry == [route_id |-> Name, score |-> Number]

validateOptimizeReportWinner ==
    [route_id |-> Name, score_unit |-> Name, score |-> Number, tied_with |-> ListOf(Name)]

validateOptimizeWarning == [code |-> Name, message |-> Name]

validateOptimizeReportView ==
    [store_path |-> Opt(Name), run |-> Ref("optimizeReportRun"),
     candidates |-> Ref("optimizeReportCandidates"),
     reference_tokens |-> Ref("optimizeReferenceTokens"),
     bench |-> Nullable(Ref("optimizeReportBench")),
     ranking |-> CheckedList("optimizeRankingEntry"), winner |-> Ref("optimizeReportWinner"),
     warnings |-> CheckedList("optimizeWarning")]

validateOptimizationReportPersistResult ==
    envelope @@ [report |-> Nullable(Ref("optimizeReportView"))]

validateOptimizationHistoryListResult ==
    envelope @@ [runs |-> CheckedList("optimizationRunRecord")]

validateOptimizationHistoryShowResult ==
    envelope @@ [run |-> Nullable(Ref("optimizationRunRecord"))]

optimizationDeleteCounts ==
    Each({"optimization_runs_deleted", "config_mutation_events_deleted",
          "config_snapshots_deleted", "total_deleted"}, Whole)

validateOptimizationHistoryDeleteResult ==
    envelope @@ [result |-> Nullable(Ref("optimizationHistoryDeleteCounts"))]

-----------------------------------------------------------------------------
\* Optimize mutations; the schema says nothing of these.
validateSerializedCostConfig == Each({"input", "output", "cache_read", "cache_write"}, Amount)

validateOptimizeRouteProviderStateView ==
    Each({"route_id", "service_provider", "provider_model_id", "api_mode"}, Name) @@
    [provider_endpoint |-> Nullable(Name), cost |-> Nullable(Ref("serializedCost"))]

validateOptimizeRouteFieldChange(endpoint) == [changed |-> Flag, from |-> endpoint, to |-> endpoint]

validateOptimizeApplyMutationView ==
    [field |-> Name, from |-> Name, to |-> Name, service_provider |-> Ref("nameChange"),
     provider_model_id |-> Ref("nameChange"), cost |-> Ref("costChange")]

validateOptimizeSnapshotView ==
    Each({"snapshot_id", "source_kind", "source_path", "content_sha256", "created_at"},
         Name) @@
    [content_bytes |-> Whole, retention_expires_at |-> Nullable(Name)]

validateOptimizeReloadView ==
    [requested |-> Flag, status |-> Name, exit_code |-> Nullable(Whole),
     command |-> Nullable(Name), message |-> Nullable(Name)]

validateOptimizeVerificationView == validateOptimizeReloadView @@ [route_id |-> Name]

\* What apply and restore views have in common; a restore view is checked as an
\* apply view whose winner is the target route.
mutationView ==
    Each({"run_id", "target_route"}, Name) @@
    [dry_run |-> Flag, changed |-> Flag, action_id |-> Nullable(Name),
     snapshot |-> Nullable(Ref("snapshotView")), reload |-> Nullable(Ref("reloadView")),
     verification |-> Nullable(Ref("verificationView")), warnings |-> ListOf(Name),
     mutation |-> Ref("mutationDetail"), before |-> Ref("routeState"),
     after |-> Ref("routeState")]

validateOptimizeApplyView ==
    mutationView @@ Each({"objective", "target_model", "winner_route"}, Name)

restoreMutation == Each({"field", "from", "to"}, Name)

validateOptimizeRestorePointView ==
    Each({"action_id", "operation", "created_at", "run_id", "target_route", "source_kind",
          "source_path", "original_provider_model_id"}, Name) @@
    [mutation |-> Ref("restoreMutation"), snapshot |-> Nullable(Ref("snapshotView")),
     original_cost |-> Nullable(Ref("serializedCost"))]

validateOptimizeRestoreView == mutationView @@ [restore_point |-> Ref("restorePoint")]

validateOptimizeMutationError ==
    [ok |-> Is("false"), code |-> Name, message |-> Name, details |-> isRecord]

\* The function that completes a deferred mutation cannot cross the boundary.
validateOptimizeMutationServiceResult(view) ==
    [ok |-> Is("true"), deferred |-> Flag, complete |-> One({"absent"}), changed |-> Flag,
     actionId |-> Nullable(Name), ledgerActionId |-> Name, view |-> Ref(view)]

validateOptimizeMutationResult(kind) ==
    envelope @@ [result |-> Nullable(Either({kind, "mutationError"}))]

-----------------------------------------------------------------------------
\* validateObservabilityIpcOperationResponseResult: the validator of every
\* operation's result.
traceResults ==
    "trace.list" :> validateTraceListResult @@
    "trace.listObservations" :> validateTraceObservationsResult @@
    "trace.getStats" :> validateTraceStatsResult @@
    "trace.show" :> validateTraceShowResult @@
    "trace.verify" :> validateTraceMaintenanceResult("traceVerification") @@
    "trace.repair" :> validateTraceMaintenanceResult("traceRepair") @@
    "retention.pruneOlderThan" :> validateRetentionPruneResult @@
    "ledger.list" :> validateLedgerListResult @@
    "ledger.show" :> validateLedgerShowResult @@
    "controlPlaneAudit.startConfigMutation" :> validateControlPlaneAuditStartResult @@
    "controlPlaneAudit.finishConfigMutation" :> validateControlPlaneAuditFinishResult

historyResults ==
    "benchmarkHistory.list" :> validateBenchmarkHistoryListResult @@
    "benchmarkHistory.show" :> validateBenchmarkHistoryShowResult @@
    "benchmarkHistory.pruneOlderThan" :> validateBenchmarkHistoryDeleteResult @@
    "benchmarkHistory.deleteRun" :> validateBenchmarkHistoryDeleteResult @@
    "benchmarkHistory.clear" :> validateBenchmarkHistoryDeleteResult @@
    "benchmarkRuns.run" :> validateBenchmarkRunResult @@
    "optimizationHistory.list" :> validateOptimizationHistoryListResult @@
    "optimizationHistory.show" :> validateOptimizationHistoryShowResult @@
    "optimizationHistory.pruneOlderThan" :> validateOptimizationHistoryDeleteResult @@
    "optimizationHistory.deleteRun" :> validateOptimizationHistoryDeleteResult @@
    "optimizationHistory.clear" :> validateOptimizationHistoryDeleteResult @@
    "optimizationReports.persistCost" :> validateOptimizationReportPersistResult @@
    "optimizationReports.persistLatency" :> validateOptimizationReportPersistResult @@
    "optimizeMutations.apply" :> validateOptimizeMutationResult("applyResult") @@
    "optimizeMutations.restore" :> validateOptimizeMutationResult("restoreResult")

recordValidators ==
    "traceStatsRecord" :> traceStats @@
    "traceStatsOutcomeCount" :> outcomeCount @@
    "traceStatsTopFailingRoute" :> topFailingRoute @@
    "requestExecutionRecord" :> validateRequestExecutionRecord @@
    "observationRecord" :> validateObservationRecord @@
    "traceVerification" :> validateTraceVerificationResult @@
    "traceRepair" :> validateTraceRepairResult @@
    "mismatch" :> mismatch @@
    "retentionPruneCounts" :> validateRetentionPruneCounts @@
    "controlPlaneActionEventRecord" :> validateControlPlaneActionEventRecord @@
    "benchmarkRunRecord" :> validateBenchmarkRunRecord @@
    "benchmarkRunSummary" :> validateBenchmarkRunSummary @@
    "benchmarkSampleRecord" :> validateBenchmarkSampleRecord @@
    "benchmarkAnalysis" :> analysisByPath @@
    "benchmarkReportView" :> validateBenchmarkReportView @@
    "benchmarkRunnerFailure" :> validateBenchmarkRunnerFailure @@
    "benchmarkRunnerSuccessResult" :> runnerSuccess @@
    "benchmarkRunnerFailureResult" :> runnerFailure @@
    "benchmarkHistoryListItem" :> historyListItem @@
    "benchmarkHistoryDeleteCounts" :> benchmarkDeleteCounts

viewValidators ==
    "optimizationRunRecord" :> validateOptimizationRunRecord @@
    "optimizeReportRun" :> validateOptimizeReportRun @@
    "optimizeReportCandidates" :> validateOptimizeReportCandidates @@
    "optimizeReportDisqualifiedCandidate" :> disqualifiedCandidate @@
    "optimizeReferenceTokens" :> referenceTokens @@
    "optimizeReportBench" :> validateOptimizeReportBench @@
    "optimizeRankingEntry" :> validateOptimizeRankingEntry @@
    "optimizeReportWinner" :> validateOptimizeReportWinner @@
    "optimizeWarning" :> validateOptimizeWarning @@
    "optimizeReportView" :> validateOptimizeReportView @@
    "optimizationHistoryDeleteCounts" :> optimizationDeleteCounts @@
    "serializedCost" :> validateSerializedCostConfig @@
    "routeState" :> validateOptimizeRouteProviderStateView @@
    "nameChange" :> validateOptimizeRouteFieldChange(Name) @@
    "costChange" :> validateOptimizeRouteFieldChange(Nullable(Ref("serializedCost"))) @@
    "mutationDetail" :> validateOptimizeApplyMutationView @@
    "snapshotView" :> validateOptimizeSnapshotView @@
    "reloadView" :> validateOptimizeReloadView @@
    "verificationView" :> validateOptimizeVerificationView @@
    "applyView" :> validateOptimizeApplyView @@
    "restoreMutation" :> restoreMutation @@
    "restorePoint" :> validateOptimizeRestorePointView @@
    "restoreView" :> validateOptimizeRestoreView @@
    "mutationError" :> validateOptimizeMutationError @@
    "applyResult" :> validateOptimizeMutationServiceResult("applyView") @@
    "restoreResult" :> validateOptimizeMutationServiceResult("restoreView")

\* The result of an operation goes by the operation's name.
resultValidators == traceResults @@ historyResults @@ recordValidators @@ viewValidators

=============================================================================
