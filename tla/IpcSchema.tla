------------------------------ MODULE IpcSchema ------------------------------
(***************************************************************************)
(* The JSON schema scripts/generate-observability-ipc-schema.js publishes  *)
(* for the observability IPC boundary: one definition per $defs entry that *)
(* describes an object, by the same name.  Every object is closed          *)
(* (additionalProperties: false), so a field that is not listed is absent. *)
(***************************************************************************)
EXTENDS IpcShapes

-----------------------------------------------------------------------------
\* Request payloads.
storeRef ==
    [dbPath |-> Name]

traceListFilters ==
    Each({"routeId", "providerId", "outcome"}, Opt(Name)) @@
    [limit |-> Opt(Positive)]

traceListPayload ==
    [filters |-> Opt(Ref("traceListFilters"))]

traceListObservationsFilters ==
    Each({"requestId", "routeId", "providerId", "kind", "event"},
          Opt(Name)) @@
    [limit |-> Opt(Positive)]

traceListObservationsPayload ==
    [filters |-> Opt(Ref("traceListObservationsFilters"))]

traceGetStatsPayload ==
    [filters |-> Opt(Ref("traceListFilters"))]

traceShowPayload ==
    [traceId |-> Name]

ledgerListFilters ==
    Each({"routeId", "targetId", "targetKind", "operation", "status",
          "sourceSurface", "sessionId", "optimizationRunId",
          "mutationEventId", "createdSince"}, Opt(Name)) @@
    [limit |-> Opt(Positive)]

ledgerListPayload ==
    [filters |-> Opt(Ref("ledgerListFilters"))]

ledgerShowPayload ==
    [ledgerEventId |-> Name]

retentionPruneOlderThanPayload ==
    [cutoffIso |-> Name]

benchmarkHistoryListPayload ==
    [limit |-> Positive]

benchmarkHistoryShowPayload ==
    [runId |-> Name]

benchmarkHistoryPruneOlderThanPayload ==
    [cutoffIso |-> Name]

benchmarkHistoryDeleteRunPayload ==
    [runId |-> Name]

benchmarkHistoryClearPayload ==
    NoFields

externalOptimizeCatalogSnapshotContext ==
    Each({"targetRoute", "winningRoute", "restorePoint", "providerAuth"},
          Opt(Object)) @@
    [kind |-> Known, catalogRevision |-> Opt(Nullable(Name)),
     document |-> Object]

externalOptimizeNarrowedCatalogContext ==
    Each({"document", "winningRoute", "restorePoint", "providerAuth"},
          Opt(Object)) @@
    [kind |-> Known, catalogRevision |-> Opt(Nullable(Name)),
     targetRoute |-> Object]

externalOptimizeMutationCompletion ==
    [reload |-> Opt(Nullable(Object)),
     verification |-> Opt(Nullable(Object)),
     warnings |-> Opt(ListOf(String)),
     includePostActionResult |-> Opt(Flag)]

externalOptimizeApplyCommand ==
    Each({"runId", "targetRouteId", "idempotencyKey", "createdBy"}, Name) @@
    Each({"dryRun", "reload", "verify"}, Flag) @@
    [sourceSurface |-> Known, actorKind |-> Known,
     actorId |-> Opt(Nullable(Name)), sessionId |-> Opt(Nullable(Name)),
     metadata |-> Opt(Object),
     catalog |-> Either({"externalOptimizeCatalogSnapshotContext", "externalOptimizeNarrowedCatalogContext"}),
     completion |-> Opt(Ref("externalOptimizeMutationCompletion"))]

externalOptimizeRestoreByActionCommand ==
    Each({"actionId", "idempotencyKey", "createdBy"}, Name) @@
    Each({"dryRun", "reload", "verify"}, Flag) @@
    [sourceSurface |-> Known, actorKind |-> Known,
     actorId |-> Opt(Nullable(Name)), sessionId |-> Opt(Nullable(Name)),
     metadata |-> Opt(Object),
     catalog |-> Either({"externalOptimizeCatalogSnapshotContext", "externalOptimizeNarrowedCatalogContext"}),
     completion |-> Opt(Ref("externalOptimizeMutationCompletion"))]

externalOptimizeRestoreByRunRouteCommand ==
    Each({"runId", "targetRouteId", "idempotencyKey", "createdBy"}, Name) @@
    Each({"dryRun", "reload", "verify"}, Flag) @@
    [sourceSurface |-> Known, actorKind |-> Known,
     actorId |-> Opt(Nullable(Name)), sessionId |-> Opt(Nullable(Name)),
     metadata |-> Opt(Object),
     catalog |-> Either({"externalOptimizeCatalogSnapshotContext", "externalOptimizeNarrowedCatalogContext"}),
     completion |-> Opt(Ref("externalOptimizeMutationCompletion"))]

benchmarkGatewayPreflightSuccess ==
    Each({"sourceFile", "sourcePath", "bindHost", "probeHost",
          "healthUrl"}, Name) @@
    [ok |-> Is("true"), port |-> Positive, pid |-> Nullable(Whole),
     latencyMs |-> Nullable(Amount)]

benchmarkGatewayPreflightFailure ==
    Each({"sourceFile", "sourcePath", "bindHost", "probeHost", "message"},
          Name) @@
    [ok |-> Is("false"), port |-> Nullable(Positive),
     healthUrl |-> Nullable(Name), pid |-> Nullable(Whole),
     latencyMs |-> Nullable(Amount), code |-> Known]

benchmarkRunsRunPayload ==
    Each({"prompt", "createdBy", "objective"}, Name) @@
    [config |-> Object, routeNames |-> SomeOf(Name),
     iterations |-> Positive, concurrency |-> Positive, warmup |-> Whole,
     pathMode |-> Known, taskPlanCommandName |-> Known,
     gatewayPreflight |-> Either({"benchmarkGatewayPreflightSuccess", "benchmarkGatewayPreflightFailure"})]

optimizationHistoryListPayload ==
    [limit |-> Positive]

optimizationHistoryShowPayload ==
    [runId |-> Name]

optimizationHistoryPruneOlderThanPayload ==
    [cutoffIso |-> Name]

optimizationHistoryDeleteRunPayload ==
    [runId |-> Name]

optimizationHistoryClearPayload ==
    NoFields

optimizeReferenceTokens ==
    Each({"input_tokens", "output_tokens", "cache_read_tokens",
          "cache_write_tokens"}, Whole)

costConfig ==
    Each({"input", "output", "cache_read", "cache_write"}, Amount)

optimizeCandidateRoute ==
    Each({"name", "model", "service_provider", "provider_model_id",
          "display_name", "api_mode"}, Name) @@
    Each({"cost", "model_cost", "effective_cost"},
          Nullable(Ref("costConfig"))) @@
    [timeout_ms |-> Nullable(Whole),
     effective_timeout_ms |-> Nullable(Whole)]

\* Its allOf also asks that report.run.objective be the operation's: the word here.
optimizationReportsPersistCostPayload ==
    [report |-> Ref("optimizeReportView"),
     candidateRoutes |-> ListOf(Ref("optimizeCandidateRoute")),
     requestedRoutes |-> Nullable(ListOf(Name)),
     referenceTokens |-> Ref("optimizeReferenceTokens"),
     createdBy |-> Name, runId |-> Opt(Name)]

\* Its allOf also asks that report.run.objective be the operation's: the word here.
optimizationReportsPersistLatencyPayload ==
    [report |-> Ref("optimizeReportView"),
     candidateRoutes |-> ListOf(Ref("optimizeCandidateRoute")),
     requestedRoutes |-> Nullable(ListOf(Name)), createdBy |-> Name,
     benchmarkRunId |-> Name, settings |-> Object, runId |-> Opt(Name)]

-----------------------------------------------------------------------------
\* Results.
requestExecutionRecord ==
    Each({"id", "request_id", "started_at", "request_received_at",
          "client_api_mode", "outcome"}, Name) @@
    Each({"completed_at", "route_resolved_at",
          "upstream_request_started_at", "upstream_response_started_at",
          "upstream_response_completed_at", "client_response_started_at",
          "client_response_completed_at", "route_id", "route_name",
          "model_id", "provider_id", "provider_model_id",
          "upstream_api_mode", "failure_stage", "failure_reason",
          "currency"}, Nullable(Name)) @@
    Each({"status_code", "latency_ms", "ttft_ms", "duration_ms",
          "input_tokens", "output_tokens", "total_tokens",
          "estimated_cost_micros", "switchmaxxer_pre_upstream_ms",
          "upstream_ttft_ms", "upstream_duration_ms",
          "switchmaxxer_post_upstream_ms", "client_write_ms",
          "gateway_residency_ms"}, Nullable(Whole)) @@
    [observation_count |-> Whole, partial_output |-> Bit]

traceListResult ==
    [dbPath |-> Name, storeFound |-> Flag,
     traces |-> ListOf(Ref("requestExecutionRecord"))]

observationRecord ==
    Each({"id", "observed_at", "surface", "kind", "event"}, Name) @@
    Each({"ingested_at", "request_id", "trace_id", "span_id",
          "parent_span_id", "stage", "severity", "outcome", "route_id",
          "route_name", "model_id", "provider_id", "provider_model_id",
          "client_api_mode", "upstream_api_mode", "listener", "actor",
          "currency", "billing_source", "benchmark_run_id",
          "benchmark_case_id", "optimization_profile_id", "tags_json",
          "attributes_json", "message"}, Opt(Nullable(Name))) @@
    Each({"status_code", "latency_ms", "ttft_ms", "duration_ms",
          "request_bytes", "response_bytes", "input_tokens",
          "output_tokens", "total_tokens", "estimated_cost_micros"},
          Opt(Nullable(Whole))) @@
    [attributes_truncated |-> Opt(Whole)]

traceListObservationsResult ==
    [dbPath |-> Name, storeFound |-> Flag,
     observations |-> ListOf(Ref("observationRecord"))]

traceStatsOutcomeCount ==
    [outcome |-> Name, count |-> Whole]

traceStatsTopFailingRoute ==
    [route |-> Name, count |-> Whole]

traceStatsRecord ==
    Each({"average_gateway_residency_ms", "average_upstream_ttft_ms",
          "average_upstream_duration_ms"}, Nullable(Amount)) @@
    [total_count |-> Whole, partial_output_count |-> Whole,
     outcome_counts |-> ListOf(Ref("traceStatsOutcomeCount")),
     top_failing_routes |-> ListOf(Ref("traceStatsTopFailingRoute"))]

traceGetStatsResult ==
    [dbPath |-> Name, storeFound |-> Flag,
     stats |-> Ref("traceStatsRecord")]

benchmarkSampleRecord ==
    Each({"id", "benchmark_run_id", "request_execution_id", "started_at",
          "outcome"}, Name) @@
    Each({"route_id", "provider_id", "provider_model_id", "completed_at",
          "score_scale", "score_direction", "score_source",
          "score_method", "scored_at", "score_json"}, Nullable(Name)) @@
    Each({"sample_index", "status_code", "latency_ms", "ttft_ms",
          "duration_ms", "input_tokens", "output_tokens", "total_tokens",
          "estimated_cost_micros", "is_warmup"}, Nullable(Whole)) @@
    [score_value |-> Nullable(Number)]

benchmarkRunRecord ==
    Each({"id", "name", "created_at", "objective", "settings_json",
          "status"}, Name) @@
    [created_by |-> Nullable(Name), notes |-> Nullable(Name)]

benchmarkRunSummary ==
    Each({"total_samples", "measured_samples", "warmup_samples",
          "success_count", "failed_count"}, Whole) @@
    Each({"average_latency_ms", "min_latency_ms", "max_latency_ms",
          "average_ttft_ms", "average_duration_ms"}, Nullable(Amount))

benchmarkHistoryListItem ==
    [run |-> Ref("benchmarkRunRecord"),
     summary |-> Ref("benchmarkRunSummary")]

traceShowResult ==
    [dbPath |-> Name, storeFound |-> Flag,
     requestExecution |-> Nullable(Ref("requestExecutionRecord")),
     observations |-> ListOf(Ref("observationRecord")),
     benchmarkSamples |-> ListOf(Ref("benchmarkSampleRecord"))]

controlPlaneActionEventRecord ==
    Each({"id", "created_at", "created_by", "source_surface",
          "actor_kind", "operation", "status", "target_kind",
          "correlation_ids_json", "result_json", "error_json",
          "metadata_json"}, Name) @@
    Each({"finished_at", "actor_id", "session_id", "target_id",
          "optimization_run_id", "mutation_event_id"}, Nullable(Name))

ledgerListResult ==
    [dbPath |-> Name, storeFound |-> Flag,
     events |-> ListOf(Ref("controlPlaneActionEventRecord"))]

ledgerShowResult ==
    [dbPath |-> Name, storeFound |-> Flag,
     event |-> Nullable(Ref("controlPlaneActionEventRecord"))]

retentionPruneCounts ==
    Each({"observations_deleted", "request_executions_deleted",
          "benchmark_runs_deleted", "benchmark_samples_deleted",
          "cost_facts_deleted", "optimization_facts_deleted",
          "control_plane_action_events_deleted",
          "config_mutation_events_deleted", "config_snapshots_deleted",
          "total_deleted"}, Whole) @@
    [status |-> Name, cutoff_at |-> Name, failure_stage |-> Nullable(Name),
     failure_message |-> Nullable(Name)]

retentionPruneOlderThanResult ==
    [dbPath |-> Name, storeFound |-> Flag,
     result |-> Nullable(Ref("retentionPruneCounts"))]

benchmarkHistoryListResult ==
    [dbPath |-> Name, storeFound |-> Flag,
     runs |-> ListOf(Ref("benchmarkHistoryListItem"))]

benchmarkHistoryShowResult ==
    [dbPath |-> Name, storeFound |-> Flag,
     run |-> Nullable(Ref("benchmarkRunRecord")),
     summary |-> Nullable(Ref("benchmarkRunSummary")),
     samples |-> ListOf(Ref("benchmarkSampleRecord"))]

benchmarkHistoryDeleteCounts ==
    Each({"benchmark_runs_deleted", "benchmark_samples_deleted",
          "total_deleted"}, Whole)

benchmarkHistoryDeleteResult ==
    [dbPath |-> Name, storeFound |-> Flag,
     result |-> Nullable(Ref("benchmarkHistoryDeleteCounts"))]

\* The inline object of benchmarkReportView.analysis; other fields are allowed.
benchmarkAnalysis ==
    [by_path |-> ListOf(Object)]

benchmarkReportView ==
    [store_path |-> Opt(Name), run |-> Object, execution |-> Object,
     summary |-> Ref("benchmarkRunSummary"),
     analysis |-> Ref("benchmarkAnalysis"), samples |-> ListOf(Object)]

benchmarkRunnerFailure ==
    Each({"kind", "code", "message"}, Name) @@
    [details |-> Opt(Object)]

benchmarkRunnerSuccessResult ==
    [ok |-> Is("true"), benchmarkRunId |-> Name,
     run |-> Ref("benchmarkRunRecord"),
     summary |-> Ref("benchmarkRunSummary"),
     samples |-> ListOf(Ref("benchmarkSampleRecord")),
     sampleViews |-> ListOf(Object), report |-> Ref("benchmarkReportView")]

benchmarkRunnerFailureResult ==
    [ok |-> Is("false"), failure |-> Ref("benchmarkRunnerFailure")]

benchmarkRunsRunResult ==
    [dbPath |-> Name, storeFound |-> Flag,
     result |-> Nullable(Either({"benchmarkRunnerSuccessResult", "benchmarkRunnerFailureResult"}))]

optimizationRunRecord ==
    Each({"id", "created_at", "created_by", "target_model", "objective",
          "status", "settings_json", "candidate_snapshot_json",
          "result_json", "warnings_json"}, Name) @@
    Each({"finished_at", "winner_route", "benchmark_run_id"},
          Nullable(Name))

optimizationHistoryListResult ==
    [dbPath |-> Name, storeFound |-> Flag,
     runs |-> ListOf(Ref("optimizationRunRecord"))]

optimizationHistoryShowResult ==
    [dbPath |-> Name, storeFound |-> Flag,
     run |-> Nullable(Ref("optimizationRunRecord"))]

optimizationHistoryDeleteCounts ==
    Each({"optimization_runs_deleted", "config_mutation_events_deleted",
          "config_snapshots_deleted", "total_deleted"}, Whole)

optimizationHistoryDeleteResult ==
    [dbPath |-> Name, storeFound |-> Flag,
     result |-> Nullable(Ref("optimizationHistoryDeleteCounts"))]

optimizeReportRun ==
    Each({"run_id", "created_at", "finished_at", "created_by"},
          Nullable(Name)) @@
    [persisted |-> Flag, status |-> Name, target_model |-> Name,
     objective |-> Known]

optimizeReportDisqualifiedCandidate ==
    Each({"route_id", "reason", "message"}, Name)

optimizeReportCandidates ==
    [requested_routes |-> Nullable(ListOf(Name)),
     resolved_routes |-> ListOf(Name),
     disqualified |-> ListOf(Ref("optimizeReportDisqualifiedCandidate"))]

optimizeReportBench ==
    [run_id |-> Name, summary |-> Ref("benchmarkRunSummary"),
     execution |-> Object]

optimizeRankingEntry ==
    [route_id |-> Name, score |-> Number]

optimizeReportWinner ==
    [route_id |-> Name, score |-> Number, score_unit |-> Known,
     tied_with |-> ListOf(Name)]

optimizeWarning ==
    [code |-> Name, message |-> Name]

optimizeReportView ==
    [store_path |-> Opt(Name), run |-> Ref("optimizeReportRun"),
     candidates |-> Ref("optimizeReportCandidates"),
     reference_tokens |-> Ref("optimizeReferenceTokens"),
     bench |-> Nullable(Ref("optimizeReportBench")),
     ranking |-> ListOf(Ref("optimizeRankingEntry")),
     winner |-> Ref("optimizeReportWinner"),
     warnings |-> ListOf(Ref("optimizeWarning"))]

optimizationReportsPersistResult ==
    [dbPath |-> Name, storeFound |-> Flag,
     report |-> Nullable(Ref("optimizeReportView"))]

-----------------------------------------------------------------------------
(***************************************************************************)
(* The frames: one request and one success response per operation.         *)
(***************************************************************************)
RequestFrame(payload) ==
    [id |-> Name, operation |-> Known, contract_version |-> Known,
     store |-> Ref("storeRef"), payload |-> Ref(payload)]

SuccessFrame(result) ==
    [id |-> Name, ok |-> Is("true"), result |-> Ref(result), warnings |-> ListOf(String)]

traceRequests ==
    "trace.list" :> RequestFrame("traceListPayload") @@
    "trace.listObservations" :> RequestFrame("traceListObservationsPayload") @@
    "trace.getStats" :> RequestFrame("traceGetStatsPayload") @@
    "trace.show" :> RequestFrame("traceShowPayload")

ledgerRequests ==
    "ledger.list" :> RequestFrame("ledgerListPayload") @@
    "ledger.show" :> RequestFrame("ledgerShowPayload") @@
    "retention.pruneOlderThan" :> RequestFrame("retentionPruneOlderThanPayload")

benchmarkHistoryRequests ==
    "benchmarkHistory.list" :> RequestFrame("benchmarkHistoryListPayload") @@
    "benchmarkHistory.show" :> RequestFrame("benchmarkHistoryShowPayload") @@
    "benchmarkHistory.pruneOlderThan" :> RequestFrame("benchmarkHistoryPruneOlderThanPayload") @@
    "benchmarkHistory.deleteRun" :> RequestFrame("benchmarkHistoryDeleteRunPayload") @@
    "benchmarkHistory.clear" :> RequestFrame("benchmarkHistoryClearPayload")

benchmarkRunsRequests ==
    "benchmarkRuns.run" :> RequestFrame("benchmarkRunsRunPayload")

optimizationHistoryRequests ==
    "optimizationHistory.list" :> RequestFrame("optimizationHistoryListPayload") @@
    "optimizationHistory.show" :> RequestFrame("optimizationHistoryShowPayload") @@
    "optimizationHistory.pruneOlderThan" :> RequestFrame("optimizationHistoryPruneOlderThanPayload") @@
    "optimizationHistory.deleteRun" :> RequestFrame("optimizationHistoryDeleteRunPayload") @@
    "optimizationHistory.clear" :> RequestFrame("optimizationHistoryClearPayload")

optimizationReportsRequests ==
    "optimizationReports.persistCost" :> RequestFrame("optimizationReportsPersistCostPayload") @@
    "optimizationReports.persistLatency" :> RequestFrame("optimizationReportsPersistLatencyPayload")

traceResponses ==
    "trace.list" :> SuccessFrame("traceListResult") @@
    "trace.listObservations" :> SuccessFrame("traceListObservationsResult") @@
    "trace.getStats" :> SuccessFrame("traceGetStatsResult") @@
    "trace.show" :> SuccessFrame("traceShowResult")

ledgerResponses ==
    "ledger.list" :> SuccessFrame("ledgerListResult") @@
    "ledger.show" :> SuccessFrame("ledgerShowResult") @@
    "retention.pruneOlderThan" :> SuccessFrame("retentionPruneOlderThanResult")

benchmarkHistoryResponses ==
    "benchmarkHistory.list" :> SuccessFrame("benchmarkHistoryListResult") @@
    "benchmarkHistory.show" :> SuccessFrame("benchmarkHistoryShowResult") @@
    "benchmarkHistory.pruneOlderThan" :> SuccessFrame("benchmarkHistoryDeleteResult") @@
    "benchmarkHistory.deleteRun" :> SuccessFrame("benchmarkHistoryDeleteResult") @@
    "benchmarkHistory.clear" :> SuccessFrame("benchmarkHistoryDeleteResult")

benchmarkRunsResponses ==
    "benchmarkRuns.run" :> SuccessFrame("benchmarkRunsRunResult")

optimizationHistoryResponses ==
    "optimizationHistory.list" :> SuccessFrame("optimizationHistoryListResult") @@
    "optimizationHistory.show" :> SuccessFrame("optimizationHistoryShowResult") @@
    "optimizationHistory.pruneOlderThan" :> SuccessFrame("optimizationHistoryDeleteResult") @@
    "optimizationHistory.deleteRun" :> SuccessFrame("optimizationHistoryDeleteResult") @@
    "optimizationHistory.clear" :> SuccessFrame("optimizationHistoryDeleteResult")

optimizationReportsResponses ==
    "optimizationReports.persistCost" :> SuccessFrame("optimizationReportsPersistResult") @@
    "optimizationReports.persistLatency" :> SuccessFrame("optimizationReportsPersistResult")

requests == traceRequests @@ ledgerRequests @@ benchmarkHistoryRequests @@
            benchmarkRunsRequests @@ optimizationHistoryRequests @@ optimizationReportsRequests

responses == traceResponses @@ ledgerResponses @@ benchmarkHistoryResponses @@
             benchmarkRunsResponses @@ optimizationHistoryResponses @@ optimizationReportsResponses

payloadShapes ==
    "storeRef" :> storeRef @@
    "traceListFilters" :> traceListFilters @@
    "traceListPayload" :> traceListPayload @@
    "traceListObservationsFilters" :> traceListObservationsFilters @@
    "traceListObservationsPayload" :> traceListObservationsPayload @@
    "traceGetStatsPayload" :> traceGetStatsPayload @@
    "traceShowPayload" :> traceShowPayload @@
    "ledgerListFilters" :> ledgerListFilters @@
    "ledgerListPayload" :> ledgerListPayload @@
    "ledgerShowPayload" :> ledgerShowPayload @@
    "retentionPruneOlderThanPayload" :> retentionPruneOlderThanPayload @@
    "benchmarkHistoryListPayload" :> benchmarkHistoryListPayload @@
    "benchmarkHistoryShowPayload" :> benchmarkHistoryShowPayload @@
    "benchmarkHistoryPruneOlderThanPayload" :> benchmarkHistoryPruneOlderThanPayload @@
    "benchmarkHistoryDeleteRunPayload" :> benchmarkHistoryDeleteRunPayload @@
    "benchmarkHistoryClearPayload" :> benchmarkHistoryClearPayload @@
    "externalOptimizeCatalogSnapshotContext" :> externalOptimizeCatalogSnapshotContext @@
    "externalOptimizeNarrowedCatalogContext" :> externalOptimizeNarrowedCatalogContext @@
    "externalOptimizeMutationCompletion" :> externalOptimizeMutationCompletion @@
    "externalOptimizeApplyCommand" :> externalOptimizeApplyCommand @@
    "externalOptimizeRestoreByActionCommand" :> externalOptimizeRestoreByActionCommand @@
    "externalOptimizeRestoreByRunRouteCommand" :> externalOptimizeRestoreByRunRouteCommand @@
    "benchmarkGatewayPreflightSuccess" :> benchmarkGatewayPreflightSuccess @@
    "benchmarkGatewayPreflightFailure" :> benchmarkGatewayPreflightFailure @@
    "benchmarkRunsRunPayload" :> benchmarkRunsRunPayload @@
    "optimizationHistoryListPayload" :> optimizationHistoryListPayload @@
    "optimizationHistoryShowPayload" :> optimizationHistoryShowPayload @@
    "optimizationHistoryPruneOlderThanPayload" :> optimizationHistoryPruneOlderThanPayload @@
    "optimizationHistoryDeleteRunPayload" :> optimizationHistoryDeleteRunPayload @@
    "optimizationHistoryClearPayload" :> optimizationHistoryClearPayload @@
    "optimizeReferenceTokens" :> optimizeReferenceTokens @@
    "costConfig" :> costConfig @@
    "optimizeCandidateRoute" :> optimizeCandidateRoute @@
    "optimizationReportsPersistCostPayload" :> optimizationReportsPersistCostPayload @@
    "optimizationReportsPersistLatencyPayload" :> optimizationReportsPersistLatencyPayload

resultShapes ==
    "requestExecutionRecord" :> requestExecutionRecord @@
    "traceListResult" :> traceListResult @@
    "observationRecord" :> observationRecord @@
    "traceListObservationsResult" :> traceListObservationsResult @@
    "traceStatsOutcomeCount" :> traceStatsOutcomeCount @@
    "traceStatsTopFailingRoute" :> traceStatsTopFailingRoute @@
    "traceStatsRecord" :> traceStatsRecord @@
    "traceGetStatsResult" :> traceGetStatsResult @@
    "benchmarkSampleRecord" :> benchmarkSampleRecord @@
    "benchmarkRunRecord" :> benchmarkRunRecord @@
    "benchmarkRunSummary" :> benchmarkRunSummary @@
    "benchmarkHistoryListItem" :> benchmarkHistoryListItem @@
    "traceShowResult" :> traceShowResult @@
    "controlPlaneActionEventRecord" :> controlPlaneActionEventRecord @@
    "ledgerListResult" :> ledgerListResult @@
    "ledgerShowResult" :> ledgerShowResult @@
    "retentionPruneCounts" :> retentionPruneCounts @@
    "retentionPruneOlderThanResult" :> retentionPruneOlderThanResult @@
    "benchmarkHistoryListResult" :> benchmarkHistoryListResult @@
    "benchmarkHistoryShowResult" :> benchmarkHistoryShowResult @@
    "benchmarkHistoryDeleteCounts" :> benchmarkHistoryDeleteCounts @@
    "benchmarkHistoryDeleteResult" :> benchmarkHistoryDeleteResult @@
    "benchmarkReportView" :> benchmarkReportView @@
    "benchmarkRunnerFailure" :> benchmarkRunnerFailure @@
    "benchmarkRunnerSuccessResult" :> benchmarkRunnerSuccessResult @@
    "benchmarkRunnerFailureResult" :> benchmarkRunnerFailureResult @@
    "benchmarkRunsRunResult" :> benchmarkRunsRunResult @@
    "optimizationRunRecord" :> optimizationRunRecord @@
    "optimizationHistoryListResult" :> optimizationHistoryListResult @@
    "optimizationHistoryShowResult" :> optimizationHistoryShowResult @@
    "optimizationHistoryDeleteCounts" :> optimizationHistoryDeleteCounts @@
    "optimizationHistoryDeleteResult" :> optimizationHistoryDeleteResult @@
    "optimizeReportRun" :> optimizeReportRun @@
    "optimizeReportDisqualifiedCandidate" :> optimizeReportDisqualifiedCandidate @@
    "optimizeReportCandidates" :> optimizeReportCandidates @@
    "optimizeReportBench" :> optimizeReportBench @@
    "optimizeRankingEntry" :> optimizeRankingEntry @@
    "optimizeReportWinner" :> optimizeReportWinner @@
    "optimizeWarning" :> optimizeWarning @@
    "optimizeReportView" :> optimizeReportView @@
    "optimizationReportsPersistResult" :> optimizationReportsPersistResult @@
    "benchmarkAnalysis" :> benchmarkAnalysis

\* Every shape of the schema; the frames of an operation are found by its name.
schema == payloadShapes @@ resultShapes

=============================================================================
