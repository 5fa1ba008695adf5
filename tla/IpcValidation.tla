---------------------------- MODULE IpcValidation ----------------------------
(***************************************************************************)
(* observability-ipc-validation.ts: the hand-written validators of request *)
(* frames, of response frames and of the standalone external optimize      *)
(* commands.  A validator is the table of the fields it looks at, under    *)
(* the name the schema gives the object; it stops at the first field that  *)
(* is wrong, and a field it does not look at may hold anything.            *)
(***************************************************************************)
EXTENDS IpcShapes

\* isRecord: a Date is an object too.  Array.isArray with the items unread.
isRecord == One({"object", "moment"})
AnyList  == List(Classes \cup {"nothing"})

isStringArray         == ListOf(String)
isNonEmptyStringArray == SomeOf(Name)
isFiniteNumber        == Number
isIsoDateTimeString   == One({"date"})
isValidDate           == One({"moment"})
isFunction            == One({"function"})

Absent == One({"absent"})

-----------------------------------------------------------------------------
\* The payload validators, operation by operation (validateOperationPayload).
FiltersPayload   == [filters |-> Opt(isRecord)]
CutoffPayload    == [cutoffIso |-> isIsoDateTimeString]
LimitFromZero    == [limit |-> Whole]  \* Mutant: zero is a limit.
LimitPayload     == [limit |-> Positive]
RunPayload       == [runId |-> Name]

\* assertEmptyPayload: no field at all.
EmptyPayload(fields) == Each(fields \cup {Undeclared}, Absent)

\* Maintenance of every trace, in batches, or of one
\* (validateTraceMaintenanceScope).
maintainAll == [all |-> Is("true"), traceId |-> Absent, batchSize |-> Opt(Positive)]
maintainOne == [all |-> Is("false"), traceId |-> Name, batchSize |-> Absent]

preflightCommon ==
    Each({"sourceFile", "sourcePath", "bindHost", "probeHost"}, Name) @@
    [pid |-> Nullable(Whole), latencyMs |-> Nullable(Amount)]

validatePreflightSuccess ==
    preflightCommon @@ [ok |-> Is("true"), port |-> Positive, healthUrl |-> Name]

validatePreflightFailure ==
    preflightCommon @@
    [ok |-> Is("false"), code |-> Known, message |-> Name,
     port |-> Nullable(Positive), healthUrl |-> Nullable(Name)]

\* A gateway preflight is a function of the caller's process or, from outside,
\* the result of one.
preflightField(transport) ==
    IF transport = "local"
    THEN [preflightGateway |-> isFunction]
    ELSE [preflightGateway |-> Absent,
          gatewayPreflight |-> Either({"benchmarkGatewayPreflightSuccess",
                                       "benchmarkGatewayPreflightFailure"})]

validateBenchmarkRunPayload(transport) ==
    Each({"prompt", "createdBy", "objective"}, Name) @@
    [config |-> isRecord, routeNames |-> isNonEmptyStringArray,
     iterations |-> Positive, warmup |-> Whole, concurrency |-> Positive,
     pathMode |-> Known, taskPlanCommandName |-> Known] @@
    preflightField(transport)

-----------------------------------------------------------------------------
\* The report of an optimization run, as a request carries it.
validateOptimizeReferenceTokens ==
    Each({"input_tokens", "output_tokens", "cache_read_tokens", "cache_write_tokens"}, Whole)

reportRun == [objective |-> Known, target_model |-> Name, status |-> Known]

reportCandidates ==
    [requested_routes |-> Opt(Nullable(isNonEmptyStringArray)),
     resolved_routes |-> isStringArray, disqualified |-> AnyList]

reportWinner ==
    [route_id |-> Name, score |-> isFiniteNumber, score_unit |-> Known,
     tied_with |-> isStringArray]

validateOptimizeReport ==
    [run |-> Ref("optimizeReportRun"), candidates |-> Ref("optimizeReportCandidates"),
     reference_tokens |-> Ref("optimizeReferenceTokens"), ranking |-> AnyList,
     winner |-> Ref("optimizeReportWinner"), warnings |-> AnyList]

validateOptimizeCandidateRoutes ==
    Each({"name", "model", "service_provider", "provider_model_id", "api_mode"}, Name)

persistCommon ==
    [report |-> Ref("optimizeReportView"),
     candidateRoutes |-> ListOf(Ref("optimizeCandidateRoute")),
     requestedRoutes |-> Nullable(isNonEmptyStringArray),
     createdBy |-> Name, runId |-> Opt(Name), now |-> Opt(isValidDate)]

validatePersistCost ==
    persistCommon @@ [referenceTokens |-> Ref("optimizeReferenceTokens")]

validatePersistLatency ==
    persistCommon @@ [benchmarkRunId |-> Name, settings |-> isRecord]

-----------------------------------------------------------------------------
\* Optimize mutations inside one process: the payload carries functions.
validateOptimizeMutationCommonPayload ==
    Each({"loadReadModel", "mutateConfigDocument", "getMutableConfigSection"}, isFunction) @@
    [configPath |-> Opt(Name), readModel |-> isRecord, sourceSurface |-> Known,
     createdBy |-> Name, actorKind |-> Known, actorId |-> Opt(Nullable(Name)),
     sessionId |-> Opt(Nullable(Name)), dryRun |-> Flag, metadata |-> Opt(isRecord),
     deferLedgerCompletion |-> Opt(Flag)]

selectAction   == [mode |-> Known, actionId |-> Name]
selectRunRoute == [mode |-> Known, runId |-> Name, routeId |-> Name]

validateOptimizeApplyPayload ==
    validateOptimizeMutationCommonPayload @@ [runId |-> Name, targetRouteId |-> Name]

validateOptimizeRestorePayload ==
    validateOptimizeMutationCommonPayload @@
    [selector |-> Either({"selectAction", "selectRunRoute"})]

-----------------------------------------------------------------------------
\* Optimize commands from outside: data only.
catalogCommon ==
    Each({"document", "targetRoute", "winningRoute", "restorePoint", "providerAuth"},
         Opt(isRecord)) @@
    [kind |-> Known, catalogRevision |-> Opt(Nullable(Name))]

validateCatalogSnapshot == [document |-> isRecord] @@ catalogCommon
validateNarrowedContext == [targetRoute |-> isRecord] @@ catalogCommon

validateExternalOptimizeMutationCompletion ==
    [reload |-> Opt(Nullable(isRecord)), verification |-> Opt(Nullable(isRecord)),
     warnings |-> Opt(isStringArray), includePostActionResult |-> Opt(Flag)]

validateExternalOptimizeMutationCommonCommand ==
    Each({"dryRun", "reload", "verify"}, Flag) @@
    [idempotencyKey |-> Name, createdBy |-> Name, sourceSurface |-> Known,
     actorKind |-> Known, actorId |-> Opt(Nullable(Name)),
     sessionId |-> Opt(Nullable(Name)), metadata |-> Opt(isRecord),
     catalog |-> Either({"externalOptimizeCatalogSnapshotContext",
                         "externalOptimizeNarrowedCatalogContext"}),
     completion |-> Opt(Ref("externalOptimizeMutationCompletion"))]

validateExternalOptimizeApplyCommandPayload ==
    validateExternalOptimizeMutationCommonCommand @@ [runId |-> Name, targetRouteId |-> Name]

\* By an action or by a run and a route, never both.
validateRestoreByAction ==
    validateExternalOptimizeMutationCommonCommand @@
    [actionId |-> Name, runId |-> Absent, targetRouteId |-> Absent]

validateRestoreByRunRoute ==
    validateExternalOptimizeMutationCommonCommand @@
    [runId |-> Name, targetRouteId |-> Name, actionId |-> Absent]

-----------------------------------------------------------------------------
validateControlPlaneAuditStartPayload ==
    Each({"sourceSurface", "operation", "targetKind", "actorKind"}, Known) @@
    [targetId |-> Opt(Nullable(Name)), createdBy |-> Name,
     sessionId |-> Opt(Nullable(Name)), metadata |-> Opt(isRecord)]

auditError == [code |-> Name, message |-> Name]

validateControlPlaneAuditFinishPayload ==
    [actionId |-> Opt(Nullable(Name)), status |-> Known, targetId |-> Opt(Nullable(Name)),
     result |-> Opt(isRecord), metadata |-> Opt(isRecord), error |-> Opt(Ref("auditError"))]

-----------------------------------------------------------------------------
\* The frames themselves.
requestEnvelope ==
    [id |-> Name, operation |-> Known, contract_version |-> Known,
     store |-> Ref("storeRef")]

storeReference == [dbPath |-> One({"path"})]

errorBody ==
    [code |-> Known, message |-> Name, retryable |-> Flag, details |-> Opt(isRecord)]

\* validateObservabilityIpcResponse: any result will do, and the error of a
\* failure is looked at closely.
successEnvelope == [id |-> Name, warnings |-> isStringArray, ok |-> Is("true")]
failureEnvelope == [id |-> Name, warnings |-> isStringArray, ok |-> Is("false"),
                    error |-> Ref("errorBody")]

-----------------------------------------------------------------------------
\* The payload of each operation goes to its validator.
traceValidators ==
    "traceListPayload" :> FiltersPayload @@
    "traceListObservationsPayload" :> FiltersPayload @@
    "traceGetStatsPayload" :> FiltersPayload @@
    "traceShowPayload" :> [traceId |-> Name] @@
    "maintainAll" :> maintainAll @@
    "maintainOne" :> maintainOne @@
    "retentionPruneOlderThanPayload" :> CutoffPayload @@
    "ledgerListPayload" :> FiltersPayload @@
    "ledgerShowPayload" :> [ledgerEventId |-> Name] @@
    "auditStartPayload" :> validateControlPlaneAuditStartPayload @@
    "auditFinishPayload" :> validateControlPlaneAuditFinishPayload @@
    "auditError" :> auditError

benchmarkValidators(transport) ==
    "benchmarkHistoryListPayload" :> LimitPayload @@
    "benchmarkHistoryShowPayload" :> RunPayload @@
    "benchmarkHistoryPruneOlderThanPayload" :> CutoffPayload @@
    "benchmarkHistoryDeleteRunPayload" :> RunPayload @@
    "benchmarkHistoryClearPayload" :> EmptyPayload({"runId"}) @@
    "benchmarkRunsRunPayload" :> validateBenchmarkRunPayload(transport) @@
    "benchmarkGatewayPreflightSuccess" :> validatePreflightSuccess @@
    "benchmarkGatewayPreflightFailure" :> validatePreflightFailure

optimizationValidators ==
    "optimizationHistoryListPayload" :> LimitPayload @@
    "optimizationHistoryShowPayload" :> RunPayload @@
    "optimizationHistoryPruneOlderThanPayload" :> CutoffPayload @@
    "optimizationHistoryDeleteRunPayload" :> RunPayload @@
    "optimizationHistoryClearPayload" :> EmptyPayload({"runId"}) @@
    "optimizationReportsPersistCostPayload" :> validatePersistCost @@
    "optimizationReportsPersistLatencyPayload" :> validatePersistLatency @@
    "optimizeReportView" :> validateOptimizeReport @@
    "optimizeReportRun" :> reportRun @@
    "optimizeReportCandidates" :> reportCandidates @@
    "optimizeReportWinner" :> reportWinner @@
    "optimizeReferenceTokens" :> validateOptimizeReferenceTokens @@
    "optimizeCandidateRoute" :> validateOptimizeCandidateRoutes

mutationValidators ==
    "optimizeApplyPayload" :> validateOptimizeApplyPayload @@
    "optimizeRestorePayload" :> validateOptimizeRestorePayload @@
    "selectAction" :> selectAction @@
    "selectRunRoute" :> selectRunRoute @@
    "externalOptimizeApplyCommand" :> validateExternalOptimizeApplyCommandPayload @@
    "externalOptimizeRestoreByActionCommand" :> validateRestoreByAction @@
    "externalOptimizeRestoreByRunRouteCommand" :> validateRestoreByRunRoute @@
    "externalOptimizeCatalogSnapshotContext" :> validateCatalogSnapshot @@
    "externalOptimizeNarrowedCatalogContext" :> validateNarrowedContext @@
    "externalOptimizeMutationCompletion" :> validateExternalOptimizeMutationCompletion

validators(transport) ==
    traceValidators @@ benchmarkValidators(transport) @@ optimizationValidators @@
    mutationValidators @@
    "storeRef" :> storeReference @@ "errorBody" :> errorBody

\* validateOperationPayload's switch: the payload shapes of every operation.
payloadOf ==
    "trace.list" :> {"traceListPayload"} @@
    "trace.listObservations" :> {"traceListObservationsPayload"} @@
    "trace.getStats" :> {"traceGetStatsPayload"} @@
    "trace.show" :> {"traceShowPayload"} @@
    "trace.verify" :> {"maintainAll", "maintainOne"} @@
    "trace.repair" :> {"maintainAll", "maintainOne"} @@
    "retention.pruneOlderThan" :> {"retentionPruneOlderThanPayload"} @@
    "ledger.list" :> {"ledgerListPayload"} @@
    "ledger.show" :> {"ledgerShowPayload"} @@
    "controlPlaneAudit.startConfigMutation" :> {"auditStartPayload"} @@
    "controlPlaneAudit.finishConfigMutation" :> {"auditFinishPayload"} @@
    "benchmarkHistory.list" :> {"benchmarkHistoryListPayload"} @@
    "benchmarkHistory.show" :> {"benchmarkHistoryShowPayload"} @@
    "benchmarkHistory.pruneOlderThan" :> {"benchmarkHistoryPruneOlderThanPayload"} @@
    "benchmarkHistory.deleteRun" :> {"benchmarkHistoryDeleteRunPayload"} @@
    "benchmarkHistory.clear" :> {"benchmarkHistoryClearPayload"} @@
    "benchmarkRuns.run" :> {"benchmarkRunsRunPayload"} @@
    "optimizationHistory.list" :> {"optimizationHistoryListPayload"} @@
    "optimizationHistory.show" :> {"optimizationHistoryShowPayload"} @@
    "optimizationHistory.pruneOlderThan" :> {"optimizationHistoryPruneOlderThanPayload"} @@
    "optimizationHistory.deleteRun" :> {"optimizationHistoryDeleteRunPayload"} @@
    "optimizationHistory.clear" :> {"optimizationHistoryClearPayload"} @@
    "optimizationReports.persistCost" :> {"optimizationReportsPersistCostPayload"} @@
    "optimizationReports.persistLatency" :> {"optimizationReportsPersistLatencyPayload"} @@
    "optimizeMutations.apply" :> {"optimizeApplyPayload"} @@
    "optimizeMutations.restore" :> {"optimizeRestorePayload"}

Operations == DOMAIN payloadOf

\* Operations an external engine may not be asked for yet.
LocalOnly == {"optimizeMutations.apply", "optimizeMutations.restore"}

requestFrames == [op \in Operations |-> requestEnvelope @@ [payload |-> Either(payloadOf[op])]]

=============================================================================
