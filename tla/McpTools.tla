------------------------------- MODULE McpTools -------------------------------
(***************************************************************************)
(* The arguments of the MCP tools: the input schemas tools/list publishes  *)
(* (mcp/tools.ts), and the parsers a call then goes through                *)
(* (mcp/parsers-*.ts with the config input contracts).  Both are tables    *)
(* that give each field of each tool the values it may have, as the IPC    *)
(* boundary's are; what ties fields together is a predicate on the call.   *)
(***************************************************************************)
EXTENDS Naturals, TLC

LOCAL INSTANCE IpcShapes

\* Strings by what the parsers tell apart: white space only, a name every
\* JavaScript object has, the mask providers_show prints for a key, a retention
\* duration, a word of the field's enumeration, the two objectives, a prompt
\* over BENCH_MAX_PROMPT_LENGTH.
Strings  == {"blank", "reserved", "masked", "text", "duration", "word", "cost", "latency", "long"}
Integers == {"zero", "one", "count",
             "huge"}                  \* beyond every maximum
Singles  == Strings \cup Integers \cup
            {"empty", "null", "true", "false", "negative", "fraction", "object",
             "prices"}                \* an object of the four costs
\* Lists, by their items; or with more than BENCH_MAX_ROUTES different names, or
\* with as many names of which few are different.
Lists == Strings \cup {"nothing", "empty", "one", "toomany", "repeats"}

ToolValues == One(Singles) \cup List(Lists)

Anything        == ToolValues
Text       == One(Strings)
Word       == One({"word"})
Boolean    == One({"true", "false"})
Integer1   == One({"one", "count", "huge"})
Integer0   == Integer1 \cup One({"zero"})
UpTo(T)    == T \ One({"huge"})
Prompt     == Text \ One({"long"})
Cost       == One({"prices", "null"})
RouteNames == List(Strings)

-----------------------------------------------------------------------------
(***************************************************************************)
(* getToolDefinitions: what a session must be granted to call the tool,    *)
(* its fields and the required ones.                                       *)
(***************************************************************************)
Tool(capability, required, optional) ==
    [capability |-> capability, fields |-> required @@ optional, required |-> DOMAIN required]

modelFields == [display_name |-> Text, model_creator |-> Text]
providerOptions ==
    [allow_private_endpoints |-> Boolean, allow_insecure_http |-> Boolean,
     anthropic_version |-> Nullable(Text), model_id_format |-> Word, no_auth |-> Boolean]
routeFields == Each({"model", "service_provider", "provider_model_id", "display_name"}, Text)
traceFilters == [route_id |-> Text, provider_id |-> Text, outcome |-> Word]
traceScope == [trace_id |-> Text, all |-> Boolean, batch_size |-> Integer1]
postActions == Each({"dry_run", "reload", "verify"}, Boolean)
benchOptions ==
    [iterations |-> UpTo(Integer1), warmup |-> Integer0, concurrency |-> UpTo(Integer1),
     path_mode |-> Word, timeout_ms |-> Integer1]

entityTools ==
    [t \in {"config_schema", "config_validate", "config_show", "models_list", "providers_list",
            "routes_list", "gateway_status", "gateway_runtime_config"} |->
        Tool("read", NoFields, NoFields)] @@
    [models_show |-> Tool("read", [model_id |-> Text], NoFields),
     models_create |-> Tool("mutation", modelFields @@ [model_id |-> Text], [cost |-> Cost]),
     models_update |-> Tool("mutation", [model_id |-> Text], modelFields @@ [cost |-> Cost]),
     models_delete |-> Tool("mutation", [model_id |-> Text], NoFields),
     providers_show |-> Tool("read", [provider_id |-> Text], NoFields),
     providers_create |->
        Tool("mutation", [provider_id |-> Text, endpoint |-> Text, api_mode |-> Word],
             providerOptions),
     providers_update |->
        Tool("mutation", [provider_id |-> Text],
             providerOptions @@ [endpoint |-> Text, api_mode |-> Word, api_key_env |-> Nullable(Text)]),
     providers_delete |-> Tool("mutation", [provider_id |-> Text], NoFields),
     providers_set_key |-> Tool("privileged", [provider_id |-> Text, api_key |-> Text], NoFields),
     providers_clear_key |-> Tool("privileged", [provider_id |-> Text], NoFields),
     providers_set_key_env |->
        Tool("privileged", [provider_id |-> Text, api_key_env |-> Text], NoFields),
     routes_show |-> Tool("read", [route_id |-> Text], NoFields),
     routes_explain |-> Tool("read", [route_id |-> Text], NoFields),
     routes_create |->
        Tool("mutation", routeFields @@ [route_id |-> Text], [timeout_ms |-> Integer1, cost |-> Cost]),
     routes_update |->
        Tool("mutation", [route_id |-> Text],
             routeFields @@ [timeout_ms |-> Nullable(Integer1), cost |-> Cost]),
     routes_delete |-> Tool("mutation", [route_id |-> Text], NoFields),
     gateway_health |-> Tool("read", NoFields, [check |-> Word, timeout_ms |-> Integer1])]

observabilityTools ==
    [trace_list |-> Tool("read", NoFields, traceFilters @@ [limit |-> Integer1]),
     trace_show |-> Tool("read", [trace_id |-> Text], NoFields),
     trace_stats |-> Tool("read", NoFields, traceFilters),
     trace_observations |->
        Tool("read", NoFields,
             [route_id |-> Text, provider_id |-> Text, kind |-> Word, event |-> Word, limit |-> Integer1]),
     trace_verify |-> Tool("read", NoFields, traceScope),
     trace_repair |-> Tool("mutation", NoFields, traceScope),
     prune |-> Tool("privileged", NoFields, [older_than |-> Text]),
     ledger_list |->
        Tool("privileged", NoFields,
             Each({"route_id", "target_id", "session_id", "run_id", "mutation_event_id", "since"}, Text) @@
             Each({"target_kind", "operation", "status", "source_surface"}, Word) @@
             [own_session |-> Boolean, limit |-> Integer1]),
     ledger_show |-> Tool("privileged", [ledger_event_id |-> Text], NoFields),
     bench_list |-> Tool("read", NoFields, [limit |-> Integer1]),
     bench_show |-> Tool("read", [run_id |-> Text], NoFields),
     optimize_list |-> Tool("read", NoFields, [limit |-> Integer1]),
     optimize_show |-> Tool("read", [run_id |-> Text], NoFields),
     optimize_run |->
        Tool("privileged", [model |-> Text, objective |-> One({"cost", "latency"})],
             Each({"input_tokens", "output_tokens", "cache_read_tokens", "cache_write_tokens"}, Integer0) @@
             benchOptions @@ [routes |-> RouteNames, prompt |-> Prompt]),
     optimize_apply |-> Tool("mutation", [run_id |-> Text, route_id |-> Text], postActions),
     optimize_restore |->
        Tool("mutation", NoFields, Each({"action_id", "run_id", "route_id"}, Text) @@ postActions),
     bench_run |->
        Tool("privileged", [prompt |-> Prompt],
             benchOptions @@ [route_id |-> Text, routes |-> RouteNames])]

tools == entityTools @@ observabilityTools
Tools == DOMAIN tools

-----------------------------------------------------------------------------
(***************************************************************************)
(* A call gives some fields their values.                                  *)
(***************************************************************************)
Gives(args, f) == f \in DOMAIN args

\* The branches of oneOf, by their required fields.
oneOf(tool, args) ==
    CASE tool = "optimize_restore" ->
            Gives(args, "action_id") # (Gives(args, "run_id") /\ Gives(args, "route_id"))
      [] tool = "bench_run" -> Gives(args, "route_id") # Gives(args, "routes")
      [] OTHER -> TRUE

\* What the published schema describes.
Describes(tool, args) ==
    /\ tools[tool].required \subseteq DOMAIN args
    /\ \A f \in DOMAIN args : f \in DOMAIN tools[tool].fields /\ args[f] \in tools[tool].fields[f]
    /\ oneOf(tool, args)

\* maxItems is not looked at.
AnyLength(T) == IF T = RouteNames THEN T \cup List({"toomany", "repeats"}) ELSE T

validateToolArguments(tool, args) ==
    /\ \A f \in DOMAIN args :
          f \in DOMAIN tools[tool].fields /\ args[f] \in AnyLength(tools[tool].fields[f])
    /\ tools[tool].required \subseteq DOMAIN args
    /\ oneOf(tool, args)

-----------------------------------------------------------------------------
(***************************************************************************)
(* The parsers: what each field may hold when it is given, and whether it  *)
(* must be.  getOptionalString takes whatever is no string for absent.     *)
(***************************************************************************)
NonEmpty   == Text \ One({"blank"})                 \* isNonEmptyString
Identifier == NonEmpty \ One({"reserved"})          \* and assertSafeObjectKey
Unreserved == Text \ One({"reserved"})              \* getRequiredOptimizeString
Secret     == NonEmpty \ One({"masked"})            \* and rejectMaskedSecretSentinel
Duration   == One({"duration"})                     \* validatePruneOlderThan

normalizeBenchRoutes == List(Strings \ {"blank"})            \* at most BENCH_MAX_ROUTES
getOptionalRoutes    == List((Strings \ {"blank", "reserved"}) \cup {"repeats"})

modelInputContract    == [display_name |-> NonEmpty, model_creator |-> NonEmpty, cost |-> Cost,
                          model_id |-> Identifier]
providerInputContract ==
    [provider_id |-> Identifier, endpoint |-> NonEmpty, api_mode |-> Word,
     allow_private_endpoints |-> Anything, allow_insecure_http |-> Anything,
     anthropic_version |-> Nullable(NonEmpty), model_id_format |-> Word]
routeInputContract    ==
    Each({"model", "service_provider", "provider_model_id", "display_name"}, NonEmpty) @@
    [route_id |-> Identifier, timeout_ms |-> Integer1, cost |-> Cost]

parseModels ==
    [models_show |-> [model_id |-> Identifier], models_create |-> modelInputContract,
     models_update |-> modelInputContract, models_delete |-> [model_id |-> Identifier]]

parseProviders ==
    [t \in {"providers_show", "providers_delete", "providers_clear_key"} |->
        [provider_id |-> Identifier]] @@
    [providers_create |-> providerInputContract @@ [no_auth |-> One({"true"})],
     providers_update |->
        providerInputContract @@ [no_auth |-> Anything, api_key_env |-> Nullable(NonEmpty)],
     providers_set_key |-> [provider_id |-> Identifier, api_key |-> Secret],
     providers_set_key_env |-> [provider_id |-> Identifier, api_key_env |-> NonEmpty]]

parseRoutes ==
    [t \in {"routes_show", "routes_explain", "routes_delete"} |-> [route_id |-> Identifier]] @@
    [routes_create |-> routeInputContract,
     routes_update |-> [routeInputContract EXCEPT !.timeout_ms = Nullable(@)]]

parseTraces ==
    [trace_list |-> [route_id |-> Anything, provider_id |-> Anything, outcome |-> Word, limit |-> Integer1],
     trace_show |-> [trace_id |-> Text],
     trace_stats |-> [route_id |-> Anything, provider_id |-> Anything, outcome |-> Word],
     trace_observations |->
        [route_id |-> Anything, provider_id |-> Anything, kind |-> Word, event |-> Word, limit |-> Integer1]] @@
    [t \in {"trace_verify", "trace_repair"} |->
        [trace_id |-> Anything, all |-> Anything, batch_size |-> Integer1]]

parseLedger ==
    [prune |-> [older_than |-> Duration],
     ledger_list |->
        Each({"route_id", "target_id", "session_id", "own_session", "run_id",
              "mutation_event_id"}, Anything) @@
        Each({"target_kind", "operation", "status", "source_surface"}, Word) @@
        [since |-> Duration, limit |-> Integer1],
     ledger_show |-> [ledger_event_id |-> Text]]

\* Mutant: no warmup round cannot be asked for.
parseBenchWantsWarmup ==
    [gateway_health |-> [check |-> Word, timeout_ms |-> Integer1],
     bench_list |-> [limit |-> Integer1],
     bench_show |-> [run_id |-> Text],
     bench_run |-> [benchOptions EXCEPT !.warmup = Integer1] @@
                   [prompt |-> Prompt, route_id |-> Anything, routes |-> normalizeBenchRoutes]]

parseBench ==
    [gateway_health |-> [check |-> Word, timeout_ms |-> Integer1],
     bench_list |-> [limit |-> Integer1],
     bench_show |-> [run_id |-> Text],
     bench_run |-> benchOptions @@
                   [prompt |-> Prompt, route_id |-> Anything, routes |-> normalizeBenchRoutes]]

\* The fields of a latency run are not read when the objective is the cost, and
\* the token counts are not when it is the latency.
parseOptimizeRun(objective) ==
    [model |-> Unreserved, objective |-> One({"cost", "latency"}), routes |-> getOptionalRoutes] @@
    IF objective = "latency"
    THEN benchOptions @@ [prompt |-> Prompt] @@
         Each({"input_tokens", "output_tokens", "cache_read_tokens", "cache_write_tokens"}, Anything)
    ELSE Each({"input_tokens", "output_tokens", "cache_read_tokens", "cache_write_tokens"}, Integer0) @@
         Each(DOMAIN benchOptions \cup {"prompt"}, Anything)

parseOptimize ==
    [optimize_list |-> [limit |-> Integer1],
     optimize_show |-> [run_id |-> Unreserved],
     optimize_apply |-> [run_id |-> Unreserved, route_id |-> Unreserved] @@
                        Each({"dry_run", "reload", "verify"}, Anything),
     optimize_restore |-> Each({"action_id", "run_id", "route_id"}, Unreserved) @@
                          Each({"dry_run", "reload", "verify"}, Anything)]

noArguments ==
    [t \in {"config_schema", "config_validate", "config_show", "models_list", "providers_list",
            "routes_list", "gateway_status", "gateway_runtime_config"} |-> NoFields]

parsers == noArguments @@ parseModels @@ parseProviders @@ parseRoutes @@ parseTraces @@
           parseLedger @@ parseBench @@ parseOptimize

parser(tool, args) ==
    IF tool = "optimize_run"
    THEN parseOptimizeRun(IF Gives(args, "objective") THEN args["objective"].of ELSE "cost")
    ELSE parsers[tool]

-----------------------------------------------------------------------------
\* An update gives at least one field; no_auth counts when it is true.
UpdatesSomething(tool, args) ==
    tool \in {"models_update", "providers_update", "routes_update"} =>
        \E f \in DOMAIN args \ {"model_id", "provider_id", "route_id"} :
            f = "no_auth" => args[f] = [many |-> FALSE, of |-> "true"]

\* no_auth leaves no key behind.
AuthIsOneWay(tool, args) ==
    ~(tool = "providers_update" /\ Gives(args, "no_auth") /\ Gives(args, "api_key_env") /\
      args["no_auth"] = [many |-> FALSE, of |-> "true"])

\* validateTraceMaintenanceScope
TraceScopeIsClear(tool, args) ==
    tool \in {"trace_verify", "trace_repair"} =>
        LET all == Gives(args, "all") /\ args["all"] = [many |-> FALSE, of |-> "true"]
        IN  all # Gives(args, "trace_id") /\ (Gives(args, "batch_size") => all)

\* A given string counts as a selector when it is not blank.
Names(args, f) == Gives(args, f) /\ args[f] # [many |-> FALSE, of |-> "blank"]

RestoreIsNamed(tool, args) ==
    tool = "optimize_restore" =>
        IF Names(args, "action_id")
        THEN ~Names(args, "run_id") /\ ~Names(args, "route_id")
        ELSE Names(args, "run_id") /\ Names(args, "route_id")

RoutesAreNamed(tool, args) ==
    tool = "bench_run" => Names(args, "route_id") # Gives(args, "routes")

LatencyHasPrompt(tool, args) ==
    tool = "optimize_run" /\ args["objective"] = [many |-> FALSE, of |-> "latency"] =>
        Gives(args, "prompt")

\* assertBenchmarkTaskPlanSize: only a huge warmup goes past BENCH_MAX_TOTAL_TASKS
\* when the other numbers are below their own maxima.
PlanFits(tool, args) ==
    tool = "bench_run" /\ Gives(args, "warmup") => args["warmup"] # [many |-> FALSE, of |-> "huge"]

parseToolArgs(tool, args) ==
    /\ \A f \in DOMAIN args : f \in DOMAIN parser(tool, args) /\ args[f] \in parser(tool, args)[f]
    /\ UpdatesSomething(tool, args) /\ AuthIsOneWay(tool, args)
    /\ TraceScopeIsClear(tool, args) /\ RestoreIsNamed(tool, args)
    /\ RoutesAreNamed(tool, args) /\ LatencyHasPrompt(tool, args) /\ PlanFits(tool, args)

-----------------------------------------------------------------------------
\* The fields of a providers_update that change how a provider is authenticated.
getProvidersUpdateAuthFields(args) ==
    {f \in DOMAIN args \cap {"api_key_env", "no_auth"} :
        f = "no_auth" => args[f] = [many |-> FALSE, of |-> "true"]}

sessionCanCallTool(tool, granted) == tools[tool].capability \in granted

requirePrivilegedProviderAuthMutation(tool, args, granted) ==
    tool = "providers_update" /\ getProvidersUpdateAuthFields(args) # {} => "privileged" \in granted

isMcpMutationToolName(tool) == tools[tool].capability # "read"

=============================================================================
