------------------------------ MODULE Boundaries ------------------------------
(***************************************************************************)
(* The two boundaries whose messages are described by a published schema   *)
(* and read by hand-written code: the observability IPC frames             *)
(* (IpcExchange) and the tool calls of the MCP server (mcp/dispatch.ts,    *)
(* the tools/call branch, with mcp/tool-payload-builder.ts).               *)
(*                                                                         *)
(* A tool call gives all required fields, or all but one, and up to two    *)
(* optional ones, or all, or all but one; every field has a plain value    *)
(* but at most one, which has any value at all.                            *)
(***************************************************************************)
EXTENDS IpcExchange

Mcp == INSTANCE McpTools

AllGranted == {"read", "mutation", "privileged"}

Single(c) == [many |-> FALSE, of |-> c]

\* The plain value of a field: taken by both sides.
PlainValue(tool, f) ==
    LET both == Mcp!tools[tool].fields[f] \cap
                (IF tool = "optimize_run" THEN Mcp!parseOptimizeRun("cost")[f] ELSE Mcp!parsers[tool][f])
    IN  IF Single("text") \in both THEN Single("text")
        ELSE CHOOSE v \in both : v.of \in {"text", "word", "duration", "one", "true", "prices", "cost"}

Plain == [tool \in Mcp!Tools |-> [f \in DOMAIN Mcp!tools[tool].fields |-> PlainValue(tool, f)]]

GivenSets(tool) ==
    LET required == Mcp!tools[tool].required
        all      == DOMAIN Mcp!tools[tool].fields
        optional == all \ required
    IN  {all} \cup {all \ {f} : f \in all} \cup
        {required \cup {f, g} : f, g \in optional} \cup
        {required \cup {f} : f \in optional} \cup {required}

PlainCalls(tool) ==
    UNION {LET args == [f \in given |-> Plain[tool][f]]
           IN  IF "objective" \in given
               THEN {args, [args EXCEPT !["objective"] = Single("latency")]} ELSE {args}
           : given \in GivenSets(tool)}

\* One field of a plain call has any value, or the call has one field too many.
CallsOf(tool) ==
    PlainCalls(tool) \cup
    UNION {{[args EXCEPT ![f] = v] : f \in DOMAIN args, v \in Mcp!ToolValues} : args \in PlainCalls(tool)} \cup
    {args @@ ("other" :> Single("text")) : args \in PlainCalls(tool)}

ToolInit ==
    /\ phase = "asked" /\ reply = NoReply /\ answer = [kind |-> "none", id |-> "none"]
    /\ mode = "tool" /\ op \in Mcp!Tools
    /\ \/ \E args \in CallsOf(op) : request = [args |-> args, granted |-> AllGranted]
       \/ \E args \in PlainCalls(op), granted \in {{"read"}, {"read", "mutation"}} :
            request = [args |-> args, granted |-> granted]

Authorized == Mcp!sessionCanCallTool(op, request.granted)

\* handleMcpRequestDispatch, tools/call: the grant, the schema, then the handler,
\* which parses, and for provider keys asks for the grant again.
CallUnauthorized == phase = "asked" /\ ~Authorized /\ Answer("unsupported", "request")

CallRefused ==
    /\ phase = "asked" /\ Authorized
    /\ ~Mcp!validateToolArguments(op, request.args)
    /\ Answer("schema", "request")

CallUnparsed ==
    /\ phase = "asked" /\ Authorized
    /\ Mcp!validateToolArguments(op, request.args)
    /\ ~Mcp!parseToolArgs(op, request.args)
    /\ Answer("parser", "request")

CallParsed ==
    /\ phase = "asked" /\ Authorized
    /\ Mcp!validateToolArguments(op, request.args)
    /\ Mcp!parseToolArgs(op, request.args)
    /\ Answer(IF Mcp!requirePrivilegedProviderAuthMutation(op, request.args, request.granted)
              THEN "handled" ELSE "unsupported", "request")

BoundaryInit == Init \/ ToolInit
BoundaryNext == Next \/ CallUnauthorized \/ CallRefused \/ CallUnparsed \/ CallParsed
BoundarySpec == BoundaryInit /\ [][BoundaryNext]_vars

-----------------------------------------------------------------------------
Given == DOMAIN request.args
Holds(f, c) == f \in Given /\ request.args[f] = Single(c)

\* The rules of the tools that their schemas do not state.
UnstatedRule ==
    \/ \E f \in Given : request.args[f].of \in {"blank", "reserved", "masked"}
    \/ \E f \in Given \cap {"older_than", "since"} : request.args[f] # Single("duration")
    \/ op \in {"models_update", "providers_update", "routes_update"} /\
       Given \subseteq {"model_id", "provider_id", "route_id", "no_auth"}
    \/ op = "providers_create" /\ Holds("no_auth", "false")
    \/ op = "providers_update" /\ {"no_auth", "api_key_env"} \subseteq Given
    \/ op \in {"trace_verify", "trace_repair"} /\
       (Holds("all", "true") = ("trace_id" \in Given) \/ ("batch_size" \in Given /\ ~Holds("all", "true")))
    \/ op = "optimize_restore" /\ "action_id" \in Given /\ Given \cap {"run_id", "route_id"} # {}
    \/ op = "optimize_run" /\ Holds("objective", "latency") /\ "prompt" \notin Given
    \/ op = "bench_run" /\ Holds("warmup", "huge")

(***************************************************************************)
(* A client that builds its calls from tools/list is served: a call the    *)
(* published schema describes reaches its handler unless it breaks one of  *)
(* the rules above, and a call that reaches its handler is described,      *)
(* except that a list of routes over the published maxItems gets through   *)
(* when its repetitions are dropped.                                       *)
(***************************************************************************)
ToolCallsMatchSchema ==
    mode = "tool" /\ phase = "done" /\ request.granted = AllGranted =>
        /\ Mcp!Describes(op, request.args) => answer.kind = "handled" \/ UnstatedRule
        /\ answer.kind = "handled" =>
               \/ Mcp!Describes(op, request.args)
               \/ "routes" \in Given /\ request.args["routes"].of = "repeats"

=============================================================================
