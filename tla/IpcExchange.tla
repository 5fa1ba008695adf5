----------------------------- MODULE IpcExchange -----------------------------
(***************************************************************************)
(* One call over the observability IPC boundary: inside the process        *)
(* (observability-ipc-dispatcher.ts), to an external engine                *)
(* (observability-ipc-external-adapter.ts), or a standalone optimize       *)
(* command that is only validated.                                         *)
(*                                                                         *)
(* A document follows the published schema in every field but at most one, *)
(* its fault: the shape and field where it differs and the value found     *)
(* there.  The validators test fields one at a time, so a document is      *)
(* refused exactly when one of its faults is.                              *)
(***************************************************************************)
EXTENDS Naturals, TLC

LOCAL INSTANCE IpcShapes

Schema   == INSTANCE IpcSchema
Requests == INSTANCE IpcValidation
Results  == INSTANCE IpcResults

VARIABLES
    mode,     \* "local", "external" or "command"
    op,       \* the operation, or the command's shape
    request,  \* the fault of the request frame or command, or NoFault
    phase,    \* "calling", "engine", "replied", "done"
    reply,    \* what the engine sent back
    answer    \* what the caller is given

vars == <<mode, op, request, phase, reply, answer>>

-----------------------------------------------------------------------------
(***************************************************************************)
(* The documents.  The schema describes the frames of some operations; the *)
(* others are laid out as their validators read them.                      *)
(***************************************************************************)
Commands == {"externalOptimizeApplyCommand", "externalOptimizeRestoreByActionCommand",
             "externalOptimizeRestoreByRunRouteCommand"}

Described == DOMAIN Schema!requests

Shapes == DOMAIN Schema!schema

ExternalValidators == Requests!validators("external")
LocalValidators    == Requests!validators("local")

\* The tables a request is read with; the frame itself is one more shape.
SchemaRequest == [o \in Described |-> ("frame" :> Schema!requests[o]) @@ Schema!schema]
CodeRequest(validators) ==
    [o \in Requests!Operations |-> ("frame" :> Requests!requestFrames[o]) @@ validators]
ExternalRequest == CodeRequest(ExternalValidators)
LocalRequest    == CodeRequest(LocalValidators)

\* The tables a success response is read with; its result goes by the operation.
SchemaResult(o) == CHOOSE s \in Shapes : Schema!responses[o].result = Ref(s)
SchemaResponse ==
    [o \in Described |->
        ("frame" :> [Schema!responses[o] EXCEPT !.result = Ref(o)]) @@
        (o :> Schema!schema[SchemaResult(o)]) @@ Schema!schema]
CodeResponse ==
    [o \in Requests!Operations |->
        ("frame" :> (Requests!successEnvelope @@ [result |-> Ref(o)])) @@ Results!resultValidators]

\* Everything the root refers to, for each table.
ReachedIn(tables) == [o \in DOMAIN tables |-> Reached(tables[o], "frame")]
SchemaRequestShapes   == ReachedIn(SchemaRequest)
ExternalRequestShapes == ReachedIn(ExternalRequest)
LocalRequestShapes    == ReachedIn(LocalRequest)
SchemaResponseShapes  == ReachedIn(SchemaResponse)
CodeResponseShapes    == ReachedIn(CodeResponse)
CommandShapes         == [c \in Commands |-> Reached(ExternalValidators, c)]

\* The one object of the schema that has fields and is not closed.
OpenObjects == {"benchmarkAnalysis"}

\* A table has nothing against a fault it never gets to.  The schema's objects
\* are closed; the validators let a field they do not look at hold anything.
Passes(table, reached, fault, closed) ==
    fault.shape \in reached =>
        IF fault.field \in DOMAIN table[fault.shape]
        THEN Takes(Shapes, table[fault.shape][fault.field], fault.value)
        ELSE \/ ~closed \/ fault.shape \in OpenObjects
             \/ fault.value = [many |-> FALSE, of |-> "absent"]

NoFault == [shape |-> "none", field |-> "none", value |-> [many |-> FALSE, of |-> "absent"]]

Fields(table, s) == IF s \in DOMAIN table THEN DOMAIN table[s] ELSE {}

\* Any field one of two tables names, or one that neither does.
FaultsOf(reached, one, other) ==
    UNION {[shape : {s}, field : Fields(one, s) \cup Fields(other, s) \cup {Undeclared},
            value : Values] : s \in reached}

RequestFaults ==
    [o \in Requests!Operations |->
        IF o \in Described
        THEN FaultsOf(SchemaRequestShapes[o], SchemaRequest[o], ExternalRequest[o])
        ELSE FaultsOf(ExternalRequestShapes[o], ExternalRequest[o], ExternalRequest[o])]

CommandFaults ==
    [c \in Commands |-> FaultsOf(CommandShapes[c], Schema!schema, ExternalValidators)]

ResponseFaults ==
    [o \in Requests!Operations |->
        IF o \in Described
        THEN FaultsOf(SchemaResponseShapes[o], SchemaResponse[o], CodeResponse[o])
        ELSE FaultsOf(CodeResponseShapes[o], CodeResponse[o], CodeResponse[o])]

\* A failure response and its error object.
FailureTable  == ("frame" :> Requests!failureEnvelope) @@ ("errorBody" :> Requests!errorBody)
FailureFaults == FaultsOf({"frame", "errorBody"}, FailureTable, FailureTable)

-----------------------------------------------------------------------------
\* nonJsonRuntimeValueField: a value JSON cannot carry, anywhere in the payload.
nonJsonRuntimeValueField(fault) ==
    fault.shape \notin {"frame", "storeRef"} /\ fault.value.of \in Runtime

\* Mutant: the payload is not searched for values JSON cannot carry.
validateExternalWithoutJson(o, fault) ==
    /\ Passes(ExternalRequest[o], ExternalRequestShapes[o], fault, FALSE)
    /\ o \notin Requests!LocalOnly

\* validateObservabilityIpcRequest for the external transport
validateExternal(o, fault) ==
    /\ Passes(ExternalRequest[o], ExternalRequestShapes[o], fault, FALSE)
    /\ o \notin Requests!LocalOnly
    /\ ~nonJsonRuntimeValueField(fault)

validateLocal(o, fault) == Passes(LocalRequest[o], LocalRequestShapes[o], fault, FALSE)

\* validateObservabilityExternalOptimizeApplyCommand and ...RestoreCommand
validateCommand(c, fault) ==
    /\ ~nonJsonRuntimeValueField(fault)
    /\ Passes(ExternalValidators, CommandShapes[c], fault, FALSE)

validateRequest ==
    CASE mode = "external" -> validateExternal(op, request)
      [] mode = "local"    -> validateLocal(op, request)
      [] mode = "command"  -> validateCommand(op, request)

\* validateObservabilityIpcResponse, then the result of a success.
validateResponse(o, r) ==
    IF r.ok
    THEN Passes(CodeResponse[o], CodeResponseShapes[o], r.fault, FALSE)
    ELSE Passes(FailureTable, {"frame", "errorBody"}, r.fault, FALSE)

-----------------------------------------------------------------------------
NoReply == [ok |-> TRUE, fault |-> NoFault, id |-> "none"]

Init ==
    /\ phase = "calling" /\ reply = NoReply /\ answer = [kind |-> "none", id |-> "none"]
    /\ \/ mode = "external" /\ op \in Requests!Operations
          /\ request \in RequestFaults[op] \cup {NoFault}
       \/ mode = "local" /\ op \in Requests!Operations
          /\ request = NoFault
       \/ mode = "command" /\ op \in Commands
          /\ request \in CommandFaults[op] \cup {NoFault}

Answer(kind, id) ==
    /\ phase' = "done"
    /\ answer' = [kind |-> kind, id |-> id]
    /\ UNCHANGED <<mode, op, request, reply>>

\* The frame is refused before anything runs.
Refused == phase = "calling" /\ ~validateRequest /\ Answer("protocolMismatch", "request")

CommandAccepted ==
    phase = "calling" /\ mode = "command" /\ validateRequest /\ Answer("accepted", "request")

Sent ==
    /\ phase = "calling" /\ mode # "command" /\ validateRequest
    /\ phase' = "engine"
    /\ UNCHANGED <<mode, op, request, reply, answer>>

\* dispatchObservabilityIpcOperation returned, or threw.
LocalResult == phase = "engine" /\ mode = "local" /\ Answer("result", "request")
LocalThrows == phase = "engine" /\ mode = "local" /\ Answer("operationFailed", "request")

\* transport.exchange rejected.
TransportFails ==
    phase = "engine" /\ mode = "external" /\ Answer("engineUnavailable", "request")

\* The engine answers: with a success or a failure, to this request or to another
\* one.  A wrong answer to a wrong request is not looked into.
EngineReplies ==
    /\ phase = "engine" /\ mode = "external" /\ request = NoFault
    /\ phase' = "replied"
    /\ \E ok \in BOOLEAN, id \in {"request", "another"} :
         \E fault \in (IF ok THEN ResponseFaults[op] ELSE FailureFaults) \cup {NoFault} :
            reply' = [ok |-> ok, fault |-> fault, id |-> id]
    /\ UNCHANGED <<mode, op, request, answer>>

\* The engine answers a request with a fault it was let have.
EngineServesFault ==
    /\ phase = "engine" /\ mode = "external" /\ request # NoFault
    /\ phase' = "replied"
    /\ reply' = [NoReply EXCEPT !.id = "request"]
    /\ UNCHANGED <<mode, op, request, answer>>

\* The frame's own id is returned, as a result, as the engine's error, or with
\* the complaint about it.
ReplyRefused ==
    /\ phase = "replied" /\ ~validateResponse(op, reply)
    /\ Answer("protocolMismatch", reply.id)

ReplyAccepted ==
    /\ phase = "replied" /\ validateResponse(op, reply)
    /\ Answer(IF reply.ok THEN "result" ELSE "engineError", reply.id)

Next ==
    \/ Refused \/ CommandAccepted \/ Sent
    \/ LocalResult \/ LocalThrows \/ TransportFails
    \/ EngineReplies \/ EngineServesFault
    \/ ReplyRefused \/ ReplyAccepted

Spec == Init /\ [][Next]_vars

-----------------------------------------------------------------------------
IsJson(fault) == fault.value.of \notin Runtime

SchemaTakesRequest ==
    /\ IsJson(request)
    /\ IF mode = "command"
       THEN Passes(Schema!schema, CommandShapes[op], request, TRUE)
       ELSE Passes(SchemaRequest[op], SchemaRequestShapes[op], request, TRUE)

SchemaTakesReply ==
    IsJson(reply.fault) /\ Passes(SchemaResponse[op], SchemaResponseShapes[op], reply.fault, TRUE)

\* The values only the code is particular about: dates, absolute paths, the
\* status words of a run, and that a list of routes is null rather than empty.
ParticularFields == {"dbPath", "cutoffIso", "status", "requestedRoutes", "requested_routes"}

\* What the code does not look into: the filters of a list and the details of
\* a report and of its candidates.
OpenShapes == {"traceListFilters", "traceListObservationsFilters", "ledgerListFilters",
               "optimizeReportView", "optimizeReportRun", "optimizeReportCandidates",
               "optimizeReportDisqualifiedCandidate", "optimizeReportBench",
               "optimizeRankingEntry", "optimizeReportWinner", "optimizeWarning",
               "optimizeCandidateRoute", "costConfig", "benchmarkRunSummary"}

(***************************************************************************)
(* An engine built from the published schema and the adapter agree on what *)
(* a request is: whatever the schema describes is sent on, save for the    *)
(* values only the code is particular about, and whatever is sent on is    *)
(* described, save for filters, report details and a field the schema does *)
(* not name: its objects are closed, and the validators ignore what they   *)
(* do not look for.  The standalone optimize commands differ in that last  *)
(* respect only.                                                           *)
(***************************************************************************)
RequestsMatchSchema ==
    mode = "command" \/ (mode = "external" /\ op \in Described) =>
        /\ answer.kind = "protocolMismatch" /\ reply = NoReply =>
               \/ ~SchemaTakesRequest
               \/ mode = "external" /\ request.field \in ParticularFields
        /\ phase = "engine" \/ answer.kind = "accepted" =>
               \/ SchemaTakesRequest
               \/ request.field = Undeclared
               \/ /\ mode = "external"
                  /\ request.shape \in OpenShapes \/ request.field = "filters"

\* Averages the schema wants as null where the code lets them be left out, and
\* words the code takes as any text.
LaxFields == {"average_gateway_residency_ms", "average_upstream_ttft_ms",
              "average_upstream_duration_ms", "average_latency_ms", "min_latency_ms",
              "max_latency_ms", "average_ttft_ms", "average_duration_ms",
              "by_path", "objective", "score_unit"}

(***************************************************************************)
(* A result the adapter trusts is one the schema describes, apart from     *)
(* averages that are left out, three fields whose content it does not      *)
(* read, and fields the schema does not name, which its closed objects     *)
(* refuse and the validators ignore.  The adapter turns down no described  *)
(* result but an observation that leaves out a field the schema calls      *)
(* optional.                                                               *)
(***************************************************************************)
ResultsMatchSchema ==
    mode = "external" /\ op \in Described /\ reply # NoReply /\ reply.ok /\ IsJson(reply.fault) =>
        /\ answer.kind = "result" =>
               SchemaTakesReply \/ reply.fault.field \in LaxFields \cup {Undeclared}
        /\ answer.kind = "protocolMismatch" =>
               \/ ~SchemaTakesReply
               \/ /\ reply.fault.shape = "observationRecord"
                  /\ reply.fault.value.of = "absent"

(***************************************************************************)
(* Nothing a transport cannot carry is handed to it: no function or Date   *)
(* of the caller's process and no operation that needs one.  The payload   *)
(* is searched to the bottom; a field nobody reads, beside the payload in  *)
(* the frame or beside dbPath in the store, is not looked at.              *)
(***************************************************************************)
OnlyJsonLeaves ==
    phase \in {"engine", "replied"} /\ mode = "external" =>
        /\ op \notin Requests!LocalOnly
        /\ \/ IsJson(request)
           \/ request.shape \in {"frame", "storeRef"} /\ request.field = Undeclared

=============================================================================
