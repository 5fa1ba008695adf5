------------------------------ MODULE McpServer ------------------------------
(***************************************************************************)
(* The MCP server on stdin (mcp.ts, protocol.ts, dispatch.ts, session.ts), *)
(* with the operations of its tools on the observability store: chunks of  *)
(* input are handled one after another in a queue of promises, and the     *)
(* process ends when the input does.  Beside it run the gateway's writer,  *)
(* and the bench, trace and prune commands of other processes.             *)
(*                                                                         *)
(* A chunk is one line, or a line over the limit with one line behind it;  *)
(* good lines that share a chunk are handled as if each had its own.       *)
(* Messages that are answered without touching anything are told apart     *)
(* only by whether they get an answer.                                     *)
(***************************************************************************)
EXTENDS TraceMaintenance, OptimizationReport

CONSTANT MaxMessages   \* bound on the chunks of the client

ASSUME McpAssumption == MaxMessages \in Nat

VARIABLES
    stdin,      \* what the event loop knows of the input
    queue,      \* lines not yet handled, the first one at work when busy
    session,    \* the session's state: aborted, deleted, its store handle
    created,    \* the store file exists
    unanswered  \* requests without a response, in the order they came

serverVars == <<stdin, queue, session, created, unanswered>>
vars == <<storeVars, scan, benchVars, optimization, serverVars>>

-----------------------------------------------------------------------------
(***************************************************************************)
(* What a line is, and whether handleMcpRequestDispatch answers it.        *)
(***************************************************************************)
Message(form, tool, id) == [form |-> form, tool |-> tool, id |-> id, behind |-> FALSE]

\* The line came in one chunk with the line before it.
Behind(m) == [m EXCEPT !.behind = TRUE]

TraceReads == {"trace_list"}
HistoryReads == {"bench_show", "ledger_show", "optimize_show"}
StoreTools == TraceReads \cup HistoryReads \cup {"trace_verify", "trace_repair", "prune"}

\* Bound: a client calls the tools of traces and benchmarks, or those of optimizations.
Tools ==
    IF "optimizer" \in cast THEN HistoryReads \cup {"optimize_run"}
    ELSE TraceReads \cup {"trace_verify", "trace_repair", "prune", "bench_run"}

Messages ==
    {Message("unknown_method", "none", id) : id \in BOOLEAN}
      \cup {Message("method", "none", TRUE), Message("initialized", "none", TRUE),
            Message("unparsable", "none", FALSE), Message("oversized", "none", FALSE)}
      \cup {Message("call", tool, TRUE) : tool \in Tools}
      \cup {Message("call", tool, FALSE) : tool \in Tools \cap {"trace_list", "trace_repair", "ledger_show"}}

\* Bound: of what can stand behind a line over the limit, one request.
Chunks ==
    {<<m>> : m \in Messages}
      \cup {<<Message("oversized", "none", FALSE), Behind(Message("method", "none", TRUE))>>}

\* Whatever a session needs more than the right to read for.
Mutates(tool) == tool \in {"trace_repair", "prune", "ledger_show", "bench_run", "optimize_run"}

Benchmarks(tool) == tool \in {"bench_run", "optimize_run"}

\* A notification of a tool that mutates is not run, but it is answered.
Runs(m) == m.form = "call" /\ (m.id \/ ~Mutates(m.tool))

\* notifications/initialized gets no response, even as a request.
Answers(m) ==
    CASE m.form = "unknown_method" -> m.id
      [] m.form = "initialized" -> FALSE
      [] m.form = "call" -> m.id \/ ~Runs(m)
      [] OTHER -> TRUE

-----------------------------------------------------------------------------
InitServer ==
    /\ stdin = [seen |-> FALSE, ended |-> FALSE, paused |-> FALSE, finished |-> FALSE, messages |-> 0]
    /\ queue = <<>>
    /\ session = [aborted |-> FALSE, deleted |-> FALSE, handle |-> "none", busy |-> FALSE]
    /\ created = FALSE
    /\ unanswered = <<>>

\* The thread is in a tool; only a benchmark awaits.
Blocked ==
    session.busy /\ ~(bench.by = "mcp" /\ bench.phase \in {"planning", "running"} /\ Awaiting)

\* Bound: one benchmark or optimization in a behaviour.
ReceiveChunk ==
    /\ "client" \in cast /\ ~stdin.ended /\ ~stdin.paused /\ ~Blocked /\ stdin.messages < MaxMessages
    /\ \E chunk \in Chunks :
        /\ Benchmarks(Head(chunk).tool) => /\ bench.phase = "idle" /\ optimization = NoOptimization
                                           /\ \A i \in DOMAIN queue : ~Benchmarks(queue[i].tool)
        /\ IF stdin.finished THEN UNCHANGED <<queue, unanswered>>
           ELSE /\ queue' = queue \o chunk
                /\ unanswered' = unanswered \o SelectSeq(chunk, LAMBDA m : m.id)
    /\ stdin' = [stdin EXCEPT !.seen = TRUE, !.messages = @ + 1]
    /\ UNCHANGED <<storeVars, scan, benchVars, optimization, session, created>>

\* abortMcpSessionContext
AbortSession ==
    /\ session' = [session EXCEPT !.aborted = TRUE]
    /\ bench' = IF bench.by = "mcp" /\ ~BenchOver THEN [bench EXCEPT !.aborted = IF Aborted THEN @ ELSE "failed"] ELSE bench

\* Without input, and without a terminal, the end of stdin is ignored.
EndInput ==
    /\ "client" \in cast /\ ~stdin.ended /\ ~stdin.paused /\ ~Blocked
    /\ stdin' = [stdin EXCEPT !.ended = TRUE]
    /\ \/ stdin.seen /\ AbortSession
       \/ ~stdin.seen /\ UNCHANGED <<session, bench>>
    /\ UNCHANGED <<storeVars, scan, tasks, optimization, queue, created, unanswered>>

\* closeMcpSessionContext
finish ==
    /\ stdin' = [stdin EXCEPT !.finished = TRUE, !.paused = @ \/ ~stdin.ended]
    /\ session' = [session EXCEPT !.aborted = TRUE, !.deleted = TRUE, !.handle = "none", !.busy = FALSE]

FinishAfterQueue ==
    /\ stdin.seen /\ stdin.ended /\ ~stdin.finished /\ queue = <<>>
    /\ finish
    /\ UNCHANGED <<storeVars, scan, benchVars, optimization, queue, created, unanswered>>

-----------------------------------------------------------------------------
\* The parser's buffer without the rest of the chunk whose first line is at the head.
DropChunk ==
    IF Len(queue) > 1 /\ queue[2].behind THEN Tail(Tail(queue)) ELSE Tail(queue)

\* Mutant: the framing error stops the input and leaves the end to an event that
\* a paused input never has.
HandleFramingErrorPauseOnly ==
    /\ queue # <<>> /\ ~session.busy /\ Head(queue).form = "oversized"
    /\ stdin' = [stdin EXCEPT !.paused = TRUE]
    /\ queue' = DropChunk
    /\ UNCHANGED <<storeVars, scan, benchVars, optimization, created, session, unanswered>>

\* A line or a buffer over its limit: one error, an empty buffer, no more input, the
\* end.  What the buffer held behind the line gets no answer; chunks that came before
\* the pause are still handled.
HandleFramingError ==
    /\ queue # <<>> /\ ~session.busy /\ Head(queue).form = "oversized"
    /\ finish
    /\ queue' = DropChunk
    /\ UNCHANGED <<storeVars, scan, benchVars, optimization, created, unanswered>>

Handled(m) ==
    /\ queue' = Tail(queue)
    /\ unanswered' = IF m.id /\ Answers(m) THEN RemoveFirst(unanswered, m) ELSE unanswered

HandleMessage ==
    /\ queue # <<>> /\ ~session.busy
    /\ Head(queue).form # "oversized" /\ ~Runs(Head(queue))
    /\ Handled(Head(queue))
    /\ UNCHANGED <<storeVars, scan, benchVars, optimization, stdin, session, created>>

-----------------------------------------------------------------------------
(***************************************************************************)
(* Tools.  getSessionObservabilityHandle opens the store once per session; *)
(* a store that was missing stays missing for the session until a tool     *)
(* creates it.  A deleted session state is created anew, not aborted.      *)
(***************************************************************************)
OpenHandle(createIfMissing) ==
    LET handle == IF session.handle = "open" \/ createIfMissing THEN "open"
                  ELSE IF session.handle = "missing" \/ ~created THEN "missing" ELSE "open"
    IN  /\ session' = [session EXCEPT !.handle = handle, !.deleted = FALSE,
                                      !.aborted = @ /\ ~session.deleted,
                                      !.busy = handle = "open"]
        /\ created' = (created \/ createIfMissing)

\* A read, or a tool that found no store, is done at once.
CallStoreTool ==
    /\ queue # <<>> /\ ~session.busy /\ Runs(Head(queue)) /\ Head(queue).tool \in StoreTools
    /\ OpenHandle(FALSE)
    /\ UNCHANGED <<storeVars, scan, benchVars, optimization, stdin, queue, unanswered>>
    /\ session'.handle = "open"

CallFindsNoStore ==
    /\ queue # <<>> /\ ~session.busy /\ Runs(Head(queue)) /\ Head(queue).tool \in StoreTools
    /\ OpenHandle(FALSE) /\ session'.handle = "missing"
    /\ Handled(Head(queue))
    /\ UNCHANGED <<storeVars, scan, benchVars, optimization, stdin>>

InTool(tools) == session.busy /\ Head(queue).tool \in tools
Leaves == session' = [session EXCEPT !.busy = FALSE] /\ Handled(Head(queue))

ReadTool ==
    /\ InTool(TraceReads) /\ Leaves
    /\ UNCHANGED <<storeVars, scan, benchVars, optimization, stdin, created>>

HistoryTool ==
    /\ InTool(HistoryReads) /\ Leaves
    /\ UNCHANGED <<storeVars, scan, benchVars, optimization, stdin, created>>

PruneTool ==
    /\ InTool({"prune"}) /\ Leaves
    /\ \E cutoff \in 0 .. now : pruneOlderThan(cutoff)
    /\ UNCHANGED <<now, emitted, deletions, cast, scan, benchVars, optimization, stdin, created>>

ScanTool ==
    /\ InTool({"trace_verify", "trace_repair"})
    /\ \/ Head(queue).tool = "trace_verify" /\ verifyAll("mcp")
       \/ Head(queue).tool = "trace_repair" /\ (repairAll("mcp") \/ repairOne("mcp"))
    /\ UNCHANGED <<benchVars, optimization, serverVars>>

ScanToolEnds ==
    /\ scan.by = "mcp" /\ EndScan /\ Leaves
    /\ UNCHANGED <<benchVars, optimization, stdin, created>>

Benchmarking(tool) ==
    queue # <<>> /\ ~session.busy /\ Runs(Head(queue)) /\ Head(queue).tool = tool

\* The run listens to the signal the session had before the handle was opened.
StartsRun(objective) ==
    /\ OpenHandle(TRUE)
    /\ StartBench("mcp", objective, IF session.aborted THEN "failed" ELSE "no")
    /\ UNCHANGED <<scan, optimization, stdin, queue, unanswered>>

BenchTool == Benchmarking("bench_run") /\ StartsRun("route_benchmark")

\* optimize_run measures, or ranks by cost at once; a ranking refused opens no store.
OptimizeTool == Benchmarking("optimize_run") /\ StartsRun("route_optimization")

OptimizeCostTool ==
    /\ Benchmarking("optimize_run")
    /\ \/ OpenHandle(TRUE) /\ persistCost
       \/ /\ NoReport \in CostReports
          /\ session' = [session EXCEPT !.busy = TRUE]
          /\ UNCHANGED <<storeVars, benchVars, optimization, created>>
    /\ UNCHANGED <<scan, stdin, queue, unanswered>>

BenchToolEnds ==
    /\ InTool({"bench_run"}) \/ InTool({"optimize_run"})
    /\ bench.by = "mcp" => OperationOver
    /\ Leaves
    /\ UNCHANGED <<storeVars, scan, benchVars, optimization, stdin, created>>

Serve ==
    \/ FinishAfterQueue \/ HandleFramingError \/ HandleMessage
    \/ CallStoreTool \/ CallFindsNoStore \/ ReadTool \/ HistoryTool \/ PruneTool
    \/ ScanTool \/ ScanToolEnds \/ BenchTool \/ OptimizeTool \/ OptimizeCostTool \/ BenchToolEnds

-----------------------------------------------------------------------------
(***************************************************************************)
(* The other processes.                                                    *)
(***************************************************************************)
StoreStep ==
    /\ \/ Tick /\ created' = created
       \/ created /\ Delete /\ created' = created
       \/ created' = TRUE /\ \E r \in GatewayRequests :
            /\ IF r > GatewayTasks THEN "traffic" \in cast ELSE "gateway" \in cast /\ Requested(r)
            /\ recordTerminalOnly(r)
            /\ r <= GatewayTasks => emitted'[r].at >= run.created_at   \* the run came first
    /\ UNCHANGED <<scan, benchVars, optimization, stdin, queue, session, unanswered>>

CliScan ==
    /\ \/ "trace" \in cast /\ created /\ (repairAll("cli") \/ repairOne("cli"))
       \/ scan.by = "cli" /\ EndScan
    /\ UNCHANGED <<benchVars, optimization, serverVars>>

CliBench ==
    /\ "bench" \in cast /\ StartBench("cli", "route_benchmark", "no") /\ created' = TRUE
    /\ UNCHANGED <<scan, optimization, stdin, queue, session, unanswered>>

\* The optimize command.
CliOptimize ==
    /\ "optimizer" \in cast /\ "client" \notin cast /\ optimization = NoOptimization
    /\ \/ StartBench("cli", "route_optimization", "no") /\ UNCHANGED optimization
       \/ bench.phase = "idle" /\ persistCost
    /\ created' = TRUE
    /\ UNCHANGED <<scan, stdin, queue, session, unanswered>>

RunScan == ScanStep /\ UNCHANGED <<benchVars, optimization, serverVars>>
RunBench ==
    /\ \/ BenchStep /\ UNCHANGED optimization
       \/ OptimizeStep
    /\ UNCHANGED <<scan, serverVars>>
StopBench == (AbortBench \/ DrainTimeout) /\ UNCHANGED <<scan, optimization, serverVars>>

ControlInit == Init /\ InitScan /\ InitBench /\ InitOptimization /\ InitServer

Next ==
    \/ ReceiveChunk \/ EndInput \/ Serve
    \/ StoreStep \/ CliScan \/ CliBench \/ CliOptimize \/ RunScan \/ RunBench \/ StopBench

\* The event loop and the other processes run on; fetches end by their timeout.
\* Nobody is bound to send, to end the input, or to write to the store.
Fairness == WF_vars(Serve) /\ WF_vars(RunScan) /\ WF_vars(RunBench) /\ WF_vars(scan.by = "cli" /\ CliScan)

Spec == ControlInit /\ [][Next]_vars /\ Fairness

-----------------------------------------------------------------------------
(***************************************************************************)
(* The server gets to the end of its input: once a client that said        *)
(* something is gone, or was cut off for a line over the limit, every      *)
(* chunk that was queued is handled, whatever tool is at work, and the     *)
(* session is finished: no process stays behind.  Every request has its    *)
(* response by then, but for two kinds the code never answers: one that    *)
(* stood behind a line over the limit in its chunk, and is dropped with    *)
(* the parser's buffer, and notifications/initialized sent with an id.     *)
(***************************************************************************)
NeverAnswered(m) == m.behind \/ m.form = "initialized"

ServerEnds ==
    stdin.seen /\ (stdin.ended \/ stdin.paused)
      ~> stdin.finished /\ queue = <<>> /\ \A i \in DOMAIN unanswered : NeverAnswered(unanswered[i])

=============================================================================
