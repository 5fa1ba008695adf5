------------------------------ MODULE TraceStore ------------------------------
(***************************************************************************)
(* The trace part of the observability store: the observations of each     *)
(* request, the request_executions row summarised from them, and one       *)
(* benchmark run with its samples (service.ts, ostrich/query,              *)
(* ostrich/maintenance, ostrich/benchmark/benchmarks.ts).  Every writer is *)
(* a process with a connection of its own: the gateway's writer thread,    *)
(* a benchmark, a repair, and the deletions of an operator or of the       *)
(* retention schedule.                                                     *)
(*                                                                         *)
(* Time is counted in units of the shortest retention duration, one        *)
(* minute: a deletion never reaches rows of the current unit.  Rows of one *)
(* request are stored in the order they were observed in.                  *)
(***************************************************************************)
EXTENDS Naturals, Sequences, SequencesExt

CONSTANTS
    RequestCount,      \* requests of the gateway
    TaskCount,         \* tasks of the benchmark run
    MaxTime,           \* bound on the clock
    MaxDeletions,      \* bound on the deletions
    Casts              \* bound on who acts in one behaviour: sets of Processes

\* An MCP client, the gateway's writer with the benchmark's requests and with those of
\* others, who deletes, who keeps the store locked, who makes requests throw and aborts
\* benchmarks, and the trace, bench and optimize commands.
Processes == {"client", "gateway", "traffic", "operator", "locker", "faults", "trace", "bench", "optimizer"}

ASSUME TraceStoreAssumption ==
    /\ RequestCount \in Nat /\ TaskCount \in Nat /\ MaxTime \in Nat /\ MaxDeletions \in Nat
    /\ Casts \subseteq SUBSET Processes

GatewayRequests == 1 .. RequestCount
Tasks == 1 .. TaskCount

VARIABLES
    now,            \* the clock
    emitted,        \* what the gateway last observed of each of its requests
    observations,   \* the rows of each request, in time order
    executions,     \* the summary of each request
    run,            \* the benchmark_runs row
    samples,        \* the benchmark_samples row of each task
    deletions,      \* deletions so far
    cast,           \* the processes that act in this behaviour
    untouched,      \* known requests whose rows did not change since the scan began
    changed         \* another connection committed since the scan's transaction began

storeVars == <<now, emitted, observations, executions, run, samples, deletions, cast, untouched, changed>>

\* The request id under which a benchmark records a task itself: a task whose
\* recording throws is recorded once more.
Synthetic(t, attempt) == RequestCount + 2 * (t - 1) + attempt
Requests == 1 .. RequestCount + 2 * TaskCount

Null == MaxTime + 1    \* no time
Milestones == <<"request_received", "client_response_completed">>
Events == Milestones \o <<"debug_error_context">>
TerminalOutcomes == {"succeeded", "failed", "cancelled"}

Observation(event, at, outcome) == [event |-> event, at |-> at, outcome |-> outcome]

-----------------------------------------------------------------------------
(***************************************************************************)
(* The summary of a request.                                               *)
(***************************************************************************)
NoExecution == [started_at |-> Null]

initialOutcomeForEvent(o) ==
    IF o.outcome \in TerminalOutcomes THEN o.outcome
    ELSE IF o.event = "request_received" THEN "started" ELSE "in_progress"

\* The first observation counts as the request's arrival, whatever it is.
createInitialRequestExecution(o) ==
    [started_at |-> o.at, completed_at |-> Null, outcome |-> initialOutcomeForEvent(o),
     failed |-> FALSE, observation_count |-> 0,
     milestones |-> [e \in ToSet(Milestones) |-> IF e \in {o.event, "request_received"} THEN o.at ELSE Null]]

\* The first time of a milestone stays, the last terminal outcome wins.
applyObservationToExecution(x, o) ==
    LET terminal == o.outcome \in TerminalOutcomes
        error    == o.event = "debug_error_context"
        closes   == o.event = "client_response_completed" /\ ~terminal /\ x.completed_at = Null
    IN  [x EXCEPT
          !.observation_count = @ + 1,
          !.milestones = [e \in DOMAIN @ |-> IF e = o.event /\ @[e] = Null THEN o.at ELSE @[e]],
          !.failed = @ \/ error,
          !.completed_at = IF terminal \/ error \/ closes THEN o.at ELSE @,
          !.outcome = IF terminal THEN o.outcome
                      ELSE IF error THEN "failed"
                      ELSE IF closes /\ ~x.failed THEN "succeeded"
                      ELSE IF @ = "started" /\ o.event # "request_received" THEN "in_progress"
                      ELSE @]

materialized(x, o) ==
    applyObservationToExecution(IF x = NoExecution THEN createInitialRequestExecution(o) ELSE x, o)

buildFromObservations(rows) == FoldLeft(materialized, NoExecution, rows)

\* latency_ms: from the arrival to the end of the response, or null.
Latency(x) ==
    LET ms == x.milestones
    IN  IF ms["client_response_completed"] = Null THEN Null
        ELSE ms["client_response_completed"] - ms["request_received"]

\* A sample is a copy of what its execution was.
NoSample == [execution |-> 0, outcome |-> "none", latency |-> Null]
SampleOf(r) == [execution |-> r, outcome |-> executions[r].outcome, latency |-> Latency(executions[r])]

known(r) == observations[r] # <<>> \/ executions[r] # NoExecution

-----------------------------------------------------------------------------
Init ==
    /\ now = 0 /\ deletions = 0 /\ cast \in Casts /\ untouched = {} /\ changed = FALSE
    /\ emitted = [r \in GatewayRequests |-> [rank |-> 0, at |-> 0]]
    /\ observations = [r \in Requests |-> <<>>]
    /\ executions = [r \in Requests |-> NoExecution]
    /\ run = [status |-> "none", created_at |-> 0]
    /\ samples = [t \in Tasks |-> NoSample]

Tick == now < MaxTime /\ now' = now + 1
        /\ UNCHANGED <<emitted, observations, executions, run, samples, deletions, cast, untouched, changed>>

\* A commit that changed the rows of the requests S.
Committed(S) == changed' = TRUE /\ untouched' = untouched \ S

\* recordObservationBatch in the default mode: the summary follows row by row.
recordIncremental(r, rows) ==
    /\ observations' = [observations EXCEPT ![r] = @ \o rows]
    /\ executions' = [executions EXCEPT ![r] = FoldLeft(materialized, @, rows)]
    /\ Committed({r})

isTerminalRequestObservation(o) ==
    o.event \in {"client_response_completed", "debug_error_context"} \/ o.outcome \in TerminalOutcomes

\* The gateway's mode, terminal_only: the summary is rebuilt from all rows when a
\* terminal observation arrives, and only then.  Observations the queue has shed
\* never arrive; the others come in order, some time after they were made.
recordTerminalOnly(r) ==
    \E rank \in emitted[r].rank + 1 .. Len(Events), at \in emitted[r].at .. now :
        LET o == Observation(Events[rank], at, IF rank = Len(Events) THEN "failed" ELSE "none")
            rows == Append(observations[r], o)
        IN  /\ emitted' = [emitted EXCEPT ![r] = [rank |-> rank, at |-> at]]
            /\ observations' = [observations EXCEPT ![r] = rows]
            /\ executions' = [executions EXCEPT ![r] =
                    IF isTerminalRequestObservation(o) THEN buildFromObservations(rows) ELSE @]
            /\ Committed({r})
            /\ UNCHANGED <<now, run, samples, deletions, cast>>

-----------------------------------------------------------------------------
(***************************************************************************)
(* Deletions.  A sample goes with its execution (ON DELETE CASCADE) and    *)
(* with its run (deleted first).                                           *)
(***************************************************************************)
Expired(x, cutoff) == x # NoExecution /\ x.started_at < cutoff

SamplesOf(keptExecutions, keptRun) ==
    [t \in Tasks |-> IF keptRun /\ samples[t] # NoSample
                        /\ keptExecutions[samples[t].execution] # NoExecution
                     THEN samples[t] ELSE NoSample]

\* What a prune leaves of the rows of a request.
rowsFrom(cutoff, rows) ==
    FoldLeft(LAMBDA kept, o : IF o.at >= cutoff THEN Append(kept, o) ELSE kept, <<>>, rows)

RunExpired(cutoff) == run.status # "none" /\ run.created_at < cutoff

pruneOlderThan(cutoff) ==
    LET kept == [r \in Requests |-> IF Expired(executions[r], cutoff) THEN NoExecution ELSE executions[r]]
        rows == [r \in Requests |-> rowsFrom(cutoff, observations[r])]
    IN  /\ executions' = kept
        /\ observations' = rows
        /\ samples' = SamplesOf(kept, ~RunExpired(cutoff))
        /\ run' = IF RunExpired(cutoff) THEN [run EXCEPT !.status = "none"] ELSE run
        /\ Committed({r \in Requests : kept[r] # executions[r] \/ rows[r] # observations[r]})

\* deleteBenchmarkRun, pruneBenchmarkHistoryOlderThan, clearBenchmarkHistory
deleteBenchmarkRun ==
    /\ run.status # "none"
    /\ run' = [run EXCEPT !.status = "none"]
    /\ samples' = [t \in Tasks |-> NoSample]
    /\ Committed({})
    /\ UNCHANGED <<observations, executions>>

Delete ==
    /\ "operator" \in cast /\ deletions < MaxDeletions
    /\ deletions' = deletions + 1
    /\ deleteBenchmarkRun \/ \E cutoff \in 1 .. now : pruneOlderThan(cutoff)
    /\ UNCHANGED <<now, emitted, cast>>

-----------------------------------------------------------------------------
(***************************************************************************)
(* No summary outlives its observations: whatever a prune, a repair, the   *)
(* gateway's writer and a benchmark do at once, a stored summary begins    *)
(* with an observation that is still stored, so that trace_show can always *)
(* explain it and trace_verify never finds an orphan.                      *)
(***************************************************************************)
SummariesAreFounded ==
    \A r \in Requests : executions[r] # NoExecution =>
        \E i \in DOMAIN observations[r] : observations[r][i].at = executions[r].started_at

=============================================================================
