----------------------------- MODULE BenchmarkRun -----------------------------
(***************************************************************************)
(* One benchmark run (bench-runner.ts, bench-runtime.ts, concurrency.ts):  *)
(* a plan of tasks, a pool of workers, and for each task a request whose   *)
(* execution row becomes a sample.  It is asked for over MCP (bench_run,   *)
(* optimize_run) or by the bench and optimize commands, whose wait for     *)
(* aborted work is bounded.                                                *)
(*                                                                         *)
(* The tasks are promises of one thread: a task that records has the       *)
(* thread until it awaits again.  Every statement is a transaction of its  *)
(* own, so other processes act in between.                                 *)
(***************************************************************************)
EXTENDS TraceStore

CONSTANTS
    Concurrency,
    MaxBusy,       \* bound on the statements that find the store locked for too long
    GatewayTasks   \* bound on the tasks of the gateway path, which have the first requests

ASSUME BenchAssumption ==
    Concurrency \in Nat \ {0} /\ MaxBusy \in Nat /\ GatewayTasks \in 0 .. TaskCount /\ GatewayTasks <= RequestCount

VARIABLES
    bench,   \* the run in its process: who asked for what, its phase and plan, what an abort made of it
    tasks    \* each task: its step, attempt, times, outcome and sample

benchVars == <<bench, tasks>>

Idle == [step |-> "unplanned", attempt |-> 1, started |-> 0, completed |-> 0, outcome |-> "failed",
         sample |-> NoSample]

InitBench ==
    /\ bench = [by |-> "none", objective |-> "none", phase |-> "idle", plan |-> <<>>, aborted |-> "no",
                closed |-> FALSE, busy |-> 0]
    /\ tasks = [t \in Tasks |-> Idle]

PathOf(t) == bench.plan[t].path
At(steps) == {t \in Tasks : tasks[t].step \in steps}

\* Steps a task takes without awaiting.
Recording == {"recording", "completing", "reading", "sampling"}
InFlight == At({"fetching", "polling"} \cup Recording)
Planned == Tasks \ At({"unplanned"})

\* The gateway observes a request once it was sent.
Requested(r) == r \in DOMAIN bench.plan /\ PathOf(r) = "gateway" /\ tasks[r].step # "waiting"

Aborted == bench.aborted # "no"

\* The thread is with no task.
Awaiting == At(Recording) = {}

-----------------------------------------------------------------------------
(***************************************************************************)
(* The plan and the run row.                                               *)
(***************************************************************************)
\* The configuration loads and the gateway answers its health check, or not.
preflightGatewayBench == BOOLEAN

effectivePaths(pathMode, gatewayUp) ==
    CASE pathMode = "direct" -> <<"direct">>
      [] pathMode = "gateway" -> IF gatewayUp THEN <<"gateway">> ELSE <<>>
      [] pathMode = "both" -> IF gatewayUp THEN <<"gateway", "direct">> ELSE <<"direct">>

\* Every route on every path, its warm-ups before its measured requests.
buildBenchTasks(routes, paths, warmup, iterations) ==
    LET requests(route, path) ==
            [i \in 1 .. warmup + iterations |-> [route |-> route, path |-> path, is_warmup |-> i <= warmup]]
        onPaths(route) == FlattenSeq([i \in DOMAIN paths |-> requests(route, paths[i])])
    IN  FlattenSeq([i \in DOMAIN routes |-> onPaths(routes[i])])

\* Bound on the routes, warm-ups and iterations of a run: a benchmark measures one route
\* once, an optimization compares two, with two requests each where nothing throws.
Shapes(objective) ==
    CASE objective = "route_benchmark" -> {<<<<1>>, 0, 1>>}
      [] objective # "route_benchmark" /\ "faults" \in cast -> {<<<<1, 2>>, 0, 1>>}
      [] OTHER -> {<<<<1, 2>>, 0, 2>>, <<<<1, 2>>, 1, 1>>}

FitsBounds(plan) ==
    Len(plan) <= TaskCount /\ \A t \in DOMAIN plan : plan[t].path = "gateway" => t <= GatewayTasks

StartBench(by, objective, aborted) ==
    /\ bench.phase = "idle"
    /\ bench' = [bench EXCEPT !.by = by, !.objective = objective, !.phase = "planning", !.aborted = aborted]
    /\ UNCHANGED <<storeVars, tasks>>

\* Without a path there is no run; with one the row is created and all tasks wait.
Plan ==
    /\ bench.phase = "planning"
    /\ \E pathMode \in {"direct", "gateway", "both"}, gatewayUp \in preflightGatewayBench, shape \in Shapes(bench.objective) :
        LET paths == effectivePaths(pathMode, gatewayUp)
            plan  == buildBenchTasks(shape[1], paths, shape[2], shape[3])
        IN  \/ /\ paths = <<>>
               /\ bench' = [bench EXCEPT !.phase = "refused"]
               /\ UNCHANGED <<storeVars, tasks>>
            \/ /\ paths # <<>> /\ FitsBounds(plan)
               /\ bench' = [bench EXCEPT !.phase = "running", !.plan = plan]
               /\ tasks' = [t \in Tasks |->
                    IF t \in DOMAIN plan THEN [Idle EXCEPT !.step = "waiting"] ELSE Idle]
               /\ run' = [status |-> "running", created_at |-> now]
               /\ Committed({})
               /\ UNCHANGED <<now, emitted, observations, executions, samples, deletions, cast>>

\* The wall-clock limit passed, or SIGINT: a cancellation, but bench_run knows only failures.
AbortBench ==
    /\ "faults" \in cast /\ bench.phase = "running" /\ ~Aborted /\ Awaiting
    /\ bench' = [bench EXCEPT !.aborted =
            IF bench.by = "cli" \/ bench.objective = "route_optimization" THEN "cancelled" ELSE "failed"]
    /\ UNCHANGED <<storeVars, tasks>>

-----------------------------------------------------------------------------
(***************************************************************************)
(* The worker pool.  A worker whose task throws is gone.                   *)
(***************************************************************************)
Workers == Min({Concurrency, Cardinality(Planned)}) - Cardinality(At({"rejected"}))

TakeTask ==
    /\ bench.phase = "running" /\ ~Aborted /\ Awaiting
    /\ At({"waiting"}) # {} /\ Cardinality(InFlight) < Workers
    /\ tasks' = [tasks EXCEPT ![Min(At({"waiting"}))] = [@ EXCEPT !.step = "fetching", !.started = now]]
    /\ UNCHANGED <<storeVars, bench>>

\* Mutant: Promise.all, which rejects with the first rejection.
AllSettledAtFirst ==
    \/ InFlight = {} /\ (Aborted \/ At({"waiting"}) = {} \/ Workers = 0)
    \/ At({"rejected"}) # {}

\* Promise.allSettled: no worker is at work and none will take another task.
AllSettled == InFlight = {} /\ (Aborted \/ At({"waiting"}) = {} \/ Workers = 0)

statusForError == IF Aborted THEN bench.aborted ELSE "failed"

\* updateRunStatus: no row, no update.
updateRunStatus(status) ==
    /\ run' = IF run.status = "none" THEN run ELSE [run EXCEPT !.status = status]
    /\ Committed({})
    /\ UNCHANGED <<now, emitted, observations, executions, samples, deletions, cast>>

\* The command's process closes its handle when it is through.
Settle ==
    /\ bench.phase = "running" /\ Awaiting /\ AllSettled
    /\ LET failed == Aborted \/ At({"rejected"}) # {}
       IN  /\ updateRunStatus(IF failed THEN statusForError ELSE "completed")
           /\ bench' = [bench EXCEPT !.phase = IF failed THEN "error" ELSE "reporting",
                                     !.closed = failed /\ bench.by = "cli"]
    /\ UNCHANGED tasks

\* waitForBenchDrainAfterAbort: five seconds after SIGINT the command gives up on its tasks.
DrainTimeout ==
    /\ bench.phase = "running" /\ Awaiting /\ bench.by = "cli" /\ Aborted /\ InFlight # {}
    /\ updateRunStatus(statusForError)
    /\ bench' = [bench EXCEPT !.phase = "error", !.closed = TRUE]
    /\ UNCHANGED tasks

\* summarizeRun and getRun: a run that was deleted meanwhile is an error.
Report ==
    /\ bench.phase = "reporting"
    /\ bench' = [bench EXCEPT !.phase = IF run.status = "none" THEN "error" ELSE "reported",
                              !.closed = bench.by = "cli"]
    /\ UNCHANGED <<storeVars, tasks>>

-----------------------------------------------------------------------------
(***************************************************************************)
(* executeBenchmarkTask.                                                   *)
(***************************************************************************)
Goes(t, step) == tasks' = [tasks EXCEPT ![t].step = step]
Ends(t, step) == tasks' = [tasks EXCEPT ![t] = [Idle EXCEPT !.step = step, !.sample = tasks[t].sample]]

\* A response: the gateway's is looked up under its request id, if it names one.
FetchEnds(t) ==
    /\ tasks[t].step = "fetching" /\ Awaiting
    /\ \E outcome \in {"succeeded", "failed"},
          step \in {"recording"} \cup (IF PathOf(t) = "gateway" THEN {"polling"} ELSE {}) :
        tasks' = [tasks EXCEPT ![t] = [@ EXCEPT !.step = step, !.completed = now, !.outcome = outcome]]
    /\ UNCHANGED <<storeVars, bench>>

\* The catch block: recorded under an id of its own, as a failure or a cancellation.
Caught(t, outcome) ==
    tasks' = [tasks EXCEPT ![t] =
        [@ EXCEPT !.step = "recording", !.attempt = 2, !.completed = now, !.outcome = outcome]]

\* An abort, a timeout, a transport error or a response that is too large.
FetchThrows(t) ==
    /\ "faults" \in cast /\ tasks[t].step = "fetching" /\ Awaiting
    /\ \E outcome \in {"failed", "cancelled"} : Caught(t, outcome)
    /\ UNCHANGED <<storeVars, bench>>

Found(t, r) == tasks' = [tasks EXCEPT ![t] = [@ EXCEPT !.step = "sampling", !.sample = SampleOf(r)]]

\* waitForRequestExecution: eight looks at the store, unless the run is aborted.
Poll(t) ==
    /\ tasks[t].step = "polling" /\ Awaiting
    /\ \/ ~Aborted /\ executions[t] # NoExecution /\ Found(t, t)
       \/ ~Aborted /\ executions[t] = NoExecution /\ Goes(t, "recording")
       \/ Aborted /\ Caught(t, "cancelled")
    /\ UNCHANGED <<storeVars, bench>>

\* recordSyntheticBenchmarkExecution, up to the request's start and from its end.
RecordStart(t) ==
    /\ tasks[t].step = "recording" /\ ~bench.closed
    /\ recordIncremental(Synthetic(t, tasks[t].attempt),
                         <<Observation("request_received", tasks[t].started, "started")>>)
    /\ Goes(t, "completing")
    /\ UNCHANGED <<now, emitted, run, samples, deletions, cast, bench>>

RecordCompletion(t) ==
    LET k == tasks[t]
        row(event) == Observation(event, k.completed, k.outcome)
    IN  /\ k.step = "completing"
        /\ recordIncremental(Synthetic(t, k.attempt),
               <<row("client_response_completed")>>
                 \o (IF k.outcome = "succeeded" THEN <<>> ELSE <<row("debug_error_context")>>))
        /\ Goes(t, "reading")
        /\ UNCHANGED <<now, emitted, run, samples, deletions, cast, bench>>

\* getRequestExecution: a prune may have come in between.
ReadExecution(t) ==
    /\ tasks[t].step = "reading"
    /\ LET r == Synthetic(t, tasks[t].attempt)
           found == executions[r] # NoExecution
       IN  \/ found /\ Found(t, r)
           \/ ~found /\ tasks[t].attempt = 1 /\ Caught(t, "failed")
           \/ ~found /\ tasks[t].attempt = 2 /\ Ends(t, "rejected")
    /\ UNCHANGED <<storeVars, bench>>

\* insertSample: the foreign keys want the run and the execution.
insertSample(t) ==
    /\ tasks[t].step = "sampling"
    /\ \/ /\ run.status # "none" /\ executions[tasks[t].sample.execution] # NoExecution
          /\ samples' = [samples EXCEPT ![t] = tasks[t].sample]
          /\ Ends(t, "sampled")
          /\ Committed({})
          /\ UNCHANGED <<now, emitted, observations, executions, run, deletions, cast>>
       \/ /\ run.status = "none" \/ executions[tasks[t].sample.execution] = NoExecution
          /\ Ends(t, "rejected")
          /\ UNCHANGED storeVars
    /\ UNCHANGED bench

\* The store is locked for longer than busy_timeout, or the handle is closed: the first
\* recording is caught and repeated, the second, and the sample, take the task with them.
StoreThrows(t) ==
    /\ tasks[t].step \in {"recording", "completing", "sampling"}
    /\ \/ bench.closed /\ UNCHANGED bench
       \/ "locker" \in cast /\ bench.busy < MaxBusy /\ bench' = [bench EXCEPT !.busy = @ + 1]
    /\ IF tasks[t].step # "sampling" /\ tasks[t].attempt = 1 THEN Caught(t, "failed") ELSE Ends(t, "rejected")
    /\ UNCHANGED storeVars

TaskStep(t) ==
    \/ FetchEnds(t) \/ FetchThrows(t) \/ Poll(t)
    \/ RecordStart(t) \/ RecordCompletion(t) \/ ReadExecution(t) \/ insertSample(t) \/ StoreThrows(t)

BenchStep == Plan \/ TakeTask \/ Settle \/ Report \/ \E t \in Tasks : TaskStep(t)

BenchOver == bench.phase \in {"refused", "error", "reported"}

-----------------------------------------------------------------------------
(***************************************************************************)
(* A settled run is final and honest: once its status is written no late   *)
(* task adds a sample to it or changes it, and a run is completed only     *)
(* when each planned task delivered its sample.  The report the caller     *)
(* gets, and every later comparison of runs, rests on that.                *)
(***************************************************************************)
SettledRunsAreFinal ==
    [][/\ run.status \in {"completed", "failed", "cancelled"} =>
            /\ run'.status \in {run.status, "none"}
            /\ \A t \in Tasks : samples'[t] \in {samples[t], NoSample}
       /\ run.status = "running" /\ run'.status = "completed" => Planned = At({"sampled"})]_<<run, samples>>

=============================================================================
