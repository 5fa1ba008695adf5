# switchmaxxer in TLA+

switchmaxxer is a local gateway between LLM clients and providers. One Node
process serves HTTP, keeps an SQLite store of observations through a worker
thread, and is configured by `config.json` and `catalog.json`; a CLI and an MCP
server change those files, run benchmarks, and apply the recommendation of an
optimization run to a route. This directory models the parts of it where
processes, threads, timers and failures meet. Paths below are relative to
`src/src/subsystems/`.

## Inventory

| Component | State | Operations | What is hard |
|---|---|---|---|
| observation queue (`observability/ostrich/ingestion/gateway-observation-queue.ts`) | four priority buckets, byte counter, drop counter | enqueue with shedding, drain a batch, clear, count drops | limits, an oversize item, a counter kept by `+=` and `-=`, merge order |
| flush, writer handle (`gateway-observation-flush.ts`, `-worker.ts`) | timer, immediate, flush promise; worker, generation, ready/close promises, pending writes | schedule, flush, write a batch, dispose, events of the thread | lost wakeups, stale events, timeouts racing late answers, disposals that overlap |
| writer thread (`gateway-writer-worker.ts`) | store, in-flight count, closeRequested | init, write_batch, close | close in the middle of a write, partial batches, crashes |
| observability shutdown (`gateway-observation-shutdown.ts`, `observability/gateway.ts`) | the drain loop | drain, dispose, reset | must end although SQLite hangs |
| configuration mutation (`config/config-file.ts`, `config/mutation/*`) | lock file, the two documents | create/update/delete of routes, models and providers, config set, import | stale locks, checks made before the lock, crashes between two renames |
| gateway lifecycle (`gateway/gateway-runner.ts`, `gateway/runtime.ts`, `hot-path/manatee/runtime/runtime-snapshot.ts`) | active snapshot, server, retention timer, shutdown flag, handlers | boot, SIGHUP, SIGINT/SIGTERM, fatal error, exit | files that change between reads, half-applied reloads, hanging requests |
| optimize apply/restore (`observability/optimize-mutation-idempotency.ts`, `...-executor.ts`, `ostrich/optimization/*`, `ostrich/ledger/*`, `cli/commands/optimize/*`, `mcp/optimize-tools.ts`) | idempotency records, ledger rows, snapshots, mutation events, the route | accept, start, check, snapshot, write, event, complete, fail | repeats, crashes and failing statements between any two steps, two kinds of caller |
| request dispatch, slots (`hot-path/manatee/runtime/request-dispatch.ts`, `runtime-request-handler.ts`, `runtime-state-managers.ts`) | active parses, active streams per source | admit, acquire, read, parse, proxy, release | slots leaked or held too long on one of many ways out |
| rate limiters, authentication (`rate-limit.ts`, `auth-rate-limit.ts`, `runtime-auth-policy.ts`) | windows per caller, lockouts | check, record a failure, evict | window edges, eviction at capacity, reset by reload |
| proxy (`hot-path/manatee/proxy/*`) | one response with its timers and abort controller; the cache of resolved endpoints | resolve, fetch, buffer, stream, translate, abort | end, timeout, limit and client close racing; a cache shared by routes |
| inspection store (`invoke-inspection-store.ts`) | captures, bindings to requests | allocate, bind, record, read, prune | expiry and eviction under a running request |
| IPC contract (`observability/observability-ipc-*.ts`, `scripts/generate-observability-ipc-schema.js`) | one exchange | validate, dispatch, exchange, validate the result | hand-written validators beside a generated schema |
| MCP server (`mcp/*`) | stdin, queue of chunks, session with a store handle | frame, dispatch, parse, run a tool, finish | input that ends or breaks while a tool runs; schema and parsers that drift apart |
| trace store (`observability/service.ts`, `ostrich/query/*`, `ostrich/maintenance/*`) | observations, request executions | record, materialise, verify, repair, prune | repairs beside writers and deletions, batches of a moving set |
| benchmarks, optimization reports (`bench/bench-runtime.ts`, `ostrich/benchmark/*`, `ostrich/optimization/*`) | run, samples, the task pool; the stored ranking | plan, fetch, record, sample, settle, rank, store | late tasks, aborts, rows pruned under a run, what a ranking rests on |
| translation (`hot-path/manatee/translation/*`) | none that lasts | translate a request, response, event | – |
| CLI, configuration loading, platform | none that lasts | parse, validate, render | – |

How they interact: the request path calls `recordGatewayObservation`, which
enqueues and schedules a flush; the flush posts a batch to the thread and waits
for its message or a timeout. The gateway lifecycle's finalizer calls the
observability shutdown and bounds it with the forced-exit timer. The gateway
reads the files the configuration mutation writes, without its lock. An
optimize command uses the configuration mutation for its catalog write and may
then ask the gateway to reload.

The gateway's writer, the bench, trace
and optimize commands and the MCP server's tools are separate connections to one
SQLite store. MCP tools call the same functions as the commands, in a session
that keeps its handle open; the end of the input aborts a running benchmark. The
IPC contract is the boundary behind which the observability engine may be
another process.

`PROJECT.json` lists every component, the hazards with their lines, and the
lines every definition models.

## Modules

| Module | Models | Extends / instantiates |
|---|---|---|
| `ObservationBuffer` | what the queue promises: a bounded set of observations | |
| `ObservationQueue` | the buckets and loops of the queue | instantiates `ObservationBuffer` (refinement) |
| `ObservationPipeline` | queue, flush, handle, thread, shutdown together | takes the queue's shedding and draining from an instance of `ObservationBuffer` |
| `ConfigMutation` | lock file and read-mutate-write cycle of several processes | |
| `GatewayLifecycle` | the gateway process | |
| `OptimizeMutation`, `MCOptimizeMutation` | optimize apply/restore by CLI and MCP | the MC module picks the commands |
| `RequestAdmission` | what a request's headers and the configuration decide | |
| `RateLimiter`, `AuthLimiter` | the two limiters as functions of their tables | |
| `InspectionStore` | captures and their bindings | |
| `ProviderEndpoint` | resolution of a provider's address and its cache | |
| `ResponseDelivery` | one response: buffered, piped or translated | |
| `RequestPath`, `MCRequestPath` | the request handler, several requests at once, reloads | composes the six above; the MC module gives messages, configurations and workloads |
| `IpcShapes` | shapes: fields and the classes of values they admit | |
| `IpcSchema` | the published JSON schema as shapes | instantiates `IpcShapes` |
| `IpcValidation`, `IpcResults` | the validators of requests and of results as shapes | instantiate `IpcShapes` |
| `IpcExchange` | one call, local or through the external adapter | instantiates the three above |
| `McpTools` | schema and parser of every MCP tool | |
| `Boundaries` | both boundaries | extends `IpcExchange`, instantiates `McpTools` |
| `TraceStore` | rows of requests, benchmark run and samples; record, prune, delete | |
| `TraceMaintenance` | verify and repair | extends `TraceStore` |
| `BenchmarkRun` | one benchmark | extends `TraceStore` |
| `OptimizationReport` | rankings and the stored winner | extends `BenchmarkRun` |
| `McpServer` | the server with its tools, and the commands of other processes | composes the four above |
| `*Proofs` | theorems | extend their module and `TLAPS` |

Every function that runs to completion on the event loop is one action, its
loops and trailing calls included; steps of different threads or processes
interleave at messages, file-system calls or SQL statements.

* **ObservationBuffer / ObservationQueue.** `buckets` is
  `pendingGatewayObservationQueue`; the buffer sees it as a set whose elements
  carry their arrival number. The buffer defines the result of the drop loop
  (`Kept`) and of the drain loop (`Batch`) without a loop; `ImplementsBuffer`
  says that the loops compute just that. Bounds: `MaxArrivals`,
  `MaxDropCount`.
* **ObservationPipeline.** `flush` is the promise under way and what it awaits,
  `worker`, `generation`, `ready`, `close`, `closing`, `pending` the
  variables of the handle, `thread[w]` a worker thread with its inbox, outbox and
  in-flight writes, `dispose` the two callers of a disposal (a worker error and
  the shutdown), `phase` the shutdown. `rows`, `skipped` and `acked` record what
  was stored, given up by the writer, and acknowledged. A promise
  continuation that is already queued runs before the next event (`Quiet`).
* **ConfigMutation.** `lock` is the file at `<config>.lock`, with its creator,
  whether the metadata is in it, and whether it is older than the stale limit.
  `proc[p].pc` is the next file-system call. An *entity* is a model or a
  provider; a route refers to one. Operations on other fields take the same
  path and change nothing that is kept.
* **GatewayLifecycle.** `load` is the boot or reload between its three reads of
  the files, `runtime` is `activeRuntime`, `shutdown` the state of
  `beginGatewayGracefulShutdown`. Only writers of the files (and an
  unhandled signal) act while a load is under way.
* **OptimizeMutation.** One target route; a run is named by the provider it
  recommends; a key is the command with its flags, as in
  `externalOptimizeMutationIdempotencyKey`. `proc[p].pc` is the next statement.
  Processes in `Mcp` answer as `mcp/optimize-tools.ts` does, the others as the
  CLI does. After the write the read model is loaded again without the lock, a
  step of its own (`loadReadModel`): what it sees is the "after" of the event.
  Bound: `MaxAttempts`, commands and edits together.

* **RequestPath.** `req[r]` is a request at work with its place (`pc`), slots,
  upstream body and response; `rate`, `health`, `auth`, `store`, `cache`,
  `parseActive` and `streamActive` are what outlives it. The handler is
  synchronous up to its first await, so what it refuses before that is one step.
  `grants` and `guesses` are logs that only the properties read.
* **Boundaries.** A value is one of some twenty classes ("blank", "date",
  "function", "huge"...), a shape maps fields to classes. A document follows the
  schema but for one field, which has any value of any class: the validators test
  one field after another, so a second fault adds nothing. `Undeclared` stands
  for a field that neither table names. For MCP a call has
  its required fields, or all but one, with up to two optional ones, or with all
  or all but one of them.
* **TraceStore to McpServer.** `observations[r]` and `executions[r]` are the rows
  of a request, `run`, `samples` and `optimization` those of one benchmark and
  one optimization. A statement or transaction is a step. `bench` and `tasks`
  are the benchmark in its process, `scan` a verify or repair, `stdin`, `queue`
  and `session` the MCP server. A tool has the server's thread unless it awaits.
  A chunk of input is one line, or a line over the limit with a request behind it,
  which is what empties the parser's buffer; good lines of one chunk are handled
  as if each had its own. `unanswered` holds the requests without a response.
  A behaviour has a `cast`: the processes that act in it.

## Runs

| Run | Checks | Shows |
|---|---|---|
| `queue` | `WithinLimits`, `BatchesAreChronological`, `ShedsLowestPriorityFirst`, `ImplementsBuffer` | the loops implement the buffer and keep its limits |
| `pipeline` | `NoStrandedFlush`, `AckMeansProcessed`, `NoOrphanWorker`, `EventsAreCurrent`, `NoWriteToClosedStore`, `WrittenAtMostOnce`, `ShutdownEnds`, `EventuallyFlushed` | flush and shutdown under crashes, hangs and timeouts |
| `config` | `CatalogIsConsistent`, `NoLeakedLock` | two processes on two hosts, and the lock of a third that crashed |
| `config_serialized` | `ReadMutateWriteSerialized` (violated) | finding 1 |
| `gateway` | `ServesListeningAddress`, `ReportedReloadIsApplied`, `CleanExitIsDrained`, `ShutdownEnds` | reloads, signals and exits |
| `gateway_reload_atomic` | `FailedReloadKeepsSnapshot` (violated) | finding 2 |
| `optimize` | `ExecutedAtMostOnce`, `SuccessIsBacked`, `RestoresUndoApplies`, `OutcomesAreFinal` | a CLI process and an MCP server, crashes and failing statements anywhere |
| `optimize_ledger_row` | `ChangedIsInLedger` (violated) | finding 3 |
| `requests` | `SlotsHeldExactly`, `UpstreamReleased`, `CleanEndIsComplete`, `SlidingBudget`, `GuessBudget`, `PrivateOnlyIfAllowed`, `LockoutsEvictedLast`, `BindingsLeaveWithCaptures`, `RequestEnds` | two requests at once with limiters, captures, the endpoint cache and reloads |
| `request_slot_leak` | `SlotFreedOnClose` (violated) | finding 4 |
| `ipc` | `RequestsMatchSchema`, `ResultsMatchSchema`, `OnlyJsonLeaves`, `ToolCallsMatchSchema` | validators and parsers agree with the published schemas but for listed exceptions |
| `control` | `SummariesAreFounded`, `RepairAllIsComplete`, `WinnerIsNotBeaten`, `SettledRunsAreFinal`, `ServerEnds` | MCP server, commands, gateway writer and deletions on one store |

Bounds, and why they are enough:

* `queue`: batch of 2, limits of 3 observations and 4 bytes, four
  arrivals, sizes 1, 2 and 5. Either limit can bind first, an observation can be
  larger than the buffer, all four priorities and timestamp ties occur, and a
  drain can leave something behind.
* `pipeline`: three arrivals into a queue of 2, two worker threads. A second
  thread is what a stale event or an orphan would take: the code never spawns it
  (`SpawnsOnce`), its mutants do. A third arrival is what arrives during a flush.
* `config`: one entity and one route are the two ends of a reference, which is
  all a dangling reference takes. The two processes are on different hosts, so a
  live holder's lock can be stolen by age, and the ghost's lock can be
  unstamped. Crashes stop an operation; the system may stop, so deadlock is not
  checked.
* `config_serialized` sets `SlowOps` to FALSE and puts both processes on one
  host: no lock becomes stale and none is stolen, and the cycle still
  interleaves.
* `gateway`: two ports and two limits, so that a reload can differ from what is
  active in each field; invalid files at any of the three reads; up to two
  requests.
* `optimize`: three providers, one run, plain, reload and dry-run flags, three
  commands or edits: enough for apply, restore, repeat and an edit in between,
  also one between a write and the reading after it that is neither the target
  nor what was there before (that takes the third provider). The providers no run
  recommends are symmetric. The dry run of a restore is not issued: it differs
  from that of an apply in its checks only. Deadlock is not checked because the
  commands run out.

* `requests`: two requests at once, so that slots and limits of one are met; a
  behaviour follows one of seven workloads (guessing tokens, spending budgets,
  probing health, streaming, resolving endpoints, one parse slot for all,
  inspection), so that independent parts add their states instead of multiplying
  them. Limiter tables hold fewer entries than there are sources; windows are one
  to three ticks; the logs are as long as the longest window (`MaxWindow` = 3). The gateway may
  have nothing to do, so deadlock is not checked.
* `ipc`: every operation, every field, every class of value. An exchange ends.
* `control`: up to four benchmark tasks, at most one through the gateway; three
  requests in batches of one, so that a repair of everything takes several
  batches; one deletion, one lock that outlasts the busy timeout, two chunks,
  two moments in time (a deletion needs an earlier one). Two chunks are what a
  chunk queued behind a framing error takes, and a benchmark with its
  interruption. The seven casts pair the processes that touch the same rows;
  a benchmark that is measured for an optimization has two routes with two
  requests each, or a warm-up and a request, and where requests also throw one
  request each (`Shapes`). Three routes with three costs give every tie and every
  unpriced candidate. The system may come to rest, so deadlock is not checked.

Fairness. In `ObservationPipeline`, a timer that stays armed fires and an event
that stays queued is handled: that is Node's event loop. The writer thread is
owed nothing, since SQLite may block it; nor is `worker.terminate()`, which is
awaited without a timeout and resolves only when the thread is out of its native
call; nor is the forced-exit timer, so `ShutdownEnds` is about the shutdown's own
timeouts. In `GatewayLifecycle` a
load, being synchronous, goes on; the forced-exit timer fires (strong fairness,
because reloads may keep the event loop busy again and again); requests and the
finalizer may hang for ever. In
`RequestPath` timers fire (body, deadline, lifetime; for a buffered body only
where it has one), the resolver answers, and
a client goes on reading or leaves; the last is an assumption about the other
side, without which a stream that hit its limit hangs (see below). Upstreams are
owed nothing. In
`McpServer` the server, a scan and a benchmark go on, since fetches have a
timeout; nobody is bound to send, to end the input or to write to the store.
`OptimizeMutation`, `ConfigMutation` and `Boundaries` state no liveness.

What the code bounds by nothing is exempted in the properties themselves:

* `EventuallyFlushed`: the wait for a new thread's "ready".
* `ShutdownEnds` of the pipeline: the wait for `terminate()` of a thread that
  hangs in a native call, and the wait for a disposal begun by a worker error.
  Only the gateway's forced-exit timer ends the process then, which is
  `ShutdownEnds` of `GatewayLifecycle`.
* `RequestEnds`: the request of finding 4, and a request whose upstream stalls for
  good in a buffered body on the pinned transport (`Untimed`), where neither the
  timer nor the abort signal of the fetch reaches the body.
* `ServerEnds`: two kinds of request the MCP server never answers
  (`NeverAnswered`), one dropped with the parser's buffer behind a line over the
  limit, the other `notifications/initialized` sent with an id.

## Findings

1. `withConfigMutationLock` unlinks the lock path in its `finally` even if it
   did not acquire the lock. A process that is refused removes the holder's
   lock; another one then enters, and a change is lost. `CatalogIsConsistent`
   still holds: every written document was validated as a whole.
2. `reloadActiveConfig` swaps the snapshot before a third read of the files that
   may throw. The reload is then reported as failed but is being served, with
   the old retention timer and connection limit.
3. An MCP apply or restore with neither reload nor verify never calls the
   deferred completion: the ledger row stays "started" and a repeat gets
   "unknown completion".
4. A client that closes its connection while the gateway waits for the headers of
   a pass-through stream: the close event is over before
   `pipeOpenAiStreamingResponse` listens for it, its promise never settles, and
   the parse slot and the stream slot are never given back.

Seen on the way, without a run of their own:

* Running the same `optimize apply` again replays the first result: it reports a
  change that it did not make, even after a restore.
* A pass-through stream over a limit is destroyed without an error event: the
  response is not ended and the request waits for its client to leave
  (`PipeLimit`); the specification of the proxy says that a limit surfaces as an
  error with a client-facing envelope. A
  translated stream blocked on a slow client is not released by the
  lifetime timer (`BlockedLimit`).
* A lockout is dropped when the failure window rotates; a full table of locked
  sources evicts a newcomer at once.
* An edit of the route between the catalog write of an apply and the reading after
  it becomes the "after" of the apply's event, so a later restore finds the route
  as expected and overwrites the edit.
* A capture that leaves the inspection store while its request's body is being
  read is bound by that request afterwards: later exchanges go into an object
  nobody can read, and the binding is never removed.
* A buffered body that stalls on the pinned transport holds its request's slots
  as long as the upstream keeps the connection.
* A reload reads the files twice for one snapshot, so its configuration and its
  read model may come from different versions of them.
* Requests behind a line over the limit are dropped if they came in the same
  chunk, and handled if they came in a next one that was queued already.
* The external adapter does not compare the id of a response with that of the
  request, although the contract says responses echo it.
* The schema closes its objects and a test has it refuse undeclared fields
  (`observability/observability-ipc-schema.test.ts:1308-1344`); the validators
  ignore them, in requests and in results. An undeclared field beside the payload
  in the frame, or in the store reference, is not even searched for functions.
* Published and enforced shapes differ besides in the fields `ParticularFields`,
  `OpenShapes`, `LaxFields` (`IpcExchange`) and by the rules `UnstatedRule`
  (`Boundaries`): for example the schema calls fields of an observation optional
  that the validator wants present, `maxItems` of a tool is published and never
  enforced, and `batch_size` of a trace scope is refused without `all`.
* `verifyAll` pages by offset and skips requests when others are deleted;
  `repairAll` does not. A prune splits a request that straddles its cutoff.
* The MCP server ignores the end of stdin before any input, and a store it found
  missing stays missing for the session until a tool creates it.
* The `timeout_ms` of a benchmark has no effect on its requests, which use the
  route's. `optimization_runs` names a benchmark run but no foreign key keeps it.

## Proofs

Checked by TLAPS for every value of the constants that the named assumptions
allow. Every theorem but `BufferInvariant`, `SpawnsOnce` and `ControlPlaneTyped`
states a property of a passing run. The properties are hardly ever inductive;
what each proof adds is said below.

* **ObservationBufferProofs** (`LimitsAssumption`, `ObservationAssumption`).
  `BufferInvariant`: `Spec => [](TypeOK /\ CounterIsExact /\ WithinLimits)`.
  `WithinLimits` needs the counter to be exact, and that needs arrivals to be
  distinct (in `TypeOK`), so that the bytes of disjoint sets add up. The central
  lemma is that what `Kept` leaves fits: the first observation kept in drop order
  is kept because the limits already held at its turn, and exactly the ones
  before it are gone.
* **ObservationQueueProofs** (the same assumptions). `QueueImplementsBuffer`:
  `Spec => ImplementsBuffer`, each call of the queue being the same call of the
  buffer; from it and `BufferInvariant`, `QueueStaysWithinLimits`; and
  `LowestIsShedFirst`, `BatchesMergeInTime`. The invariant between calls (`QInv`)
  says that a bucket holds the observations of its priority, first come first
  (`Sound`), and that the next arrival is new. The two loops are functions of
  the number of rounds; `RoundsExist` shows that such a function is there, and
  what a loop leaves is shown round by round, by induction over a set of rounds
  (`NaturalsInduct`). Drop loop (`Sheds`): what is gone ranks below what is left,
  and the limits did not hold at its turn, so that what is left is `Kept`. Drain
  loop (`Takes`): what is gone leaves before what is left in the order of the
  buffer, where an observation leaves no earlier than what stands before it in
  its bucket (`LeavesAt`); `NextLeavesFirst` shows that the earliest head is next
  in that order, and so the n first gone are `Batch`.
* **ObservationPipelineProofs** (`PipelineAssumption`: how many threads there may
  be, and that priorities are 0 to 3; nothing is assumed of the limits).
  `FlushIsNeverStranded`, `AcknowledgedIsProcessed`, `WorkersAreOwned`,
  `HeardIsCurrent`, `StoreOutlivesWrites`, `WrittenOnce`, and `SpawnsOnce`: all
  from one invariant, `Inv`. Its core is `OneWorker`: no second thread is ever
  spawned, because whatever resets the handle has ended persistence or the
  shutdown (`Disposals` says which disposal goes with which), and the one thread
  is what the handle refers to as long as it can be heard. From that follow the
  ownership of threads and the generation of events. `Flushes` says what a flush
  waits for, and that nothing but its own write is pending. `Numbered` says that
  the write with the flush's number is that of its batch wherever it is, in the
  inbox, under way or answered, and that an answered one is processed.
  `OnePlace` says that an observation is in one place only, which is what
  `WrittenOnce` needs. The proof first describes how a step may change one thread
  (`Mild`, `Sends`, `Follows`), then what every such change keeps, and then takes
  the actions one by one.
* **ConfigMutationProofs** (`ProcAssumption`). `CatalogStaysConsistent` and
  `LocksAreReleased`. The strengthening says that a document waiting to be
  written is consistent. Nothing is assumed of the lock: consistency rests on
  the validation alone. That locks are released takes only the stages of an
  operation and that the third process, whose lock is found, has crashed.
* **GatewayLifecycleProofs** (`LifecycleAssumption`). `ServedIsListening`,
  `ReportedIsApplied`, `ExitIsDrained`. Needed besides: until the boot is through
  there is neither server, handler nor shutdown (`BootComesFirst`); a closed
  server has no request and only then is there a finalizer (`ClosedIsDrained`);
  and a boot is not reported as a reload.
* **OptimizeMutationProofs** (`OptimizeAssumption`, `CommandAssumption`,
  `NoneAssumption`: the result of a record without one is none of the results).
  `CommandExecutedOnce` and `RecordedOutcomesAreFinal`: a process past `accept`
  has an open record for its key, every ledger row has a record, a process about
  to start has no row yet, a process's row is its own and still open, and a
  restore point is an event. `ChangedIsBacked` and `RestoresAreInverse` add
  `Trail`: what a process can rely on at each step (`Own`: its restore point is an
  apply of its own run whose event left the route as the process found it, no
  event has its command before it records one, its snapshot is stored), that an event has the snapshot and the row of its attempt,
  and that a record that says "changed" has a succeeded row with an event.
  `RestoresAreInverse` speaks of the event of a restore and, by `RestoreWrites`, of
  the write itself, also of one whose attempt then fails: nothing is assumed of
  what is read again after a write.
* **RequestPathProofs**, the requests (`RequestPathAssumption`). `SlotsExact`,
  `BodiesReleased`, `CleanEnds`, `EndpointPolicy`, for any number of requests. The
  invariant adds
  that a request at work has a message and a configuration, and `Sound`: how far
  a request and its response have come, one clause for each fact a later step
  relies on (an aborted pipe has let go of its upstream, a response that was
  ended carries the whole body or timed out). A counter is the size of a set of
  holders; each way out of the handler takes one holder off.
* **RequestPathProofs**, the tables that outlive the requests
  (`RequestPathAssumption`, `AuthLimiterAssumption`,
  `InspectionStoreAssumption`). `GrantsBounded`, `GuessesBounded`,
  `LockoutsLast`, `BindingsLeave`. The two budgets are bounds over any window's
  length for limiters that count in fixed windows. The invariant relates an
  entry to the log of its caller (`RateTracked`, `AuthTracked`): in the current
  window the count is the sum of the log, and before it no window's worth of the
  log exceeds the budget (`Paced`). `RequestPathAssumption` says that the
  configurations are ones the limiter's constructor accepts, that their windows
  are within `MaxWindow` (the length of the log) and that `ttl` is 0, since
  `createGatewayRuntimeRateLimiter` passes no `entryTtlMs`. `BindingsLeave` says
  that a stored capture leaves with its binding, and that one that is not stored
  is bound only by its own request at the end of its body: every operation of
  the store but the binding only takes bindings away (`StoreStep`). `GuessBudget` and
  its theorem have the premise `Threshold >= 2`: at a threshold of 1 every
  failure locks out at once.
* **ControlPlaneProofs** (`TraceStoreAssumption`, `BatchAssumption`,
  `BenchAssumption`, `OptimizationAssumption`, `McpAssumption`: the bounds are
  naturals, batches and workers at least one, and the requests a benchmark sends
  through the gateway are among the gateway's requests). `ControlPlaneTyped`,
  `SettledIsFinal`, `RepairIsComplete`, `SummariesFounded`, `WinnerUnbeaten`,
  for any number of requests, tasks, workers, routes and prices, in three
  layers. `PhaseInv` says that tasks and the run's status keep step with the
  phase of the benchmark: whatever drains or reports has no task that could
  still record or sample, but for those a drain timeout left behind, which find
  the handle closed. `RepairInv` says what a repair has behind it and what it is
  about to write: everything up to its cursor is right for requests nobody
  touched, and its plan is right altogether unless another connection committed,
  in which case its transaction fails. `SummariesAreFounded` is inductive
  together with the types and `RepairInv`. `WinnerInv` follows a number from
  where it is measured to the ranking: the rows of a benchmark's requests are no
  older than its run (`BenchDates`), so that the retention prune takes the run
  away before it takes the rows under a sample; a task keeps the sample that was
  stored (`SamplesKept`); and the report is the ranking of just those
  (`OptimizationHolds`). First come lemmas about the operators: what a fold over
  rows gives when a row is appended or pruned, that a ranking is ordered, and
  that twice the median of any latencies is the sum of two of them
  (`MedianOfTwo`, `StatsOfTwo`).

Proofs corrected the model once. `BenchDates` could not be proved because the
gateway's writer was free to record an observation of a benchmark's request that
was dated before the run had begun, as no gateway does; TLC then found
`WinnerIsNotBeaten` violated. The step now asks for the date.

Only model-checked:

* liveness (`ShutdownEnds` twice, `EventuallyFlushed`, `RequestEnds`,
  `ServerEnds`), which this prover does not do;
* the boundaries (run `ipc`), whose shapes are RECURSIVE. What schemas and
  validators admit is a finite table, which the run covers in full.

## Not modelled, and assumptions

* Protocol translation, rendering and the loading of configuration files are
  sequential mappings of one JSON vocabulary to another; a model of them would be
  the same table again. Only how a translated stream ends is modelled.
* Retries of an upstream request are one outcome (`FetchFails`, `FetchResponds`);
  which address counts as private is an input.
* SQL text, migrations and the filters and pages of list queries are left out.
  SQLite statements and transactions are atomic; a deferred transaction that
  writes after another connection committed fails.
* Deleting optimization history, snapshots and ledger rows is not modelled:
  `OptimizeMutation` keeps the ledger, `TraceStore` the traces, and no behaviour
  of either needs the other's rows.
* Rows of a request are stored in the order observed; synthetic rows of a
  benchmark, which the code dates one and two milliseconds after their start,
  are dated at the same tick. Costs are exact where the code adds up
  floating-point numbers, so two prices that differ in the last bit only tie
  here.
* Of the MCP tools, those of configuration and gateway are modelled up to their
  parser; what they then call is in `ConfigMutation` and `GatewayLifecycle`.
* A rename replaces a file at once; the unlink of a lock that exists succeeds.
* A writer thread that exits does so with a code other than 0.
* Backups of configuration files, log lines and the wording of errors are left
  out. `linkAction` and `markUnknown`, which no caller uses, are left out too.

## Plan

1. Observation queue, pipeline: done; the queue's refinement and all safety of
   both proved.
2. Configuration mutation: done; safety proved.
3. Gateway lifecycle: done; safety proved.
4. Optimize mutation: done; safety proved.
5. Request path with limiters, slots, captures, endpoint cache and delivery: done;
   safety proved.
6. IPC contract and MCP tool contract: done, model-checked.
7. Trace store, repair, benchmarks, optimization reports and the MCP server on
   one store: done; safety proved.
