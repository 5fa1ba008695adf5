------------------------- MODULE ObservationPipeline -------------------------
(***************************************************************************)
(* How the gateway gets observations from its request path into SQLite:    *)
(* the bounded queue (ObservationBuffer), the flush state, the worker      *)
(* thread handle with its generations and pending writes, the writer       *)
(* runtime inside the worker thread, the "continue without persistence"    *)
(* switch, and the shutdown that drains all of it.                         *)
(*                                                                         *)
(* The main thread is one event loop.  An action is one task of it         *)
(* together with the promise continuations it settles: no other task runs  *)
(* before those.  The two continuations that are actions of their own,     *)
(* ShutdownDrainLoop and FinishShutdown, hold back every task meanwhile    *)
(* (Quiet).  The writer thread runs concurrently; the two exchange         *)
(* messages through an inbox and an outbox, which also carries the         *)
(* "error" and "exit" events of the thread.                                *)
(***************************************************************************)
EXTENDS Integers, Sequences, FiniteSets

CONSTANTS
    BatchSize, MaxQueueSize, MaxQueueBytes,  \* the configured limits
    Priorities,   \* the priorities the recorded observations have
    MaxArrivals,  \* bound: how many observations are recorded
    MaxWorkers    \* bound: how many worker threads are ever spawned

ASSUME PipelineAssumption == MaxWorkers \in Nat /\ Priorities \subseteq 0 .. 3

VARIABLES
    queue, queueBytes, dropCount, arrivals,  \* the queue, as in ObservationBuffer
    flushTimer,   \* pendingGatewayObservationFlushTimer is armed
    drainHandle,  \* pendingGatewayObservationDrainHandle is armed
    flush,        \* the flush in progress: where it waits, and its batch
    failed,       \* bootstrapFailed: the gateway continues without persistence
    worker,       \* gatewayObservationWorker: the thread it refers to, or None
    generation,   \* gatewayObservationWorkerGeneration
    ready,        \* gatewayObservationWorkerReadyPromise
    close,        \* gatewayObservationWorkerClosePromise
    closing,      \* gatewayObservationWorkerShutdownInProgress
    sequence,     \* gatewayObservationWorkerSequence
    pending,      \* the keys of pendingGatewayObservationWorkerWrites
    thread,       \* the worker threads ever spawned, and the runtime in each
    dispose,      \* the disposeGatewayObservationWorker calls under way
    phase,        \* where shutdownGatewayObservability is
    rows,         \* the database: which write stored which observation
    skipped,      \* observations the writer gave up on, with a warning
    acked         \* observations whose flush was told they were written

queueVars   == <<queue, queueBytes, dropCount, arrivals>>
timerVars   == <<flushTimer, drainHandle>>
workerVars  == <<worker, generation, ready, close, closing, sequence, pending>>
storeVars   == <<rows, skipped>>
vars == <<queueVars, timerVars, flush, failed, workerVars, thread, dispose,
          phase, storeVars, acked>>

Buffer == INSTANCE ObservationBuffer
              WITH ObservedAt <- {0}, SizeBytes <- {1}, MaxDropCount <- MaxArrivals

None     == 0
Workers  == 1..MaxWorkers
Disposer == {"shutdown", "error"}
NoFlush  == [pc |-> "none", batch |-> {}, seq |-> 0]
NoThread == [state |-> "none", gen |-> 0, listening |-> FALSE, inbox |-> <<>>, outbox |-> <<>>,
             storeOpen |-> FALSE, closeRequested |-> FALSE, inFlight |-> {}]
NotDisposing == [pc |-> "none", target |-> None]

Msg(type) == [type |-> type, seq |-> 0, batch |-> {}]

Init ==
    /\ Buffer!Init
    /\ flushTimer = FALSE /\ drainHandle = FALSE
    /\ flush = NoFlush
    /\ failed \in BOOLEAN     \* openObservabilityService may have failed at startup
    /\ worker = None /\ generation = 0
    /\ ready = "none" /\ close = "none" /\ closing = FALSE
    /\ sequence = 0 /\ pending = {}
    /\ thread = [w \in Workers |-> NoThread]
    /\ dispose = [c \in Disposer |-> NotDisposing]
    /\ phase = "running"
    /\ rows = {} /\ skipped = {} /\ acked = {}

\* No promise continuation of the shutdown is due, and the process lives.
Quiet == phase \notin {"loop", "exited"} /\ dispose["shutdown"].pc # "done"

-----------------------------------------------------------------------------
(***************************************************************************)
(* gateway-observation-flush.ts                                            *)
(***************************************************************************)

\* Mutant: only a full batch arms anything.
ScheduleFullBatches(mode) ==
    IF mode = "immediate"
    THEN flushTimer' = FALSE /\ drainHandle' = TRUE
    ELSE UNCHANGED timerVars

\* scheduleGatewayObservationFlush, when no flush is in progress.
Schedule(mode) ==
    IF mode = "immediate"
    THEN flushTimer' = FALSE /\ drainHandle' = TRUE
    ELSE flushTimer' = (flushTimer \/ ~drainHandle) /\ UNCHANGED drainHandle

\* The flush in progress ends, its write acknowledged or failed; a queue that
\* filled up meanwhile is flushed next.  The shutdown that waits for it goes on.
FlushEnds(ok) ==
    /\ flush' = NoFlush
    /\ dropCount' = IF ok THEN 0 ELSE dropCount
    /\ acked' = IF ok THEN acked \cup flush.batch ELSE acked
    /\ IF queue # {} THEN Schedule("immediate") ELSE UNCHANGED timerVars
    /\ phase' = IF phase = "awaitFlush" THEN "loop" ELSE phase
    /\ UNCHANGED <<queue, queueBytes, arrivals>>

FlushGoesOn == UNCHANGED <<flush, queueVars, acked, timerVars, phase>>

Post(w, msg) == [thread EXCEPT ![w].inbox = Append(@, msg)]

\* flushGatewayObservationQueueNow with a service and a queue that is not
\* empty, down to the await of writeGatewayObservationBatch or of
\* ensureGatewayObservationWorker inside it.
StartFlush ==
    LET batch == Buffer!Batch(queue, BatchSize)
        rest  == queue \ batch
    IN  /\ queue' = rest
        /\ queueBytes' = queueBytes - Buffer!Bytes(batch)
        /\ dropCount' = 0
        /\ flushTimer' = FALSE
        /\ UNCHANGED <<arrivals, close, closing, acked, storeVars, dispose>>
        /\ \/ \* ensureGatewayObservationWorker spawns the worker thread
              /\ worker = None
              /\ \E w \in Workers :
                     /\ thread[w].state = "none"
                     /\ \A v \in Workers : v < w => thread[v].state # "none"
                     /\ worker' = w
                     /\ thread' = [thread EXCEPT ![w] =
                            [NoThread EXCEPT !.state = "alive", !.gen = generation + 2,
                                             !.listening = TRUE, !.inbox = <<Msg("init")>>]]
              /\ generation' = generation + 2
              /\ ready' = "pending"
              /\ sequence' = 0 /\ pending' = {}
              /\ flush' = [pc |-> "awaitReady", batch |-> batch, seq |-> 0]
              /\ drainHandle' = FALSE
              /\ UNCHANGED failed
           \/ \* the worker is still starting (the flush that spawned it waits for it,
              \* so no other one meets this)
              /\ worker # None /\ ready = "pending"
              /\ flush' = [pc |-> "awaitReady", batch |-> batch, seq |-> 0]
              /\ drainHandle' = FALSE
              /\ UNCHANGED <<workerVars, thread, failed>>
           \/ \* the batch goes to the worker
              /\ worker # None /\ ready = "ok" /\ ~closing
              /\ flush' = [pc |-> "awaitWrite", batch |-> batch, seq |-> sequence]
              /\ pending' = pending \cup {sequence}
              /\ sequence' = sequence + 1
              /\ thread' = Post(worker, [type |-> "write_batch", seq |-> sequence, batch |-> batch])
              /\ drainHandle' = FALSE
              /\ UNCHANGED <<worker, generation, ready, failed>>
           \/ \* the worker never started, or is shutting down: the flush fails
              /\ worker # None /\ ready # "pending" /\ (ready = "err" \/ closing)
              /\ failed' = TRUE
              /\ drainHandle' = (rest # {})
              /\ UNCHANGED <<workerVars, thread, flush>>

\* Mutant: a flush that does not look for the service.
CanFlushWithoutService == flush.pc = "none" /\ queue # {}

\* gatewayObservationFlushPromise is null and the body does not return early.
CanFlush == flush.pc = "none" /\ ~failed /\ queue # {}

FlushTimerFires ==
    /\ Quiet /\ flushTimer
    /\ IF CanFlush
       THEN StartFlush /\ UNCHANGED phase
       ELSE flushTimer' = FALSE
            /\ UNCHANGED <<queueVars, drainHandle, flush, failed, workerVars, thread,
                           dispose, phase, storeVars, acked>>

DrainHandleFires ==
    /\ Quiet /\ drainHandle
    /\ IF CanFlush
       THEN StartFlush /\ UNCHANGED phase
       ELSE drainHandle' = FALSE
            /\ UNCHANGED <<queueVars, flushTimer, flush, failed, workerVars, thread,
                           dispose, phase, storeVars, acked>>

-----------------------------------------------------------------------------
(***************************************************************************)
(* gateway.ts: recordGatewayObservation                                    *)
(***************************************************************************)
recordGatewayObservation(priority) ==
    /\ Quiet /\ ~failed
    /\ Buffer!enqueueGatewayObservation(priority, 0, 1)
    /\ IF flush.pc # "none"
       THEN UNCHANGED timerVars
       ELSE Schedule(IF Cardinality(queue') >= BatchSize THEN "immediate" ELSE "delayed")
    /\ UNCHANGED <<flush, failed, workerVars, thread, dispose, phase, storeVars, acked>>

-----------------------------------------------------------------------------
(***************************************************************************)
(* gateway-observation-worker.ts                                           *)
(***************************************************************************)

\* The head of the outbox of w is handled and leaves it.
Taken(w) == [thread EXCEPT ![w].outbox = Tail(@)]

\* The next event of thread w for a listener that is still attached.  The
\* listeners also ignore an event of an old generation; there is never one
\* (EventsAreCurrent), so the step that would ignore it is left out.
Event(w, type) ==
    /\ Quiet
    /\ thread[w].listening /\ thread[w].outbox # <<>>
    /\ Head(thread[w].outbox).type = type
    /\ thread[w].gen = generation

\* Those who await the close promise go on once it settles: its creator to
\* terminate the thread, whose listeners it removes first.
AfterClose(d) ==
    [c \in Disposer |-> CASE d[c].pc = "awaitClose" -> [d[c] EXCEPT !.pc = "terminating"]
                          [] d[c].pc = "awaitOther" -> [d[c] EXCEPT !.pc = "done"]
                          [] OTHER -> d[c]]

\* Mutant: the listeners stay attached.
KeepListening(t, d) == t

Unlistened(t, d) ==
    [w \in Workers |-> IF \E c \in Disposer : d[c].pc = "terminating" /\ d[c].target = w
                       THEN [t[w] EXCEPT !.listening = FALSE]
                       ELSE t[w]]

HandleReady(w) ==
    /\ Event(w, "ready")
    /\ ready' = "ok"
    /\ IF flush.pc = "awaitReady" /\ ready = "pending"
       THEN IF closing
            THEN \* writeGatewayObservationBatch throws
                 /\ FlushEnds(FALSE) /\ failed' = TRUE
                 /\ thread' = Taken(w)
                 /\ UNCHANGED <<sequence, pending>>
            ELSE /\ flush' = [flush EXCEPT !.pc = "awaitWrite", !.seq = sequence]
                 /\ pending' = pending \cup {sequence}
                 /\ sequence' = sequence + 1
                 /\ thread' = [Taken(w) EXCEPT ![w].inbox =
                        Append(@, [type |-> "write_batch", seq |-> sequence, batch |-> flush.batch])]
                 /\ UNCHANGED <<queueVars, timerVars, failed, phase, acked>>
       ELSE /\ thread' = Taken(w)
            /\ FlushGoesOn
            /\ UNCHANGED <<failed, sequence, pending>>
    /\ UNCHANGED <<worker, generation, close, closing, dispose, storeVars>>

HandleBatchWritten(w) ==
    LET seq == Head(thread[w].outbox).seq
    IN  /\ Event(w, "batch_written")
        /\ thread' = Taken(w)
        /\ pending' = pending \ {seq}
        /\ IF seq \in pending THEN FlushEnds(TRUE) ELSE FlushGoesOn
        /\ UNCHANGED <<failed, worker, generation, ready, close, closing, sequence, dispose,
                       storeVars>>

HandleClosed(w) ==
    /\ Event(w, "closed")
    /\ close' = IF close = "pending" THEN "settled" ELSE close
    /\ dispose' = IF close = "pending" THEN AfterClose(dispose) ELSE dispose
    /\ thread' = Unlistened(Taken(w), dispose')
    /\ FlushGoesOn
    /\ UNCHANGED <<failed, worker, generation, ready, closing, sequence, pending, storeVars>>

\* "fatal", "error" and "exit" all reject the ready promise, the close promise
\* and every pending write, when there is one to reject.
FlushIsRejected ==
    \/ flush.pc = "awaitReady" /\ ready = "pending"
    \/ flush.pc = "awaitWrite" /\ flush.seq \in pending

\* Mutant: the pending writes are forgotten, not rejected.
ForgetPendingWrites == pending' = {} /\ FlushGoesOn

RejectEverything ==
    /\ pending' = {}
    /\ IF FlushIsRejected THEN FlushEnds(FALSE) ELSE FlushGoesOn

HandleFatal(w) ==
    /\ Event(w, "fatal")
    /\ RejectEverything
    /\ failed' = (failed \/ FlushIsRejected)
    /\ ready' = IF ready = "pending" THEN "err" ELSE ready
    /\ close' = IF close = "pending" THEN "settled" ELSE close
    /\ dispose' = IF close = "pending" THEN AfterClose(dispose) ELSE dispose
    /\ thread' = Unlistened(Taken(w), dispose')
    /\ UNCHANGED <<worker, generation, closing, sequence, storeVars>>

\* onWorkerFailure, and a disposal nobody waits for.
HandleError(w) ==
    LET rejected == IF close = "pending" THEN AfterClose(dispose) ELSE dispose
    IN  /\ Event(w, "error")
        /\ RejectEverything
        /\ failed' = TRUE
        /\ ready' = IF ready = "pending" THEN "err" ELSE ready
        /\ IF closing /\ close # "none"
           THEN \* the disposal under way has been told; there is nothing to add
                /\ close' = "settled"
                /\ dispose' = rejected
                /\ thread' = Unlistened(Taken(w), dispose')
                /\ UNCHANGED closing
           ELSE /\ close' = "pending" /\ closing' = TRUE
                /\ dispose' = [rejected EXCEPT !["error"] = [pc |-> "awaitClose", target |-> w]]
                /\ thread' = [Taken(w) EXCEPT ![w].inbox = Append(@, Msg("close"))]
        /\ UNCHANGED <<worker, generation, sequence, storeVars>>

ResetWorkerState ==
    /\ worker' = None
    /\ ready' = "none" /\ close' = "none" /\ closing' = FALSE
    /\ sequence' = 0
    /\ generation' = generation + 1

\* The thread exited with a code other than 0.
HandleExit(w) ==
    /\ Event(w, "exit")
    /\ RejectEverything
    /\ failed' = TRUE
    /\ dispose' = IF close = "pending" THEN AfterClose(dispose) ELSE dispose
    /\ thread' = Unlistened(Taken(w), dispose')
    /\ ResetWorkerState
    /\ UNCHANGED storeVars

\* Mutant: a write that timed out is tried again.
WriteTimeoutRequeues ==
    /\ Quiet
    /\ flush.pc = "awaitWrite" /\ flush.seq \in pending
    /\ pending' = pending \ {flush.seq}
    /\ flush' = NoFlush
    /\ queue' = queue \cup flush.batch
    /\ queueBytes' = queueBytes + Buffer!Bytes(flush.batch)
    /\ Schedule("immediate")
    /\ phase' = IF phase = "awaitFlush" THEN "loop" ELSE phase
    /\ UNCHANGED <<dropCount, arrivals, acked, failed, worker, generation, ready, close,
                   closing, sequence, thread, dispose, storeVars>>

\* The timeout of a pending write comes before its acknowledgement.
WriteTimesOut ==
    /\ Quiet
    /\ flush.pc = "awaitWrite" /\ flush.seq \in pending
    /\ pending' = pending \ {flush.seq}
    /\ FlushEnds(FALSE) /\ failed' = TRUE
    /\ UNCHANGED <<worker, generation, ready, close, closing, sequence, thread, dispose,
                   storeVars>>

\* disposeGatewayObservationWorker, for the shutdown.
StartDispose ==
    IF worker = None
    THEN /\ ResetWorkerState
         /\ pending' = {}
         /\ dispose' = [dispose EXCEPT !["shutdown"] = [pc |-> "done", target |-> None]]
         /\ UNCHANGED thread
    ELSE IF closing /\ close # "none"
    THEN /\ dispose' = [dispose EXCEPT !["shutdown"] =
                [pc |-> IF close = "settled" THEN "done" ELSE "awaitOther", target |-> None]]
         /\ UNCHANGED <<workerVars, thread>>
    ELSE /\ closing' = TRUE /\ close' = "pending"
         /\ dispose' = [dispose EXCEPT !["shutdown"] = [pc |-> "awaitClose", target |-> worker]]
         /\ thread' = Post(worker, Msg("close"))
         /\ UNCHANGED <<worker, generation, ready, sequence, pending>>

\* Mutant: the close timeout waits for the writer to be idle.
CloseWaitsForWriter(c) ==
    /\ Quiet
    /\ dispose[c].pc = "awaitClose"
    /\ thread[dispose[c].target].inFlight = {}
    /\ dispose' = [dispose EXCEPT ![c].pc = "terminating"]
    /\ thread' = Unlistened(thread, dispose')
    /\ UNCHANGED <<queueVars, timerVars, flush, failed, workerVars, phase, storeVars, acked>>

CloseTimesOut(c) ==
    /\ Quiet
    /\ dispose[c].pc = "awaitClose"
    /\ dispose' = [dispose EXCEPT ![c].pc = "terminating"]
    /\ thread' = Unlistened(thread, dispose')
    /\ UNCHANGED <<queueVars, timerVars, flush, failed, workerVars, phase, storeVars, acked>>

\* The writer thread w stops where it is: of a batch it was writing, the
\* observations in Stored were already committed.
StopThread(t, w, Stored) ==
    /\ Stored \subseteq UNION {m.batch : m \in t[w].inFlight}
    /\ rows' = rows \cup {[obs |-> x.arrival, worker |-> w] : x \in Stored}
    /\ thread' = [t EXCEPT ![w].state = "dead", ![w].inbox = <<>>, ![w].inFlight = {},
                           ![w].storeOpen = FALSE]

\* terminate() is done: the handle is reset and pending writes are rejected.
Terminated(c) ==
    /\ Quiet
    /\ dispose[c].pc = "terminating"
    /\ \E Stored \in SUBSET UNION {m.batch : m \in thread[dispose[c].target].inFlight} :
           StopThread(thread, dispose[c].target, Stored)
    /\ ResetWorkerState
    /\ pending' = {}
    /\ IF flush.pc = "awaitWrite" /\ flush.seq \in pending
       THEN FlushEnds(FALSE) /\ failed' = TRUE
       ELSE FlushGoesOn /\ UNCHANGED failed
    /\ dispose' = [dispose EXCEPT ![c].pc = "done"]
    /\ UNCHANGED skipped

-----------------------------------------------------------------------------
(***************************************************************************)
(* gateway-writer-worker.ts, in the worker thread                          *)
(***************************************************************************)
Receives(w, type) ==
    /\ phase # "exited"
    /\ thread[w].state = "alive" /\ thread[w].inbox # <<>>
    /\ Head(thread[w].inbox).type = type

Writer(w, fields, replies) ==
    /\ thread' = [thread EXCEPT ![w] = [fields EXCEPT !.inbox = Tail(@), !.outbox = @ \o replies]]
    /\ UNCHANGED <<queueVars, timerVars, flush, failed, workerVars, dispose, phase,
                   storeVars, acked>>

WriterInit(w) ==
    /\ Receives(w, "init")
    /\ \/ Writer(w, [thread[w] EXCEPT !.storeOpen = TRUE], <<Msg("ready")>>)
       \/ Writer(w, thread[w], <<Msg("fatal")>>)   \* bootstrapObservabilityStore throws

\* Mutant: a batch is acknowledged when it arrives.
WriterAcksOnReceipt(w) ==
    LET msg == Head(thread[w].inbox)
    IN  /\ Receives(w, "write_batch")
        /\ Writer(w, [thread[w] EXCEPT !.inFlight = @ \cup {msg}],
                  <<[type |-> "batch_written", seq |-> msg.seq, batch |-> {}]>>)

\* A write after "close", or without a store, is answered "fatal".
WriterReceivesBatch(w) ==
    LET msg == Head(thread[w].inbox)
    IN  /\ Receives(w, "write_batch")
        /\ IF thread[w].closeRequested \/ ~thread[w].storeOpen
           THEN Writer(w, thread[w], <<Msg("fatal")>>)
           ELSE Writer(w, [thread[w] EXCEPT !.inFlight = @ \cup {msg}], <<>>)

\* closeWorkerStoreIfIdle, once closeRequested is set.
Closed(t) == [t EXCEPT !.storeOpen = FALSE, !.outbox = Append(@, Msg("closed"))]

\* writeBatch returns: the transaction committed, or every observation was
\* tried on its own and the ones in Stored could be written.  Other messages
\* are handled while it waits out SQLITE_BUSY.
WriterFinishesBatch(w) ==
    /\ phase # "exited" /\ thread[w].state = "alive"
    /\ \E msg \in thread[w].inFlight, Stored \in SUBSET UNION {m.batch : m \in thread[w].inFlight} :
           LET reply == [type |-> "batch_written", seq |-> msg.seq, batch |-> {}]
               after == [thread[w] EXCEPT !.inFlight = @ \ {msg}, !.outbox = Append(@, reply)]
           IN  /\ Stored \subseteq msg.batch
               /\ rows' = rows \cup {[obs |-> x.arrival, worker |-> w] : x \in Stored}
               /\ skipped' = skipped \cup (msg.batch \ Stored)
               /\ thread' = [thread EXCEPT ![w] =
                      IF after.closeRequested /\ after.inFlight = {} THEN Closed(after) ELSE after]
    /\ UNCHANGED <<queueVars, timerVars, flush, failed, workerVars, dispose, phase, acked>>

\* Mutant: the store is closed at once.
WriterClosesAtOnce(w) ==
    /\ Receives(w, "close")
    /\ Writer(w, Closed([thread[w] EXCEPT !.closeRequested = TRUE]), <<>>)

WriterReceivesClose(w) ==
    LET after == [thread[w] EXCEPT !.closeRequested = TRUE]
    IN  /\ Receives(w, "close")
        /\ Writer(w, IF after.inFlight = {} THEN Closed(after) ELSE after, <<>>)

\* The thread dies: an uncaught error, or an exit without one.
WriterCrashes(w) ==
    /\ phase # "exited" /\ thread[w].state = "alive"
    /\ \E events \in {<<Msg("error"), Msg("exit")>>, <<Msg("exit")>>},
          Stored \in SUBSET UNION {m.batch : m \in thread[w].inFlight} :
           StopThread([thread EXCEPT ![w].outbox = @ \o events], w, Stored)
    /\ UNCHANGED <<queueVars, timerVars, flush, failed, workerVars, dispose, phase, skipped,
                   acked>>

-----------------------------------------------------------------------------
(***************************************************************************)
(* gateway.ts and gateway-observation-shutdown.ts                          *)
(***************************************************************************)
shutdownGatewayObservability ==
    /\ phase = "running"
    /\ flushTimer' = FALSE /\ drainHandle' = FALSE
    /\ IF queue = {} /\ flush.pc = "none"
       THEN phase' = "dispose" /\ StartDispose
       ELSE phase' = "loop" /\ UNCHANGED <<workerVars, thread, dispose>>
    /\ UNCHANGED <<queueVars, flush, failed, storeVars, acked>>

\* The drain ends: what is still queued is lost, the worker is disposed of.
DrainEnds ==
    /\ queue' = {} /\ queueBytes' = 0
    /\ phase' = "dispose"
    /\ StartDispose
    /\ UNCHANGED <<dropCount, arrivals, timerVars, flush, failed, storeVars, acked>>

\* One turn of the drain loop; at any turn the time may be up.
ShutdownDrainLoop ==
    /\ phase = "loop"
    /\ \/ DrainEnds
       \/ /\ ~failed
          /\ \/ /\ CanFlush
                /\ StartFlush
                /\ phase' = IF flush'.pc = "none" THEN "loop" ELSE "awaitFlush"
             \/ /\ flush.pc # "none"
                /\ phase' = "awaitFlush"
                /\ UNCHANGED <<queueVars, timerVars, flush, failed, workerVars, thread, dispose,
                               storeVars, acked>>

DrainTimesOut ==
    /\ phase = "awaitFlush"
    /\ DrainEnds

FinishShutdown ==
    /\ phase = "dispose" /\ dispose["shutdown"].pc = "done"
    /\ phase' = "exited"
    /\ queue' = {} /\ queueBytes' = 0
    /\ flush' = NoFlush
    /\ UNCHANGED <<dropCount, arrivals, timerVars, failed, workerVars, thread, dispose,
                   storeVars, acked>>

\* The gateway's forced-exit timer ends the process during a shutdown.
ForcedExit ==
    /\ phase \notin {"running", "exited"}
    /\ phase' = "exited"
    /\ UNCHANGED <<queueVars, timerVars, flush, failed, workerVars, thread, dispose,
                   storeVars, acked>>

Exited == phase = "exited" /\ UNCHANGED vars

-----------------------------------------------------------------------------
HandleEvent(w) ==
    \/ HandleReady(w) \/ HandleBatchWritten(w)
    \/ HandleClosed(w) \/ HandleFatal(w) \/ HandleError(w) \/ HandleExit(w)

WriterStep(w) ==
    WriterInit(w) \/ WriterReceivesBatch(w) \/ WriterFinishesBatch(w) \/ WriterReceivesClose(w)

Next ==
    \/ \E p \in Priorities : recordGatewayObservation(p)
    \/ FlushTimerFires
    \/ DrainHandleFires
    \/ \E w \in Workers : HandleEvent(w) \/ WriterStep(w) \/ WriterCrashes(w)
    \/ WriteTimesOut
    \/ \E c \in Disposer : CloseTimesOut(c) \/ Terminated(c)
    \/ shutdownGatewayObservability
    \/ ShutdownDrainLoop
    \/ DrainTimesOut
    \/ FinishShutdown
    \/ ForcedExit
    \/ Exited

\* The event loop runs every timer that stays armed and every event that stays
\* queued; it owes nothing to the writer thread, whose SQLite may hang, nor to
\* terminate(), which is awaited without a timeout and resolves only when the
\* thread is out of its native call (no fairness for Terminated).
EventLoopFairness ==
    /\ WF_vars(FlushTimerFires) /\ WF_vars(DrainHandleFires)
    /\ \A w \in Workers : WF_vars(HandleEvent(w))
    /\ WF_vars(WriteTimesOut)
    /\ \A c \in Disposer : WF_vars(CloseTimesOut(c))
    /\ WF_vars(ShutdownDrainLoop) /\ WF_vars(DrainTimesOut) /\ WF_vars(FinishShutdown)

Spec == Init /\ [][Next]_vars /\ EventLoopFairness

-----------------------------------------------------------------------------
(***************************************************************************)
(* A flush never waits for a promise that nothing can settle any more: its *)
(* pending write is in the map (so its timeout, its acknowledgement or a   *)
(* rejection will come), or its worker is still to report ready.           *)
(***************************************************************************)
NoStrandedFlush ==
    phase # "exited" =>
        /\ flush.pc = "awaitWrite" => flush.seq \in pending
        /\ flush.pc = "awaitReady" /\ dispose["shutdown"].pc # "done" => ready = "pending"

(***************************************************************************)
(* When a flush is told its batch was written, the writer really stored    *)
(* each observation of it, or warned that it could not.                    *)
(***************************************************************************)
AckMeansProcessed ==
    \A x \in acked : x \in skipped \/ \E r \in rows : r.obs = x.arrival

(***************************************************************************)
(* A worker thread that lives is the one the gateway refers to, or         *)
(* somebody is closing it: no late reset of a disposal lets go of a thread *)
(* that still holds the database open.                                     *)
(***************************************************************************)
NoOrphanWorker ==
    \A w \in Workers : thread[w].state = "alive" =>
        \/ worker = w
        \/ \E c \in Disposer : dispose[c].target = w /\ dispose[c].pc \in {"awaitClose", "terminating"}

(***************************************************************************)
(* Whatever a listener still hears comes from the worker of the current    *)
(* generation: a disposal takes its listeners off before its reset counts  *)
(* the generation up, so no late "ready", "batch_written" or "exit" of a   *)
(* thread that is gone touches the state of another.                       *)
(***************************************************************************)
EventsAreCurrent ==
    \A w \in Workers :
        thread[w].listening /\ thread[w].outbox # <<>> => thread[w].gen = generation

(***************************************************************************)
(* The writer closes its store only when no write is under way, although   *)
(* "close" is handled in the middle of a write that waits for SQLite.      *)
(***************************************************************************)
NoWriteToClosedStore ==
    \A w \in Workers : thread[w].inFlight # {} => thread[w].storeOpen

(***************************************************************************)
(* No observation is written twice: a batch the gateway gave up on is      *)
(* never sent again, although its write may still succeed.                 *)
(***************************************************************************)
WrittenAtMostOnce ==
    [][\A w \in Workers : \A m \in thread'[w].inFlight \ thread[w].inFlight :
           /\ \A x \in m.batch : x \notin skipped /\ ~ \E r \in rows : r.obs = x.arrival
           /\ \A v \in Workers : \A n \in thread[v].inFlight : n.batch \cap m.batch = {}]_vars

(***************************************************************************)
(* What is queued is flushed, even if the writer thread hangs: the queue   *)
(* empties unless persistence fails or the gateway shuts down.  The one    *)
(* wait without a timeout is the wait for a new worker to be ready.        *)
(***************************************************************************)
EventuallyFlushed ==
    queue # {} ~> (queue = {} \/ failed \/ phase # "running" \/ flush.pc = "awaitReady")

(***************************************************************************)
(* The shutdown ends by itself, or stays for good in one of the two waits  *)
(* that have no timeout: terminate(), of a thread that hangs in SQLite, or *)
(* a disposal that a worker error began.  A write, a drain or a close that *)
(* never answers does not stop it before that.                             *)
(***************************************************************************)
ShutdownEnds ==
    phase # "running" ~> (phase = "exited" \/ [](dispose["shutdown"].pc \in {"terminating", "awaitOther"}))

=============================================================================
