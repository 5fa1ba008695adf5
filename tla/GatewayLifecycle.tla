--------------------------- MODULE GatewayLifecycle ---------------------------
(***************************************************************************)
(* The gateway process from its start to its exit: runGatewayRun builds    *)
(* the runtime snapshot, runGatewayServerLifecycle serves it, SIGHUP       *)
(* replaces it, SIGINT, SIGTERM and fatal errors shut the process down.    *)
(*                                                                         *)
(* Boot and reload run synchronously, but each reads the configuration     *)
(* files three times without the lock their writers take: the steps here   *)
(* are those reads, and only writers of the files step in between.  Of a   *)
(* configuration only what the lifecycle acts on is kept; the host part of *)
(* the address is treated like the port.                                   *)
(***************************************************************************)
EXTENDS Naturals

CONSTANTS
    Port,         \* the ports a configuration may name
    Connections,  \* the connection limits it may set
    NoPort,       \* no --port on the command line
    Invalid       \* files that loadConfig or loadCliReadModel refuse

ASSUME LifecycleAssumption ==
    /\ NoPort \notin Port
    /\ Connections \subseteq Nat \ {0}

VARIABLES
    disk,      \* the configuration files, as loadConfig finds them
    override,  \* --port of "gateway run"
    load,      \* the boot or the reload under way: its next step, what it has read
    runtime,   \* activeRuntime
    server,    \* the HTTP server: its state, address, limit and requests in progress
    retention, \* retention pruning: what configure() was told, whether the timer runs
    shutdown,  \* shutdownStarted, the forced-exit timer, finalizeShutdown, the exit code
    handlers,  \* whether the process's signal handlers are registered
    exited     \* how the process ended

vars == <<disk, override, load, runtime, server, retention, shutdown, handlers, exited>>

Config   == [port : Port, maxConnections : Connections, retention : BOOLEAN]
Document == Config \cup {Invalid}

\* The read model that goes with config only feeds the runtime-config endpoint.
Runtime  == [config : Config, reload : {"never_attempted", "ok", "failed"},
             fatal : BOOLEAN]

Loading  == {"boot", "reload"}
\* before: the configuration that was active when the load began.
LoadStep == {"loadConfig", "loadReadModel", "sideEffects"}
Load     == [kind : Loading, step : LoadStep, config : Config, before : Config]
NotLoading == [kind |-> "none"]

ExitCode == {"exit0", "exit1"}
Running  == "running"
Killed   == "killed"   \* by a signal or an error that no handler takes

\* The command line goes before the files.
applyGatewayRunOverrides(c) == IF override = NoPort THEN c ELSE [c EXCEPT !.port = override]

Init ==
    /\ disk \in Config
    /\ override \in Port \cup {NoPort}
    /\ load = [kind |-> "boot", step |-> "loadConfig", config |-> disk, before |-> disk]
    /\ runtime = [config |-> disk, reload |-> "never_attempted", fatal |-> FALSE]
    /\ server = [state |-> "none", port |-> disk.port, maxConnections |-> disk.maxConnections,
                 requests |-> 0]
    /\ retention = [configured |-> FALSE, timer |-> FALSE]
    /\ shutdown = [started |-> FALSE, forcedTimer |-> FALSE, finalize |-> "no", code |-> "exit0"]
    /\ handlers = FALSE
    /\ exited = Running

\* The event loop is free: nothing synchronous is under way.
Idle == exited = Running /\ load = NotLoading

-----------------------------------------------------------------------------
(***************************************************************************)
(* Boot and reload                                                         *)
(***************************************************************************)

\* A CLI command, the MCP server or an editor replaces the files.
FilesChange(d) ==
    /\ exited = Running /\ d # disk
    /\ disk' = d
    /\ UNCHANGED <<override, load, runtime, server, retention, shutdown, handlers, exited>>

\* What a throw does: it ends "gateway run", or handleSighup catches it and marks
\* the runtime that is active by then.
markGatewayRuntimeReloadFailure(current) == [current EXCEPT !.reload = "failed"]

LoadThrows ==
    /\ load' = NotLoading
    /\ IF load.kind = "boot"
       THEN exited' = "exit1" /\ UNCHANGED runtime
       ELSE runtime' = markGatewayRuntimeReloadFailure(runtime) /\ UNCHANGED exited
    /\ UNCHANGED <<server, handlers>>

\* loadConfig and assertGatewayBindPolicy: the first read of the files.
LoadConfig ==
    /\ exited = Running /\ load # NotLoading /\ load.step = "loadConfig"
    /\ \/ /\ disk # Invalid
          /\ load' = [load EXCEPT !.step = "loadReadModel", !.config = applyGatewayRunOverrides(disk)]
          /\ UNCHANGED <<runtime, server, retention, handlers, exited>>
       \/ disk = Invalid /\ LoadThrows /\ UNCHANGED retention
    /\ UNCHANGED <<disk, override, shutdown>>

\* loadCliReadModel, the second read, and the new snapshot, which a reload
\* refuses when it moves the address.
buildInitialGatewayRuntimeSnapshot(config) ==
    [config |-> config, reload |-> "never_attempted", fatal |-> FALSE]

buildReloadedGatewayRuntimeSnapshot(current, config) ==
    [config |-> config, reload |-> "ok", fatal |-> current.fatal]

\* Mutant: a reload may move the address.
AnyAddress(current, config) == TRUE

ReloadKeepsAddress(current, config) == config.port = current.config.port

BuildRuntime ==
    /\ exited = Running /\ load # NotLoading /\ load.step = "loadReadModel"
    /\ LET builds == disk # Invalid /\ (load.kind = "boot" \/ ReloadKeepsAddress(runtime, load.config))
       IN  \/ /\ builds
              /\ runtime' = IF load.kind = "boot"
                            THEN buildInitialGatewayRuntimeSnapshot(load.config)
                            ELSE buildReloadedGatewayRuntimeSnapshot(runtime, load.config)
              /\ load' = [load EXCEPT !.step = "sideEffects"]
              /\ UNCHANGED <<server, retention, handlers, exited>>
           \/ ~builds /\ LoadThrows /\ UNCHANGED retention
    /\ UNCHANGED <<disk, override, shutdown>>

\* Mutant: a configuration without retention leaves the old timer running.
RetentionNeverStops(config) ==
    [configured |-> config.retention, timer |-> retention.timer \/ config.retention]

\* The retention timer follows the active configuration.
syncRetentionPruneSchedule(config) == [configured |-> config.retention, timer |-> config.retention]

\* syncActiveRuntimeSideEffects: configure() is told the retention, then the files
\* are read a third time for the warnings.  Past that the timer and the connection
\* limit are set; a boot goes on to register the handlers and to listen.
SyncActiveRuntimeSideEffects ==
    /\ exited = Running /\ load # NotLoading /\ load.step = "sideEffects"
    /\ \/ /\ disk # Invalid
          /\ load' = NotLoading
          /\ retention' = syncRetentionPruneSchedule(runtime.config)
          /\ server' = IF load.kind = "boot"
                       THEN [state |-> "opening", port |-> runtime.config.port,
                             maxConnections |-> runtime.config.maxConnections, requests |-> 0]
                       ELSE [server EXCEPT !.maxConnections = runtime.config.maxConnections]
          /\ handlers' = (load.kind = "boot" \/ handlers)
          /\ UNCHANGED <<runtime, exited>>
       \/ /\ disk = Invalid
          /\ retention' = [retention EXCEPT !.configured = runtime.config.retention]
          /\ LoadThrows
    /\ UNCHANGED <<disk, override, shutdown>>

\* SIGHUP
handleSighup ==
    /\ Idle /\ handlers
    /\ load' = [kind |-> "reload", step |-> "loadConfig", config |-> runtime.config,
              before |-> runtime.config]
    /\ UNCHANGED <<disk, override, runtime, server, retention, shutdown, handlers, exited>>

-----------------------------------------------------------------------------
(***************************************************************************)
(* The server.  Node's http server accepts a connection while it has fewer *)
(* than maxConnections, calls close's callback once no request is left and *)
(* accepts nothing after close.                                            *)
(***************************************************************************)
Listening ==
    /\ Idle /\ server.state = "opening"
    /\ server' = [server EXCEPT !.state = "listening"]
    /\ UNCHANGED <<disk, override, load, runtime, retention, shutdown, handlers, exited>>

\* server.on("error"), the port being taken
ListenFails ==
    /\ Idle /\ server.state = "opening"
    /\ exited' = "exit1"
    /\ UNCHANGED <<disk, override, load, runtime, server, retention, shutdown, handlers>>

RequestStarts ==
    /\ Idle /\ server.state = "listening" /\ server.requests < server.maxConnections
    /\ server' = [server EXCEPT !.requests = @ + 1]
    /\ UNCHANGED <<disk, override, load, runtime, retention, shutdown, handlers, exited>>

\* An error of the handler is answered or destroys the response: it ends here too.
RequestEnds ==
    /\ Idle /\ server.requests > 0
    /\ server' = [server EXCEPT !.requests = @ - 1]
    /\ UNCHANGED <<disk, override, load, runtime, retention, shutdown, handlers, exited>>

-----------------------------------------------------------------------------
(***************************************************************************)
(* Shutdown: beginGatewayGracefulShutdown and finalizeShutdown             *)
(***************************************************************************)

\* Later calls find shutdownStarted and change nothing: the first exit code stays.
beginGatewayGracefulShutdown(code) ==
    IF shutdown.started
    THEN UNCHANGED <<shutdown, retention, server>>
    ELSE /\ shutdown' = [shutdown EXCEPT !.started = TRUE, !.forcedTimer = TRUE, !.code = code]
         /\ retention' = [retention EXCEPT !.timer = FALSE]
         /\ server' = [server EXCEPT !.state = "closing"]

\* SIGINT and SIGTERM.
TriggerGracefulShutdown ==
    /\ Idle /\ handlers /\ ~shutdown.started
    /\ beginGatewayGracefulShutdown("exit0")
    /\ UNCHANGED <<disk, override, load, runtime, handlers, exited>>

markGatewayRuntimeFatalError(current) == [current EXCEPT !.fatal = TRUE]

\* An uncaught exception or an unhandled rejection.
handleFatalRuntimeError ==
    /\ Idle /\ handlers
    /\ runtime' = markGatewayRuntimeFatalError(runtime)
    /\ beginGatewayGracefulShutdown("exit1")
    /\ UNCHANGED <<disk, override, load, handlers, exited>>

\* Mutant: the timer is cleared when the server has closed.
CloseDisarmsTimer ==
    /\ Idle /\ server.state = "closing" /\ server.requests = 0
    /\ server' = [server EXCEPT !.state = "closed"]
    /\ handlers' = FALSE
    /\ shutdown' = [shutdown EXCEPT !.finalize = "running", !.forcedTimer = FALSE]
    /\ UNCHANGED <<disk, override, load, runtime, retention, exited>>

\* close's callback: the handlers go first, then the observability module shuts down.
ServerClosed ==
    /\ Idle /\ server.state = "closing" /\ server.requests = 0
    /\ server' = [server EXCEPT !.state = "closed"]
    /\ handlers' = FALSE
    /\ shutdown' = [shutdown EXCEPT !.finalize = "running"]
    /\ UNCHANGED <<disk, override, load, runtime, retention, exited>>

\* The finalizer returned or threw: the timer is cleared and the process exits.
Finalized ==
    /\ Idle /\ shutdown.finalize = "running"
    /\ shutdown' = [shutdown EXCEPT !.finalize = "settled", !.forcedTimer = FALSE]
    /\ exited' = shutdown.code
    /\ UNCHANGED <<disk, override, load, runtime, server, retention, handlers>>

\* Mutant: a forced exit keeps the exit code of the shutdown.
ForcedExitKeepsCode ==
    /\ Idle /\ shutdown.forcedTimer
    /\ exited' = shutdown.code
    /\ UNCHANGED <<disk, override, load, runtime, server, retention, shutdown, handlers>>

ForcedExit ==
    /\ Idle /\ shutdown.forcedTimer
    /\ exited' = "exit1"
    /\ UNCHANGED <<disk, override, load, runtime, server, retention, shutdown, handlers>>

\* A signal before the handlers are registered, a signal or a rejection once the
\* finalizer has removed them.
DiesUnhandled ==
    /\ exited = Running /\ ~handlers
    /\ exited' = Killed
    /\ UNCHANGED <<disk, override, load, runtime, server, retention, shutdown, handlers>>

\* The process is gone.
Stopped == exited # Running /\ UNCHANGED vars

Next ==
    \/ \E d \in Document : FilesChange(d)
    \/ LoadConfig \/ BuildRuntime \/ SyncActiveRuntimeSideEffects \/ handleSighup
    \/ Listening \/ ListenFails \/ RequestStarts \/ RequestEnds
    \/ TriggerGracefulShutdown \/ handleFatalRuntimeError
    \/ ServerClosed \/ Finalized \/ ForcedExit \/ DiesUnhandled
    \/ Stopped

\* A boot or a reload runs to its end, and a timer that is armed fires.  Nothing
\* says that a request ends, or that the observability shutdown does.
Fairness ==
    /\ WF_vars(LoadConfig) /\ WF_vars(BuildRuntime) /\ WF_vars(SyncActiveRuntimeSideEffects)
    /\ SF_vars(ForcedExit)

Spec == Init /\ [][Next]_vars /\ Fairness

-----------------------------------------------------------------------------
\* Whatever the files say at whichever of its reads, and through any number of
\* reloads, the active configuration names the address the server was opened on.
ServesListeningAddress ==
    server.state # "none" => runtime.config.port = server.port

\* A reload reported as "ok" is in force everywhere: the connection limit, the
\* retention the observability module prunes by and, until shutdown, its timer.
ReportedReloadIsApplied ==
    (load = NotLoading /\ exited = Running /\ runtime.reload = "ok") =>
        /\ server.maxConnections = runtime.config.maxConnections
        /\ retention.configured = runtime.config.retention
        /\ ~shutdown.started => retention.timer = runtime.config.retention

\* Exit code 0 is given only when every request was answered and the
\* observability shutdown had settled: no forced or failed end looks like success.
CleanExitIsDrained ==
    exited = "exit0" => server.state = "closed" /\ server.requests = 0 /\ shutdown.finalize = "settled"

\* Once begun, a shutdown ends the process, whatever hangs: a request, or the
\* observability shutdown.
ShutdownEnds == shutdown.started ~> exited # Running

\* What the technical specification says of a reload that fails: the snapshot
\* that was being served before it is still served.
FailedReloadKeepsSnapshot ==
    [][ (load.kind = "reload" /\ load' = NotLoading /\ runtime'.reload = "failed")
        => runtime'.config = load.before ]_vars
===============================================================================
