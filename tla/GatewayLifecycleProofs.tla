------------------------ MODULE GatewayLifecycleProofs ------------------------
(***************************************************************************)
(* The safety of GatewayLifecycle for all ports and connection limits, and *)
(* any number of reloads, requests and signals.                            *)
(*                                                                         *)
(* The three invariants are not inductive.  What they need is where the    *)
(* process is between boot and exit: the server is opened once, by the     *)
(* boot, before which there is neither a handler nor a shutdown; and a     *)
(* server that is closed has no request and stays closed.                  *)
(***************************************************************************)
EXTENDS GatewayLifecycle, TLAPS

\* The types of the variables.
TypeOK ==
    /\ disk \in Document
    /\ override \in Port \cup {NoPort}
    /\ load \in Load \cup {NotLoading}
    /\ runtime \in Runtime
    /\ server \in [state : {"none", "opening", "listening", "closing", "closed"},
                   port : Port, maxConnections : Connections, requests : Nat]
    /\ retention \in [configured : BOOLEAN, timer : BOOLEAN]
    /\ shutdown \in [started : BOOLEAN, forcedTimer : BOOLEAN,
                     finalize : {"no", "running", "settled"}, code : ExitCode]
    /\ handlers \in BOOLEAN
    /\ exited \in ExitCode \cup {Running, Killed}

\* Until the boot is through there is no server, and what needs one has not begun.
BootComesFirst ==
    /\ load.kind = "boot" => server.state = "none"
    /\ server.state = "none" =>
           ~handlers /\ ~shutdown.started /\ shutdown.finalize = "no"
    /\ server.state = "none" /\ exited = Running => load.kind = "boot"

\* Only a server that has no request left is closed, and only then is there
\* a finalizer.
ClosedIsDrained ==
    /\ server.state = "closed" => server.requests = 0
    /\ shutdown.finalize # "no" => server.state = "closed"
    /\ server.state \in {"closing", "closed"} => shutdown.started

\* A boot has never been reloaded.
BootIsNoReload == server.state = "none" => runtime.reload = "never_attempted"

Inv ==
    /\ TypeOK /\ BootComesFirst /\ ClosedIsDrained /\ BootIsNoReload
    /\ ServesListeningAddress /\ ReportedReloadIsApplied /\ CleanExitIsDrained

-----------------------------------------------------------------------------

(***************************************************************************)
(* Type correctness                                                        *)
(***************************************************************************)

\* The overrides of the command line make a configuration of a configuration.
LEMMA OverridesType ==
    ASSUME NEW c \in Config, override \in Port \cup {NoPort}
    PROVE  applyGatewayRunOverrides(c) \in Config
BY DEF applyGatewayRunOverrides, Config

\* A load that throws leaves well-typed state behind.
LEMMA LoadThrowsType ==
    ASSUME TypeOK, LoadThrows
    PROVE  /\ load' \in Load \cup {NotLoading} /\ runtime' \in Runtime
           /\ exited' \in ExitCode \cup {Running, Killed}
           /\ UNCHANGED <<server, handlers>>
<1>1. markGatewayRuntimeReloadFailure(runtime) \in Runtime
  BY DEF TypeOK, Runtime, markGatewayRuntimeReloadFailure
<1> QED
  BY <1>1 DEF TypeOK, LoadThrows, ExitCode

\* A load that goes on is a load.
LEMMA LoadGoesOn ==
    ASSUME TypeOK, load # NotLoading, NEW step \in LoadStep, NEW c \in Config
    PROVE  /\ load \in Load
           /\ [load EXCEPT !.step = step] \in Load
           /\ [load EXCEPT !.step = step, !.config = c] \in Load
<1>1. load \in Load
  BY DEF TypeOK
<1> QED
  BY <1>1 DEF Load

\* The state the process starts in is well-typed.
LEMMA InitType == Init => TypeOK
<1> SUFFICES ASSUME Init PROVE TypeOK
  OBVIOUS
<1>1. /\ disk \in Document /\ disk \in Config
      /\ override \in Port \cup {NoPort} /\ handlers \in BOOLEAN
      /\ exited \in ExitCode \cup {Running, Killed}
  BY DEF Init, Document
<1>2. load \in Load
  BY <1>1 DEF Init, Load, Loading, LoadStep
<1>3. runtime \in Runtime
  BY <1>1 DEF Init, Runtime
<1>4. disk.port \in Port /\ disk.maxConnections \in Connections
  BY <1>1 DEF Config
<1>5. server \in [state : {"none", "opening", "listening", "closing", "closed"},
                   port : Port, maxConnections : Connections, requests : Nat]
  BY <1>4 DEF Init
<1>6. /\ retention \in [configured : BOOLEAN, timer : BOOLEAN]
      /\ shutdown \in [started : BOOLEAN, forcedTimer : BOOLEAN,
                        finalize : {"no", "running", "settled"}, code : ExitCode]
  BY DEF Init, ExitCode
<1> QED
  BY <1>1, <1>2, <1>3, <1>5, <1>6 DEF TypeOK

\* Every step keeps the types.
LEMMA TypeStep == TypeOK /\ [Next]_vars => TypeOK'
<1> SUFFICES ASSUME TypeOK, [Next]_vars PROVE TypeOK'
  OBVIOUS
<1>1. ASSUME NEW d \in Document, FilesChange(d) PROVE TypeOK'
  BY <1>1 DEF TypeOK, FilesChange
<1>2. CASE LoadConfig
  <2>1. CASE disk # Invalid /\ ~LoadThrows
    <3>1. disk \in Config
      BY <2>1 DEF TypeOK, Document
    <3>2. applyGatewayRunOverrides(disk) \in Config
      BY <3>1, OverridesType DEF TypeOK
    <3>3. load' \in Load
      BY <1>2, <2>1, <3>2, LoadGoesOn DEF LoadConfig, LoadStep
    <3> QED
      BY <1>2, <2>1, <3>3 DEF LoadConfig, TypeOK
  <2>2. CASE LoadThrows /\ UNCHANGED retention
    BY <1>2, <2>2, LoadThrowsType DEF LoadConfig, TypeOK
  <2> QED
    BY <1>2, <2>1, <2>2 DEF LoadConfig
<1>3. CASE BuildRuntime
  <2>1. CASE load' = [load EXCEPT !.step = "sideEffects"] /\ ~LoadThrows
    <3>1. load \in Load /\ load' \in Load
      BY <1>3, <2>1, LoadGoesOn DEF BuildRuntime, LoadStep, TypeOK, Load
    <3>2. load.config \in Config /\ runtime.fatal \in BOOLEAN
      BY <3>1 DEF Load, TypeOK, Runtime
    <3>3. /\ buildInitialGatewayRuntimeSnapshot(load.config) \in Runtime
          /\ buildReloadedGatewayRuntimeSnapshot(runtime, load.config) \in Runtime
      BY <3>2 DEF Runtime, buildInitialGatewayRuntimeSnapshot,
                  buildReloadedGatewayRuntimeSnapshot
    <3>4. runtime' \in Runtime
      BY <1>3, <2>1, <3>3 DEF BuildRuntime
    <3> QED
      BY <1>3, <2>1, <3>1, <3>4 DEF BuildRuntime, TypeOK
  <2>2. CASE LoadThrows /\ UNCHANGED retention
    BY <1>3, <2>2, LoadThrowsType DEF BuildRuntime, TypeOK
  <2> QED
    BY <1>3, <2>1, <2>2 DEF BuildRuntime
<1>4. CASE SyncActiveRuntimeSideEffects
  <2>0. /\ runtime.config \in Config /\ runtime.config.port \in Port
        /\ runtime.config.maxConnections \in Connections
        /\ runtime.config.retention \in BOOLEAN
    BY DEF TypeOK, Runtime, Config
  <2>1. CASE disk # Invalid
    <3>1. retention' \in [configured : BOOLEAN, timer : BOOLEAN]
      BY <1>4, <2>0, <2>1 DEF SyncActiveRuntimeSideEffects, syncRetentionPruneSchedule
    <3>2. server' \in [state : {"none", "opening", "listening", "closing", "closed"},
                       port : Port, maxConnections : Connections, requests : Nat]
      BY <1>4, <2>0, <2>1 DEF SyncActiveRuntimeSideEffects, TypeOK
    <3>3. handlers' \in BOOLEAN
      BY <1>4, <2>1 DEF SyncActiveRuntimeSideEffects
    <3> QED
      BY <1>4, <2>1, <3>1, <3>2, <3>3 DEF SyncActiveRuntimeSideEffects, TypeOK
  <2>2. CASE disk = Invalid
    <3>1. retention' \in [configured : BOOLEAN, timer : BOOLEAN]
      BY <1>4, <2>0, <2>2 DEF SyncActiveRuntimeSideEffects, TypeOK
    <3> QED
      BY <1>4, <2>2, <3>1, LoadThrowsType DEF SyncActiveRuntimeSideEffects, TypeOK
  <2> QED
    BY <2>1, <2>2
<1>5. CASE handleSighup
  <2>1. load' \in Load
    BY <1>5 DEF handleSighup, TypeOK, Runtime, Load, Loading, LoadStep
  <2> QED
    BY <1>5, <2>1 DEF handleSighup, TypeOK
<1>6. CASE Listening
  BY <1>6 DEF Listening, TypeOK
<1>7. CASE ListenFails \/ ForcedExit \/ DiesUnhandled
  BY <1>7 DEF ListenFails, ForcedExit, DiesUnhandled, TypeOK, ExitCode
<1>8. CASE RequestStarts
  BY <1>8 DEF RequestStarts, TypeOK
<1>9. CASE RequestEnds
  BY <1>9 DEF RequestEnds, TypeOK
<1>10. ASSUME NEW code \in ExitCode, beginGatewayGracefulShutdown(code)
       PROVE  /\ server' \in [state : {"none", "opening", "listening", "closing", "closed"},
                               port : Port, maxConnections : Connections, requests : Nat]
              /\ retention' \in [configured : BOOLEAN, timer : BOOLEAN]
              /\ shutdown' \in [started : BOOLEAN, forcedTimer : BOOLEAN,
                                 finalize : {"no", "running", "settled"}, code : ExitCode]
  BY <1>10, ZenonT(60) DEF beginGatewayGracefulShutdown, TypeOK
<1>11. CASE TriggerGracefulShutdown
  BY <1>10, <1>11 DEF TriggerGracefulShutdown, TypeOK, ExitCode
<1>12. CASE handleFatalRuntimeError
  <2>1. runtime' \in Runtime
    BY <1>12 DEF handleFatalRuntimeError, markGatewayRuntimeFatalError, TypeOK, Runtime
  <2> QED
    BY <1>10, <1>12, <2>1 DEF handleFatalRuntimeError, TypeOK, ExitCode
<1>13. CASE ServerClosed
  BY <1>13 DEF ServerClosed, TypeOK
<1>14. CASE Finalized
  BY <1>14 DEF Finalized, TypeOK
<1>15. CASE Stopped \/ UNCHANGED vars
  BY <1>15 DEF Stopped, vars, TypeOK
<1> QED
  BY <1>1, <1>2, <1>3, <1>4, <1>5, <1>6, <1>7, <1>8, <1>9, <1>11, <1>12, <1>13, <1>14, <1>15
     DEF Next

(***************************************************************************)
(* The safety of a step                                                    *)
(***************************************************************************)

\* A load that throws: of the runtime only the outcome of the reload changes.
LEMMA LoadThrowsFacts ==
    ASSUME TypeOK, LoadThrows
    PROVE  /\ load' = NotLoading /\ load'.kind = "none"
           /\ UNCHANGED <<server, handlers>>
           /\ runtime'.config = runtime.config
           /\ load.kind = "boot" => exited' = "exit1" /\ runtime' = runtime
           /\ load.kind # "boot" => exited' = exited /\ runtime'.reload = "failed"
BY DEF LoadThrows, TypeOK, NotLoading, Runtime, markGatewayRuntimeReloadFailure

\* A boot opens the server and a reload keeps its address, so it is the one
\* that is served.
LEMMA AddressStep ==
    ASSUME Inv, [Next]_vars
    PROVE  ServesListeningAddress'
<1> USE DEF Inv, TypeOK, ServesListeningAddress
<1>1. CASE LoadConfig
  BY <1>1, LoadThrowsFacts DEF LoadConfig
<1>2. CASE BuildRuntime
  <2>1. CASE LoadThrows
    BY <1>2, <2>1, LoadThrowsFacts
  <2>2. CASE load.kind = "boot" /\ ~LoadThrows
    BY <1>2, <2>2 DEF BuildRuntime, BootComesFirst
  <2>3. CASE load.kind # "boot" /\ ~LoadThrows
    BY <1>2, <2>3 DEF BuildRuntime, ReloadKeepsAddress, buildReloadedGatewayRuntimeSnapshot
  <2> QED
    BY <2>1, <2>2, <2>3
<1>3. CASE SyncActiveRuntimeSideEffects
  BY <1>3, LoadThrowsFacts DEF SyncActiveRuntimeSideEffects
<1>4. CASE handleFatalRuntimeError
  <2>1. runtime'.config = runtime.config
    BY <1>4 DEF handleFatalRuntimeError, markGatewayRuntimeFatalError, Runtime
  <2>2. server'.port = server.port /\ (server'.state = "none" <=> server.state = "none")
    BY <1>4 DEF handleFatalRuntimeError, beginGatewayGracefulShutdown, BootComesFirst
  <2> QED
    BY <2>1, <2>2
<1>5. CASE TriggerGracefulShutdown
  BY <1>5 DEF TriggerGracefulShutdown, beginGatewayGracefulShutdown, BootComesFirst
<1>6. CASE Listening \/ RequestStarts \/ RequestEnds \/ ServerClosed
  BY <1>6 DEF Listening, RequestStarts, RequestEnds, ServerClosed
<1>7. CASE UNCHANGED <<runtime, server>>
  BY <1>7
<1> QED
  BY <1>1, <1>2, <1>3, <1>4, <1>5, <1>6, <1>7
     DEF Next, vars, FilesChange, handleSighup, ListenFails, Finalized, ForcedExit,
         DiesUnhandled, Stopped

\* Where the process is: boot, server, shutdown.
LEMMA PhaseStep ==
    ASSUME Inv, [Next]_vars
    PROVE  BootComesFirst' /\ BootIsNoReload'
<1> USE DEF Inv, TypeOK, BootComesFirst, BootIsNoReload
<1>1. CASE LoadConfig
  <2>1. CASE LoadThrows
    BY <1>1, <2>1, LoadThrowsFacts DEF LoadConfig, Running
  <2>2. CASE ~LoadThrows
    <3>1. load'.kind = load.kind
      BY <1>1, <2>2 DEF LoadConfig, Load
    <3> QED
      BY <1>1, <2>2, <3>1 DEF LoadConfig
  <2> QED
    BY <2>1, <2>2
<1>2. CASE BuildRuntime
  <2>1. CASE LoadThrows
    BY <1>2, <2>1, LoadThrowsFacts DEF BuildRuntime, Running
  <2>2. CASE ~LoadThrows
    <3>1. load'.kind = load.kind
      BY <1>2, <2>2 DEF BuildRuntime, Load
    <3>2. load.kind = "boot" => runtime'.reload = "never_attempted"
      BY <1>2, <2>2 DEF BuildRuntime, buildInitialGatewayRuntimeSnapshot
    <3> QED
      BY <1>2, <2>2, <3>1, <3>2 DEF BuildRuntime
  <2> QED
    BY <2>1, <2>2
<1>3. CASE SyncActiveRuntimeSideEffects
  <2>1. CASE disk = Invalid
    BY <1>3, <2>1, LoadThrowsFacts DEF SyncActiveRuntimeSideEffects, Running
  <2>2. CASE disk # Invalid
    <3>1. load'.kind = "none" /\ server'.state # "none"
      BY <1>3, <2>2 DEF SyncActiveRuntimeSideEffects, NotLoading
    <3> QED
      BY <1>3, <2>2, <3>1 DEF SyncActiveRuntimeSideEffects
  <2> QED
    BY <2>1, <2>2
<1>4. CASE handleSighup
  BY <1>4 DEF handleSighup, Idle
<1>5. CASE handleFatalRuntimeError
  <2>1. server.state # "none" /\ server'.state # "none"
    BY <1>5 DEF handleFatalRuntimeError, beginGatewayGracefulShutdown
  <2> QED
    BY <1>5, <2>1 DEF handleFatalRuntimeError
<1>6. CASE TriggerGracefulShutdown
  BY <1>6 DEF TriggerGracefulShutdown, beginGatewayGracefulShutdown
<1>7. CASE Listening \/ RequestStarts \/ RequestEnds
  BY <1>7 DEF Listening, RequestStarts, RequestEnds
<1>8. CASE ServerClosed
  BY <1>8 DEF ServerClosed
<1>9. CASE Finalized
  <2>1. server.state # "none"
    BY <1>9 DEF Finalized
  <2> QED
    BY <1>9, <2>1 DEF Finalized, Idle, NotLoading
<1>10. CASE ListenFails \/ ForcedExit \/ DiesUnhandled
  BY <1>10 DEF ListenFails, ForcedExit, DiesUnhandled, Running, Killed
<1>11. CASE UNCHANGED <<load, runtime, server, shutdown, handlers, exited>>
  BY <1>11
<1> QED
  BY <1>1, <1>2, <1>3, <1>4, <1>5, <1>6, <1>7, <1>8, <1>9, <1>10, <1>11
     DEF Next, vars, FilesChange, Stopped

\* Requests end before the server is closed, and it is closed before the
\* process exits with code 0.
LEMMA DrainStep ==
    ASSUME Inv, [Next]_vars
    PROVE  ClosedIsDrained' /\ CleanExitIsDrained'
<1> USE DEF Inv, TypeOK, ClosedIsDrained, CleanExitIsDrained
<1>1. CASE LoadConfig
  BY <1>1, LoadThrowsFacts DEF LoadConfig, Running
<1>2. CASE BuildRuntime
  BY <1>2, LoadThrowsFacts DEF BuildRuntime, Running
<1>3. CASE SyncActiveRuntimeSideEffects
  <2>1. CASE disk = Invalid
    BY <1>3, <2>1, LoadThrowsFacts DEF SyncActiveRuntimeSideEffects, Running
  <2>2. CASE disk # Invalid /\ load.kind = "boot"
    BY <1>3, <2>2 DEF SyncActiveRuntimeSideEffects, BootComesFirst, Running
  <2>3. CASE disk # Invalid /\ load.kind # "boot"
    <3>1. server'.state = server.state /\ server'.requests = server.requests
      BY <1>3, <2>3 DEF SyncActiveRuntimeSideEffects
    <3> QED
      BY <1>3, <2>3, <3>1 DEF SyncActiveRuntimeSideEffects
  <2> QED
    BY <2>1, <2>2, <2>3
<1>4. CASE handleFatalRuntimeError
  BY <1>4 DEF handleFatalRuntimeError, beginGatewayGracefulShutdown, Idle, Running
<1>5. CASE TriggerGracefulShutdown
  BY <1>5 DEF TriggerGracefulShutdown, beginGatewayGracefulShutdown, Idle, Running
<1>6. CASE Listening \/ RequestStarts \/ RequestEnds
  BY <1>6 DEF Listening, RequestStarts, RequestEnds, Idle, Running
<1>7. CASE ServerClosed
  BY <1>7 DEF ServerClosed, Idle, Running
<1>8. CASE Finalized
  BY <1>8 DEF Finalized
<1>9. CASE ListenFails \/ ForcedExit \/ DiesUnhandled
  BY <1>9 DEF ListenFails, ForcedExit, DiesUnhandled, Killed
<1>10. CASE UNCHANGED <<server, shutdown, exited>>
  BY <1>10
<1> QED
  BY <1>1, <1>2, <1>3, <1>4, <1>5, <1>6, <1>7, <1>8, <1>9, <1>10
     DEF Next, vars, FilesChange, handleSighup, Stopped

\* A reload is reported as "ok" before it is applied, but nobody hears of it
\* before the load is over.
LEMMA ReloadStep ==
    ASSUME Inv, [Next]_vars
    PROVE  ReportedReloadIsApplied'
<1> USE DEF Inv, TypeOK, ReportedReloadIsApplied
<1>1. CASE LoadConfig
  <2>1. CASE LoadThrows
    BY <1>1, <2>1, LoadThrowsFacts DEF LoadConfig, Running, BootComesFirst, BootIsNoReload
  <2>2. CASE ~LoadThrows
    <3>1. load' # NotLoading
      BY <1>1, <2>2 DEF LoadConfig, Load, Loading, NotLoading
    <3> QED
      BY <3>1
  <2> QED
    BY <2>1, <2>2
<1>2. CASE BuildRuntime
  <2>1. CASE LoadThrows
    BY <1>2, <2>1, LoadThrowsFacts DEF BuildRuntime, Running, BootComesFirst, BootIsNoReload
  <2>2. CASE ~LoadThrows
    <3>1. load' # NotLoading
      BY <1>2, <2>2 DEF BuildRuntime, Load, Loading, NotLoading
    <3> QED
      BY <3>1
  <2> QED
    BY <2>1, <2>2
<1>3. CASE SyncActiveRuntimeSideEffects
  <2>1. CASE disk = Invalid
    BY <1>3, <2>1, LoadThrowsFacts DEF SyncActiveRuntimeSideEffects, Running
  <2>2. CASE disk # Invalid
    <3>1. /\ retention'.configured = runtime'.config.retention
          /\ retention'.timer = runtime'.config.retention
      BY <1>3, <2>2 DEF SyncActiveRuntimeSideEffects, syncRetentionPruneSchedule
    <3>2. server'.maxConnections = runtime'.config.maxConnections
      BY <1>3, <2>2 DEF SyncActiveRuntimeSideEffects
    <3> QED
      BY <3>1, <3>2
  <2> QED
    BY <2>1, <2>2
<1>4. CASE handleSighup
  <2>1. load' # NotLoading
    BY <1>4 DEF handleSighup, NotLoading
  <2> QED
    BY <2>1
<1>5. ASSUME NEW code, beginGatewayGracefulShutdown(code)
      PROVE  /\ server'.maxConnections = server.maxConnections
             /\ retention'.configured = retention.configured
             /\ shutdown'.started
  BY <1>5 DEF beginGatewayGracefulShutdown
<1>6. CASE handleFatalRuntimeError
  <2>1. runtime'.config = runtime.config /\ runtime'.reload = runtime.reload
    BY <1>6 DEF handleFatalRuntimeError, markGatewayRuntimeFatalError, Runtime
  <2> QED
    BY <1>5, <1>6, <2>1 DEF handleFatalRuntimeError
<1>7. CASE TriggerGracefulShutdown
  BY <1>5, <1>7 DEF TriggerGracefulShutdown
<1>8. CASE Listening \/ RequestStarts \/ RequestEnds
  BY <1>8 DEF Listening, RequestStarts, RequestEnds
<1>9. CASE ServerClosed
  BY <1>9 DEF ServerClosed
<1>10. CASE Finalized \/ ListenFails \/ ForcedExit \/ DiesUnhandled
  <2>1. exited' # Running
    BY <1>10 DEF Finalized, ListenFails, ForcedExit, DiesUnhandled, Running, Killed, ExitCode
  <2> QED
    BY <2>1
<1>11. CASE UNCHANGED <<load, runtime, server, retention, shutdown, exited>>
  BY <1>11
<1> QED
  BY <1>1, <1>2, <1>3, <1>4, <1>6, <1>7, <1>8, <1>9, <1>10, <1>11
     DEF Next, vars, FilesChange, Stopped

-----------------------------------------------------------------------------
\* The inductive invariant holds before the boot.
LEMMA InitSafe == Init => Inv
BY InitType DEF Init, Inv, BootComesFirst, ClosedIsDrained, BootIsNoReload, Running,
                ServesListeningAddress, ReportedReloadIsApplied, CleanExitIsDrained

\* Inv holds in every reachable state.
LEMMA AlwaysInv == Spec => []Inv
<1>1. Inv /\ [Next]_vars => Inv'
  BY TypeStep, AddressStep, PhaseStep, DrainStep, ReloadStep DEF Inv
<1> QED
  BY InitSafe, <1>1, PTL DEF Spec

\* Whatever the files say at each of its reads, the gateway serves the address it
\* listens on: no reload of reloadGatewayRuntime puts another one into force.
THEOREM ServedIsListening == Spec => []ServesListeningAddress
<1>1. Inv => ServesListeningAddress
  BY DEF Inv
<1> QED
  BY <1>1, AlwaysInv, PTL

\* A reload reported as "ok" is in force everywhere, in the connection limit, the
\* configured retention and its timer, although it is reported before it is applied
\* and signals, errors and requests come in between.
THEOREM ReportedIsApplied == Spec => []ReportedReloadIsApplied
<1>1. Inv => ReportedReloadIsApplied
  BY DEF Inv
<1> QED
  BY <1>1, AlwaysInv, PTL

\* Exit code 0 means that every request was answered and observability was shut
\* down, however a second signal, a fatal error or the forced exit interferes.
THEOREM ExitIsDrained == Spec => []CleanExitIsDrained
<1>1. Inv => CleanExitIsDrained
  BY DEF Inv
<1> QED
  BY <1>1, AlwaysInv, PTL
===============================================================================
