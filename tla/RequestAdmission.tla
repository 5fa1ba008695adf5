-------------------------- MODULE RequestAdmission --------------------------
(***************************************************************************)
(* What createGatewayRuntimeRequestHandler decides about a request from    *)
(* its headers and the configuration alone, before any limiter is asked.   *)
(*                                                                         *)
(* A message has the fields                                                *)
(*   source        the normalised remote address                           *)
(*   target        FALSE when the request target is not a URL              *)
(*   method, path  path is one of Paths                                    *)
(*   host          what the Host header names, one of Hosts                *)
(*   token         what the x-api-key or bearer token is                   *)
(*   localClient   the local-client header is 1                            *)
(*   origin, site, mode   Origin, Sec-Fetch-Site and Sec-Fetch-Mode        *)
(* A configuration has                                                     *)
(*   envName       inbound_api_key_env names a variable                    *)
(*   override, env the key of the secrets file and of the environment      *)
(*   allowUnauthenticatedGateway, allowUnauthenticatedHealth,              *)
(*   oneTrustedOperatorBoundary   the switches of the same names.          *)
(***************************************************************************)
EXTENDS Naturals, Sequences, FiniteSets, FiniteSetsExt

CONSTANTS Sources,         \* remote addresses
          LoopbackSources  \* 127.0.0.1 and ::1

ASSUME LoopbackAssumption == LoopbackSources \subseteq Sources

Paths == {"/health", "/v1/chat/completions", "/anthropic/v1/messages",
          "runtime/config", "runtime/inspect", "runtime/other", "other"}

Hosts == {"missing", "malformed", "loopback", "bindHost", "otherPort", "otherName"}

Keys == {"none", "empty", "short", "long"}

classifyRuntimeRoute(method, path) ==
    CASE method = "GET"  /\ path = "/health"         -> "health"
      [] method = "POST" /\ path \in {"/v1/chat/completions", "/anthropic/v1/messages"}
                                                     -> "data_plane"
      [] method = "GET"  /\ path = "runtime/config"  -> "runtime_config"
      [] method = "GET"  /\ path = "runtime/inspect" -> "runtime_inspect"
      [] method = "GET"  /\ path = "runtime/other"   -> "unknown_runtime_control_plane"
      [] OTHER                                       -> "not_found"

trustClass(route) ==
    CASE route = "health"     -> "health_probe"
      [] route = "data_plane" -> "data_plane"
      [] route = "not_found"  -> "unknown"
      [] OTHER                -> "control_plane_read"

requiresUnauthenticatedLocalClientGate(route) ==
    route = "data_plane" \/ trustClass(route) = "control_plane_read"

requiresCallerRateLimit(route) ==
    route \in {"data_plane", "runtime_config", "runtime_inspect"}

\* An override wins over the environment even when it is empty.
resolveInboundApiKey(c) == IF c.override # "none" THEN c.override ELSE c.env

resolveLocalGatewayInboundAuthState(c) ==
    CASE ~c.envName /\ c.allowUnauthenticatedGateway     -> "disabled_explicit"
      [] ~c.envName /\ ~c.allowUnauthenticatedGateway    -> "misconfigured"
      [] c.envName /\ resolveInboundApiKey(c) # "long"   -> "misconfigured"
      [] c.envName /\ resolveInboundApiKey(c) = "long"   -> "token"

isAllowedUnauthenticatedGatewayHost(m) ==
    m.source \in LoopbackSources /\ m.host \in {"loopback", "bindHost"}

validateUnauthenticatedGatewayLocalClientRequest(c, m) ==
    /\ c.oneTrustedOperatorBoundary \/ m.localClient
    /\ m.origin \in {"none", "local"}
    /\ m.site \in {"none", "same-origin"}
    /\ m.mode # "browser"

requestHasExpectedInboundAuth(m) == m.token = "right"

Gate(stops, answer) == [stops |-> stops, answer |-> answer]

\* The gates in the order the handler passes them; the first that stops the
\* request answers it.
Gates(c, m) ==
    LET state == resolveLocalGatewayInboundAuthState(c)
        route == classifyRuntimeRoute(m.method, m.path)
    IN  << Gate(~m.target, "400 malformed target"),
           Gate(state = "misconfigured", "500 inbound auth misconfigured"),
           Gate(state = "disabled_explicit" /\ ~isAllowedUnauthenticatedGatewayHost(m),
                "421 misdirected"),
           Gate(/\ state = "disabled_explicit"
                /\ requiresUnauthenticatedLocalClientGate(route)
                /\ ~validateUnauthenticatedGatewayLocalClientRequest(c, m),
                "403 local client"),
           Gate(/\ trustClass(route) = "control_plane_read"
                /\ ~isAllowedUnauthenticatedGatewayHost(m),
                "421 misdirected"),
           Gate(route = "health", "health"),
           Gate(state = "token" /\ ~requestHasExpectedInboundAuth(m), "failed auth") >>

\* The answer of the gates, or "admitted".
screenRequest(c, m) ==
    LET gates   == Gates(c, m)
        stopped == {i \in 1..Len(gates) : gates[i].stops}
    IN  IF stopped = {} THEN "admitted" ELSE gates[Min(stopped)].answer

\* What enforceHealthRequestTrustPolicy makes of a health request.
enforceHealthRequestTrustPolicy(c, m) ==
    LET token == resolveLocalGatewayInboundAuthState(c) = "token"
    IN  IF token /\ c.allowUnauthenticatedHealth
           /\ ~isAllowedUnauthenticatedGatewayHost(m)
        THEN "misdirected"
        ELSE IF token /\ ~c.allowUnauthenticatedHealth /\ ~requestHasExpectedInboundAuth(m)
        THEN "failed auth"
        ELSE "trusted"

\* Whether the failures of the source are forgotten.
resetsFailures(c, m) ==
    /\ resolveLocalGatewayInboundAuthState(c) = "token"
    /\ requestHasExpectedInboundAuth(m)
=============================================================================
