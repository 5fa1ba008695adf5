--------------------------- MODULE MCRequestPath ----------------------------
(***************************************************************************)
(* The request path for TLC.  A behaviour follows one workload, so that    *)
(* the limiters, the proxying and the inspection add their states instead  *)
(* of multiplying them.                                                    *)
(***************************************************************************)
EXTENDS RequestPath

Local == "127.0.0.1"
Near  == "10.0.0.7"
Far   == "10.0.0.8"

Chat == [source |-> Local, target |-> TRUE, method |-> "POST",
         path |-> "/v1/chat/completions", host |-> "loopback", token |-> "right",
         localClient |-> FALSE, origin |-> "none", site |-> "none", mode |-> "none",
         model |-> "fast", stream |-> FALSE, inspect |-> "none", bodyHeaders |-> TRUE]

Get(path) == [Chat EXCEPT !.method = "GET", !.path = path]

\* A request whose Content-Length is missing: it is counted and answered 411.
Unread(s) == [Chat EXCEPT !.source = s, !.bodyHeaders = FALSE]

Wrong(s) == [Chat EXCEPT !.source = s, !.token = "wrong"]

MCMessage ==
    [chat |-> Chat,
     stream |-> [Chat EXCEPT !.stream = TRUE, !.model = "near"],
     translated |-> [Chat EXCEPT !.stream = TRUE, !.model = "claude"],
     messages |-> [Chat EXCEPT !.path = "/anthropic/v1/messages", !.model = "claude"],
     mismatch |-> [Chat EXCEPT !.path = "/anthropic/v1/messages", !.model = "near"],
     inspected |-> [Chat EXCEPT !.token = "none", !.localClient = TRUE,
                                !.inspect = "1", !.model = "claude"],
     inspection |-> [Get("runtime/inspect") EXCEPT !.localClient = TRUE],
     wrongLocal |-> Wrong(Local), wrongNear |-> Wrong(Near), wrongFar |-> Wrong(Far),
     unread |-> Unread(Local), unreadNear |-> Unread(Near),
     config |-> Get("runtime/config"), other |-> Get("other"), health |-> Get("/health"),
     healthNear |-> [Get("/health") EXCEPT !.source = Near]]

Base == [envName |-> TRUE, override |-> "none", env |-> "long",
         allowUnauthenticatedGateway |-> FALSE, allowUnauthenticatedHealth |-> FALSE,
         oneTrustedOperatorBoundary |-> FALSE,
         rateLimit |-> RateLimitConfig(1, 1, 1, 0), parses |-> 2, streams |-> 1,
         routes |-> [fast   |-> [mode |-> "openai-completions", host |-> "api.test",
                                 allowPrivate |-> FALSE],
                     near   |-> [mode |-> "openai-completions", host |-> "literal",
                                 allowPrivate |-> FALSE],
                     claude |-> [mode |-> "anthropic-messages", host |-> "literal",
                                 allowPrivate |-> FALSE]]]

Wide == [Base EXCEPT !.rateLimit = RateLimitConfig(2, 3, 2, 0)]

MCConfig ==
    [base |-> Base,
     private |-> [Base EXCEPT !.routes.fast.allowPrivate = TRUE],
     narrow |-> [Base EXCEPT !.parses = 1],
     wide |-> Wide,
     openHealth |-> [Base EXCEPT !.allowUnauthenticatedHealth = TRUE],
     open |-> [Base EXCEPT !.envName = FALSE, !.allowUnauthenticatedGateway = TRUE,
                       !.parses = 1]]

MCWorkload ==
    [guessing   |-> [messages |-> {"wrongLocal", "wrongNear", "wrongFar", "other"},
                     configs  |-> {"base"}],
     budgets    |-> [messages |-> {"unread", "unreadNear", "config"},
                     configs  |-> {"wide"}],
     probing    |-> [messages |-> {"health", "healthNear"},
                     configs  |-> {"base", "openHealth"}],
     streaming  |-> [messages |-> {"stream", "translated"},
                     configs  |-> {"base"}],
     endpoints  |-> [messages |-> {"chat"},
                     configs  |-> {"base", "private"}],
     crowded    |-> [messages |-> {"messages", "mismatch"},
                     configs  |-> {"narrow"}],
     inspecting |-> [messages |-> {"inspected", "inspection"},
                     configs  |-> {"open"}]]

MCSources     == {Local, Near, Far}
MCLoopback    == {Local}
MCHostnames   == {"api.test"}
MCHealthLimit == RateLimitConfig(2, 1, 2, 2)
MCCaptureIds  == {"i1", "i2"}
=============================================================================
