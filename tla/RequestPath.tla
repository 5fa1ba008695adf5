---------------------------- MODULE RequestPath -----------------------------
(***************************************************************************)
(* The gateway's request path: createGatewayRuntimeRequestHandler and what *)
(* it calls, from the arrival of a request to the end of its response.     *)
(* The limiters, the inspection store, the concurrency counters and the    *)
(* endpoint cache outlive the requests; a reload replaces the              *)
(* configuration and the caller rate limiter, and nothing else.            *)
(*                                                                         *)
(* The handler is synchronous up to its first await, so a request that is  *)
(* answered before that is one step; a request that changes nothing (a     *)
(* malformed target, a misconfigured gateway, a refused Host) is no step.  *)
(*                                                                         *)
(* A configuration has, beside the fields of RequestAdmission,             *)
(*   rateLimit  the limiter's configuration,                               *)
(*   parses     maxConcurrentJsonParses,                                   *)
(*   streams    maxConcurrentStreamsPerIp,                                 *)
(*   routes     model name -> [mode, host, allowPrivate].                  *)
(* A data-plane message has the model it names (NoModel or a name of no    *)
(* route included), whether it asks for a stream, its inspection header,   *)
(* and whether its body headers are in order.                              *)
(***************************************************************************)
EXTENDS RequestAdmission, RateLimiter, AuthLimiter, InspectionStore,
        ProviderEndpoint, ResponseDelivery

CONSTANTS
    Message,      \* bound: message name -> message
    Config,       \* bound: configuration name -> configuration
    Workload,     \* bound: workload name -> the names of [messages, configs]
    HealthLimit,  \* configuration of the health limiter
    MaxWindow     \* bound: the longest rate limit window of a configuration

ASSUME RequestPathAssumption ==
    /\ IsFiniteSet(Slots)
    /\ \A name \in DOMAIN Message : Message[name].source \in Sources
    /\ MaxWindow \in Nat
    /\ \A c \in DOMAIN Config :
           /\ ValidRateLimitConfig(Config[c].rateLimit)
           /\ Config[c].rateLimit.window <= MaxWindow
           /\ Config[c].rateLimit.ttl = 0  \* createGatewayRuntimeRateLimiter gives none
    /\ ValidRateLimitConfig(HealthLimit)
    /\ \A w \in DOMAIN Workload : /\ Workload[w].messages \subseteq DOMAIN Message
                                  /\ Workload[w].configs \subseteq DOMAIN Config

VARIABLES
    workload,      \* the messages and configurations of this behaviour
    config,        \* activeRuntime.config, by name
    rate,          \* activeRuntime.rateLimiter
    health,        \* the health limiter
    auth,          \* failedAuthAttemptLimiter
    store,         \* inspectionCaptureStore and captureByRequestId
    parseActive,   \* JsonParseConcurrencyManager.#activeRequests
    streamActive,  \* StreamingRequestConcurrencyManager.#activeRequestsBySourceIp
    cache,         \* providerEndpointResolutionCache
    grants,        \* history: requests granted to a key, by age
    guesses        \* history: wrong tokens answered 401, by age

limiterVars == <<rate, health, auth, grants, guesses>>
vars == <<req, workload, config, store, parseActive, streamActive, cache, limiterVars>>

-----------------------------------------------------------------------------
Classes == {"data_plane", "control_plane_read"}
RateKeys == Sources \X Classes

gatewayRateLimitKey(m) ==
    <<m.source, trustClass(classifyRuntimeRoute(m.method, m.path))>>

Free(r) == req[r].pc \in {"idle", "done"}
\* Which slot a request takes makes no difference.
FreeSlot == CHOOSE r \in Slots : Free(r)
Held == {r \in Slots : ~Free(r)}

\* The message and the configuration a handler works with, and the active
\* configuration.
Msg(d)    == Message[d.msg]
Conf(d)   == Config[d.config]
Active    == Config[config]

NoGrants  == [k \in RateKeys |-> [a \in 0..(MaxWindow - 1) |-> 0]]
NoGuesses == [s \in Sources |-> [a \in 0..(AuthWindow - 1) |-> 0]]

Init ==
    /\ workload \in DOMAIN Workload
    /\ config \in Workload[workload].configs
    /\ rate = <<>> /\ health = <<>> /\ auth = {}
    /\ store = EmptyStore
    /\ parseActive = 0
    /\ streamActive = [s \in Sources |-> 0]
    /\ cache = [h \in Hostnames |-> "none"]
    /\ grants = NoGrants
    /\ guesses = NoGuesses
    /\ req = [r \in Slots |-> Idle]

-----------------------------------------------------------------------------
(* Admission.                                                              *)

\* History: what a source was answered is forgotten with its entry.
Forget(log, kept) == [k \in DOMAIN log |-> IF k \in kept THEN log[k] ELSE [a \in DOMAIN log[k] |-> 0]]

FailedSources(entries) == {e.source : e \in entries}

\* rejectFailedInboundAuth, and the misdirected health request.
RegisterFailure(m) ==
    \E outcome \in registerFailure(auth, m.source) :
        /\ auth' = outcome.entries
        /\ guesses' = Forget(IF outcome.blocked THEN guesses
                             ELSE [guesses EXCEPT ![m.source][0] = @ + 1],
                             FailedSources(auth'))

ResetFailures(m) ==
    LET after == IF resetsFailures(Active, m) THEN reset(auth, m.source) ELSE auth
    IN  auth' = after /\ guesses' = Forget(guesses, FailedSources(after))

HealthProbe(m) ==
    /\ screenRequest(Active, m) = "health"
    /\ IF enforceHealthRequestTrustPolicy(Active, m) # "trusted"
       THEN RegisterFailure(m) /\ UNCHANGED health
       ELSE ResetFailures(m) /\ health' = check(HealthLimit, health, m.source).entries
    /\ UNCHANGED <<req, workload, config, store, parseActive, streamActive, cache, rate, grants>>

FailedAuth(m) ==
    /\ screenRequest(Active, m) = "failed auth"
    /\ RegisterFailure(m)
    /\ UNCHANGED <<req, workload, config, store, parseActive, streamActive, cache, rate, health, grants>>

\* The caller's budget; allowed is what the limiter must have answered.
CheckRate(m, allowed) ==
    LET key      == gatewayRateLimitKey(m)
        decision == check(Active.rateLimit, rate, key)
    IN  /\ decision.allowed = allowed
        /\ rate' = decision.entries
        /\ grants' = Forget(IF allowed THEN [grants EXCEPT ![key][0] = @ + 1] ELSE grants,
                            LimitedKeys(rate'))

Admits(m, route) ==
    /\ screenRequest(Active, m) = "admitted"
    /\ classifyRuntimeRoute(m.method, m.path) = route
    /\ ResetFailures(m)
    /\ UNCHANGED <<workload, config, health, cache>>

NotFound(m) ==
    /\ Admits(m, "unknown_runtime_control_plane") \/ Admits(m, "not_found")
    /\ UNCHANGED <<req, store, parseActive, streamActive, rate, grants>>

RateLimited(m) ==
    /\ \E route \in {"data_plane", "runtime_config", "runtime_inspect"} : Admits(m, route)
    /\ CheckRate(m, FALSE)
    /\ UNCHANGED <<req, store, parseActive, streamActive>>

RuntimeConfigRead(m) ==
    /\ Admits(m, "runtime_config")
    /\ CheckRate(m, TRUE)
    /\ UNCHANGED <<req, store, parseActive, streamActive>>

\* The id and the read token are the caller's: a malformed one, a wrong token
\* or an unwelcome include_secrets leaves the captures alone, though looking
\* one up prunes the store.
RuntimeInspectRead(m) ==
    /\ Admits(m, "runtime_inspect")
    /\ CheckRate(m, TRUE)
    /\ \/ UNCHANGED store
       \/ store' = prune(store)
       \/ \E id \in StoredIds(store) : store' = consume(store, id)
    /\ UNCHANGED <<req, parseActive, streamActive>>

\* handleDataPlaneRequest allocates the capture before it looks at the body
\* headers, and the parse slot comes last.
DataPlaneRequest(name, r) ==
    LET m == Message[name] IN
    /\ Admits(m, "data_plane")
    /\ CheckRate(m, TRUE)
    /\ Free(r) /\ r = FreeSlot
    /\ UNCHANGED streamActive
    /\ \E capture \in (IF m.inspect = "1"
                       THEN CaptureIds \ (StoredIds(store) \cup store.bound
                                          \cup {req[q].capture : q \in Held})
                       ELSE {None}) :
           /\ store' = IF capture = None THEN store ELSE allocate(store, capture)
           /\ \/ /\ \/ m.inspect \in {"supplied", "invalid"}
                    \/ ~m.bodyHeaders
                    \/ parseActive >= Active.parses
                 /\ UNCHANGED <<req, parseActive>>
              \/ /\ m.inspect \in {"none", "1"}
                 /\ m.bodyHeaders
                 /\ parseActive < Active.parses
                 /\ parseActive' = parseActive + 1
                 /\ req' = [req EXCEPT ![r] = [Idle EXCEPT
                        !.pc = "reading", !.response = "open", !.capture = capture,
                        !.msg = name, !.config = config]]

-----------------------------------------------------------------------------
(* handleGatewayProxyRequest and executeProxyRequest.                      *)

Decrement(n) == IF n > 0 THEN n - 1 ELSE 0

HasStreamSlot(d) == d.pc \notin {"idle", "reading", "done"} /\ Msg(d).stream

\* Mutant: a stream's slot is lost with its client.
ReleaseUnlessClosed(r) ==
    LET ends == req'[r].pc = "done"
        gone == req'[r].response = "closed"
        s    == Msg(req[r]).source
    IN  /\ parseActive' = IF ends THEN Decrement(parseActive) ELSE parseActive
        /\ streamActive' = IF ends /\ ~gone /\ HasStreamSlot(req[r])
                           THEN [streamActive EXCEPT ![s] = Decrement(@)] ELSE streamActive

\* The finally blocks: both slots are held until the response is done.
releaseSlots(r) ==
    LET ends == req'[r].pc = "done"
        s    == Msg(req[r]).source
    IN  /\ parseActive' = IF ends THEN Decrement(parseActive) ELSE parseActive
        /\ streamActive' = IF ends /\ HasStreamSlot(req[r])
                           THEN [streamActive EXCEPT ![s] = Decrement(@)] ELSE streamActive

RouteOf(d) == Conf(d).routes[Msg(d).model]

HasRoute(d) == Msg(d).model \in DOMAIN Conf(d).routes

\* validateListenerForRequest
Compatible(d) ==
    Msg(d).path = "/v1/chat/completions" \/ RouteOf(d).mode = "anthropic-messages"

Translates(d) ==
    Msg(d).path = "/v1/chat/completions" /\ RouteOf(d).mode = "anthropic-messages"

Recorded(s, d) == IF d.capture = None THEN s ELSE recordExchange(s, d.capture)
Bound(s, d)    == IF d.capture = None THEN s
                  ELSE bindInvokeInspectionCaptureToRequestId(s, d.capture)
RecordedByRequest(s, d) == IF d.capture = None THEN s ELSE recordByRequestId(s, d.capture)

\* 413, 408 or, when the client left, the failure of the handler.
ReadFails(r) ==
    /\ In(r, "reading")
    /\ \/ Set(r, sendJsonError(req[r]))
       \/ Set(r, sendJsonError([req[r] EXCEPT !.response = "closed"]))
    /\ releaseSlots(r)
    /\ UNCHANGED <<workload, config, store, cache, limiterVars>>

\* The body was read and recorded, and is malformed or too deep.
BodyRejected(r) ==
    /\ In(r, "reading")
    /\ Set(r, sendJsonError(req[r]))
    /\ store' = Recorded(store, req[r])
    /\ releaseSlots(r)
    /\ UNCHANGED <<workload, config, cache, limiterVars>>

StreamRefused(r) ==
    /\ In(r, "reading")
    /\ Msg(req[r]).stream
    /\ streamActive[Msg(req[r]).source] >= Conf(req[r]).streams
    /\ Set(r, sendJsonError(req[r]))
    /\ store' = Recorded(store, req[r])
    /\ releaseSlots(r)
    /\ UNCHANGED <<workload, config, cache, limiterVars>>

StreamAdmitted(d) == Msg(d).stream => streamActive[Msg(d).source] < Conf(d).streams

\* No route, a route of the other listener, a body that cannot be rewritten,
\* an invalid header or a provider without a key: the capture is bound and
\* the stream slot is taken and given back.
ProxyRefused(r) ==
    /\ In(r, "reading")
    /\ StreamAdmitted(req[r])
    /\ Set(r, sendJsonError(req[r]))
    /\ store' = Bound(Recorded(store, req[r]), req[r])
    /\ releaseSlots(r)
    /\ UNCHANGED <<workload, config, cache, limiterVars>>

Acquired(d) ==
    IF Msg(d).stream THEN [streamActive EXCEPT ![Msg(d).source] = @ + 1] ELSE streamActive

\* The request is ready to go upstream.  Its endpoint may be a literal, which
\* is not looked up, or be in the cache.
Forward(r) ==
    LET d     == req[r]
        route == RouteOf(d)
        said  == cachedResolution(cache, route.host, route.allowPrivate)
    IN  /\ In(r, "reading")
        /\ StreamAdmitted(d) /\ HasRoute(d) /\ Compatible(d)
        /\ store' = RecordedByRequest(Bound(Recorded(store, d), d), d)
        /\ \/ /\ route.host \notin Hostnames
              /\ Set(r, [d EXCEPT !.pc = "fetching"])
              /\ streamActive' = Acquired(d)
              /\ UNCHANGED <<cache, parseActive>>
           \/ /\ route.host \in Hostnames
              /\ said \in Addresses
              /\ Set(r, [d EXCEPT !.pc = "fetching", !.pinned = said])
              /\ streamActive' = Acquired(d)
              /\ UNCHANGED <<cache, parseActive>>
           \/ /\ route.host \in Hostnames
              /\ said = "blocked"
              /\ Set(r, sendJsonError(d))
              /\ releaseSlots(r)
              /\ UNCHANGED cache
           \/ /\ route.host \in Hostnames
              /\ said = "lookup"
              /\ cache' = cacheBeforeLookup(cache, route.host, route.allowPrivate)
              /\ Set(r, [d EXCEPT !.pc = "resolving"])
              /\ streamActive' = Acquired(d)
              /\ UNCHANGED parseActive
        /\ UNCHANGED <<workload, config, limiterVars>>

\* The resolver answers, or fails with no address.
LookupAnswers(r) ==
    LET d == req[r]
        route == RouteOf(d)
    IN  /\ In(r, "resolving")
        /\ \E addresses \in LookupResults :
               LET pinned == pinnedEntry(addresses, route.allowPrivate)
               IN  /\ cache' = cacheAfterLookup(cache, route.host, pinned)
                   /\ Set(r, IF pinned \in Addresses
                             THEN [d EXCEPT !.pc = "fetching", !.pinned = pinned]
                             ELSE sendJsonError(d))
        /\ releaseSlots(r)
        /\ UNCHANGED <<workload, config, store, limiterVars>>

\* No connection, no response before the deadline: a POST is never retried.
FetchFails(r) ==
    /\ In(r, "fetching")
    /\ Set(r, sendJsonError(req[r]))
    /\ releaseSlots(r)
    /\ UNCHANGED <<workload, config, store, cache, limiterVars>>

FetchResponds(r) ==
    /\ In(r, "fetching")
    /\ \E failed \in BOOLEAN, declaredTooLarge \in BOOLEAN :
           LET d == [req[r] EXCEPT !.upstream = "open", !.failed = failed]
           IN  Set(r, IF Msg(d).stream /\ ~failed
                      THEN [d EXCEPT !.pc = IF Translates(d) THEN "translating" ELSE "piping"]
                      ELSE IF declaredTooLarge THEN BufferDeclaredTooLarge(d)
                      ELSE [d EXCEPT !.pc = "buffering"])
    /\ releaseSlots(r)
    /\ UNCHANGED <<workload, config, store, cache, limiterVars>>

\* The whole body is here.  It is recorded, translated where the client speaks
\* the other protocol (which may fail), recorded again and sent.
BufferEnds(r) ==
    LET d == req[r]
    IN  /\ In(r, "buffering")
        /\ \/ /\ Translates(d) /\ ~d.failed
              /\ Set(r, Undelivered(d))
              /\ store' = RecordedByRequest(store, d)
           \/ /\ Set(r, sendBufferedResponse(d))
              /\ store' = RecordedByRequest(RecordedByRequest(store, d), d)
        /\ releaseSlots(r)
        /\ UNCHANGED <<workload, config, cache, limiterVars>>

Deliver(r) ==
    /\ DeliveryStep(r)
    /\ releaseSlots(r)
    /\ UNCHANGED <<workload, config, store, cache, limiterVars>>

-----------------------------------------------------------------------------
(* The world around the handler.                                           *)

\* History: what is older than the window is forgotten.
AgeLog(log, window) ==
    [k \in DOMAIN log |->
        [a \in DOMAIN log[k] |-> IF a \in 1..(window - 1) THEN log[k][a - 1] ELSE 0]]

Tick ==
    /\ rate' = AgeRateLimit(Active.rateLimit, rate)
    /\ health' = AgeRateLimit(HealthLimit, health)
    /\ auth' = AgeAuth(auth)
    /\ store' = AgeStore(store)
    /\ grants' = AgeLog(grants, Active.rateLimit.window)
    /\ guesses' = AgeLog(guesses, AuthWindow)
    /\ UNCHANGED <<req, workload, config, parseActive, streamActive, cache>>

PruneTimerFires ==
    /\ store' = prune(store)
    /\ UNCHANGED <<req, workload, config, parseActive, streamActive, cache, limiterVars>>

CacheEntryExpires(h) ==
    /\ cache[h] # "none"
    /\ cache' = [cache EXCEPT ![h] = "none"]
    /\ UNCHANGED <<req, workload, config, store, parseActive, streamActive, limiterVars>>

\* buildReloadedGatewayRuntimeSnapshot: a new configuration, and a new caller
\* rate limiter with nothing in it.
Reload ==
    /\ config' \in Workload[workload].configs
    /\ rate' = <<>>
    /\ grants' = NoGrants
    /\ UNCHANGED <<req, workload, store, parseActive, streamActive, cache, health, auth, guesses>>

Arrival(name) ==
    LET m == Message[name]
    IN  \/ HealthProbe(m) \/ FailedAuth(m) \/ NotFound(m) \/ RateLimited(m)
        \/ RuntimeConfigRead(m) \/ RuntimeInspectRead(m)
        \/ \E r \in Slots : DataPlaneRequest(name, r)

Progress(r) ==
    \/ ReadFails(r) \/ BodyRejected(r) \/ StreamRefused(r) \/ ProxyRefused(r)
    \/ Forward(r) \/ LookupAnswers(r) \/ FetchFails(r) \/ FetchResponds(r)
    \/ BufferEnds(r) \/ Deliver(r)

Next ==
    \/ \E name \in Workload[workload].messages : Arrival(name)
    \/ \E r \in Slots : Progress(r)
    \/ Tick \/ PruneTimerFires \/ Reload
    \/ \E h \in Hostnames : CacheEntryExpires(h)

Spec == Init /\ [][Next]_vars

-----------------------------------------------------------------------------
(* Fairness: timers fire, the resolver answers, and a client goes on       *)
(* reading or leaves, which is an assumption about the other side of its   *)
(* connection.  Nothing is assumed of the upstream: a body that is         *)
(* buffered ends when the request's timer fails it, which it does only     *)
(* where fetch itself made the request.                                    *)

\* Idle and total timeout, the resolver, the deadline, lifetimes.
TimerOrAnswer(r) ==
    \/ ReadFails(r) \/ LookupAnswers(r) \/ FetchFails(r)
    \/ (BufferTimesOut(r) \/ PipeLimit(r) \/ TranslateLimit(r) \/ BlockedLimit(r)) /\ Deliver(r)

ClientReadsOrLeaves(r) == (PipeFinish(r) \/ Drained(r) \/ ClientLeaves(r)) /\ Deliver(r)

Fairness == \A r \in Slots : WF_vars(TimerOrAnswer(r)) /\ WF_vars(ClientReadsOrLeaves(r))

FairSpec == Spec /\ Fairness

-----------------------------------------------------------------------------
\* How many entries of the log are younger than n.
Sum(log, n) == Cardinality(UNION {{a} \X (1..log[a]) : a \in 0..(n - 1)})

\* The concurrency counters are exactly the requests that hold a slot: no path
\* out of handleGatewayProxyRequest, and no order of client and upstream
\* events, leaks one or gives one back twice.
SlotsHeldExactly ==
    /\ parseActive = Cardinality(Held)
    /\ \A s \in Sources :
           streamActive[s] = Cardinality({r \in Held : HasStreamSlot(req[r]) /\ Msg(req[r]).source = s})

\* When a request is over its upstream body was read to the end or cancelled,
\* whatever ended it: a client that left, a limit, an error.  (A body refused
\* for its declared length is the exception, and is counted apart.)
UpstreamReleased ==
    \A r \in Slots : req[r].pc = "done" => req[r].upstream # "open"

\* A response that ended cleanly after part of an upstream body was written
\* carries the whole body, unless the idle timeout ended it: the client can
\* tell a truncated answer from a complete one.
CleanEndIsComplete ==
    \A r \in Slots :
        req[r].response \in {"ended", "finished"} /\ req[r].body # "none"
            => req[r].body = "whole" \/ req[r].aborted = "idle"

\* The fixed window of createGlobalRateLimiter is no looser than twice its
\* budget: within any window's length a caller is granted at most one less
\* than two budgets, as long as its entry is neither evicted nor reloaded.
SlidingBudget ==
    \A k \in RateKeys :
        Sum(grants[k], Active.rateLimit.window) <= 2 * Active.rateLimit.requests - 1

\* Within any AuthWindow a source is told of a wrong token at most 2 * (T - 1)
\* - 1 times before it is only told to retry later, as long as it never
\* presents the right token and its entry is not evicted.
GuessBudget ==
    Threshold >= 2 =>
        \A s \in Sources : Sum(guesses[s], AuthWindow) <= 2 * Threshold - 3

\* The failed-auth table evicts a source that is locked out only when every
\* source that stays is locked out too.
LockoutsEvictedLast ==
    [][\A e \in auth :
           isEntryBlocked(e) /\ e.source \notin FailedSources(auth')
               => auth' \subseteq auth \/ \A f \in auth' : isEntryBlocked(f)]_vars

\* A capture that leaves the inspection store takes its request binding with
\* it.  A binding to a capture that is not stored, through which exchanges are
\* recorded that nobody can read, is made in one way only: the capture had
\* left while the body of its own request was still being read, and
\* executeProxyRequest binds it none the less.  Nothing removes that binding.
BindingsLeaveWithCaptures ==
    [][\A id \in store'.bound \ StoredIds(store') :
           /\ id \notin StoredIds(store)
           /\ \/ id \in store.bound
              \/ \E r \in Slots : In(r, "reading") /\ req[r].capture = id]_vars

\* No request is sent to a private address unless the route it was resolved
\* for allows it, although routes and reloads share one resolution cache.
PrivateOnlyIfAllowed ==
    \A r \in Slots : req[r].pinned = "private" => RouteOf(req[r]).allowPrivate

\* No timer and no signal ends the wait for a body that is buffered from the
\* pinned transport: it lasts as long as the upstream keeps its connection.
Untimed(r) == In(r, "buffering") /\ req[r].pinned # "no"

\* Every request that was let in comes to its end and gives its slots back,
\* with two exceptions: its client left before its pass-through stream began,
\* or its upstream stalls in a buffered body on the pinned transport for good.
RequestEnds ==
    \A r \in Slots : (r \in Held) ~> (r \notin Held \/ Orphaned(r) \/ []Untimed(r))

\* What the reference of max_concurrent_streams_per_ip says: the slot of a
\* stream is released when the downstream connection closes.
SlotFreedOnClose ==
    \A r \in Slots : (HasStreamSlot(req[r]) /\ req[r].response = "closed") ~> ~HasStreamSlot(req[r])
=============================================================================
