--------------------------- MODULE OptimizationReport ---------------------------
(***************************************************************************)
(* optimize and optimize_run (optimize-report-builder.ts): the candidate   *)
(* routes of a model are ranked by what the configured costs say, or by    *)
(* the latencies of a benchmark run for the purpose, and the ranking is    *)
(* stored as an optimization_runs row, whose winner optimize apply may     *)
(* write into the configuration later.                                     *)
(*                                                                         *)
(* Costs are exact here; the code adds up floating-point numbers.  Medians *)
(* are doubled, to stay within the integers.                               *)
(***************************************************************************)
EXTENDS BenchmarkRun

CONSTANTS
    RouteCount,    \* routes of the configuration
    MaxPrice       \* bound on what a token of one kind costs

ASSUME OptimizationAssumption == RouteCount \in Nat /\ MaxPrice \in Nat

VARIABLE optimization   \* the optimization_runs row

NoOptimization == [objective |-> "none"]
InitOptimization == optimization = NoOptimization

-----------------------------------------------------------------------------
(***************************************************************************)
(* The candidates.  The ways to refuse a request are not told apart.       *)
(***************************************************************************)
Routes == 1 .. RouteCount

\* Prices of an input and of an output token, and how many of each are reckoned with;
\* tokens read from and written to a cache enter the sum the same way.
NoCost == <<>>
Costs == {NoCost, <<0, MaxPrice>>, <<1, 0>>}
ReferenceTokens == {<<1, 0>>, <<1, 1>>}

\* A route has a cost of its own, or the one of its model.
Catalogs == [routes : [Routes -> [model : {"target", "other"}, cost : Costs]], model_cost : Costs]

\* The caller may name the routes to compare, {} when it does not.
selectOptimizeCandidateRoutes(routes, requested) ==
    LET targets == {r \in DOMAIN routes : routes[r].model = "target"}
        candidates == IF requested = {} THEN targets ELSE requested
    IN  IF candidates \subseteq targets /\ Cardinality(candidates) >= 2 THEN candidates ELSE {}

-----------------------------------------------------------------------------
(***************************************************************************)
(* The ranking: routes with a score, the lowest first, ties by their name. *)
(***************************************************************************)
NoScore == [known |-> FALSE, value |-> 0]
Score(value) == [known |-> TRUE, value |-> value]

Ranking(scores) ==
    LET ranked == {r \in DOMAIN scores : scores[r].known}
        before(r, q) == scores[r].value < scores[q].value \/ (scores[r].value = scores[q].value /\ r < q)
    IN  CHOOSE s \in SetToSeqs(ranked) : \A i, j \in DOMAIN s : i < j => before(s[i], s[j])

\* Without a route that has a score there is no report.
NoReport == [objective |-> "no_data"]

ReportOf(objective, basis, scores) ==
    LET ranking == Ranking(scores)
        tied == {i \in 2 .. Len(ranking) : scores[ranking[i]] = scores[ranking[1]]}
    IN  IF ranking = <<>> THEN NoReport
        ELSE [objective |-> objective, basis |-> basis, ranking |-> ranking, winner |-> ranking[1],
              tied_with |-> {ranking[i] : i \in tied}]

-----------------------------------------------------------------------------
(***************************************************************************)
(* The cost objective.                                                     *)
(***************************************************************************)
effectiveCost(catalog, r) ==
    IF catalog.routes[r].cost # NoCost THEN catalog.routes[r].cost ELSE catalog.model_cost

estimateCost(cost, tokens) == tokens[1] * cost[1] + tokens[2] * cost[2]

buildCostOptimizeReport(costs, tokens) ==
    ReportOf("cost", [costs |-> costs, tokens |-> tokens],
        [r \in DOMAIN costs |->
            IF costs[r] = NoCost THEN NoScore ELSE Score(estimateCost(costs[r], tokens))])

\* What a configuration and a request for its routes give.
buildCostOptimizeExecution(catalog, requested, tokens) ==
    LET candidates == selectOptimizeCandidateRoutes(catalog.routes, requested)
    IN  IF candidates = {} THEN NoReport
        ELSE buildCostOptimizeReport([r \in candidates |-> effectiveCost(catalog, r)], tokens)

CostReports ==
    {buildCostOptimizeExecution(catalog, requested, tokens) :
        catalog \in Catalogs, requested \in SUBSET (1 .. RouteCount + 1), tokens \in ReferenceTokens}

-----------------------------------------------------------------------------
(***************************************************************************)
(* The latency objective, from the samples the benchmark returned.         *)
(***************************************************************************)
\* Twice the median of a sequence.
median(values) ==
    LET sorted == CHOOSE s \in {[i \in DOMAIN values |-> values[p[i]]] : p \in SetToSeqs(DOMAIN values)} :
                    \A i, j \in DOMAIN s : i < j => s[i] <= s[j]
        midpoint == Len(sorted) \div 2
    IN  IF Len(sorted) % 2 = 1 THEN 2 * sorted[midpoint + 1] ELSE sorted[midpoint] + sorted[midpoint + 1]

Answered(sample) == sample.outcome = "succeeded" /\ sample.latency # Null

\* Mutant: the warm-up requests count as well.
MeasuredOrWarmup(r) == {t \in DOMAIN bench.plan : bench.plan[t].route = r}

Measured(r) == {t \in DOMAIN bench.plan : bench.plan[t].route = r /\ ~bench.plan[t].is_warmup}

latencyStats(r) ==
    LET answered == SetToSeq({t \in Measured(r) : Answered(tasks[t].sample)})
    IN  IF answered = <<>> THEN NoScore
        ELSE Score(median([i \in DOMAIN answered |-> tasks[answered[i]].sample.latency]))

buildLatencyOptimizeReport ==
    LET candidates == {bench.plan[t].route : t \in DOMAIN bench.plan}
    IN  ReportOf("latency", candidates, [r \in candidates |-> latencyStats(r)])

-----------------------------------------------------------------------------
(***************************************************************************)
(* Storing it.  The row names the benchmark run, but is not bound to it.   *)
(***************************************************************************)
createRun(report) ==
    /\ optimization' = report
    /\ Committed({})
    /\ UNCHANGED <<now, emitted, observations, executions, run, samples, deletions, cast>>

\* Bound: one optimization of a behaviour is stored.
persistCost ==
    \E report \in CostReports \ {NoReport} :
        optimization = NoOptimization /\ createRun(report) /\ UNCHANGED benchVars

\* runLatencyOptimize, buildOptimizeRunToolPayload: what comes after the benchmark.
Optimizing == bench.phase = "reported" /\ bench.objective = "route_optimization"

persistLatency ==
    /\ Optimizing /\ optimization = NoOptimization
    /\ buildLatencyOptimizeReport # NoReport
    /\ createRun(buildLatencyOptimizeReport)
    /\ bench' = [bench EXCEPT !.phase = "optimized"]
    /\ UNCHANGED tasks

\* No route was measured, or the row cannot be written.
OptimizeFails ==
    /\ Optimizing
    /\ bench.busy < MaxBusy \/ buildLatencyOptimizeReport = NoReport
    /\ bench' = [bench EXCEPT !.phase = "error"]
    /\ UNCHANGED <<storeVars, tasks, optimization>>

OptimizeStep == OptimizeFails \/ persistLatency

OperationOver == (BenchOver \/ bench.phase = "optimized") /\ ~Optimizing

-----------------------------------------------------------------------------
(***************************************************************************)
(* The winner of a stored optimization is not beaten by the data behind    *)
(* it: no candidate with a known price is cheaper, and no candidate was    *)
(* faster in every measured request, as long as the benchmark it names is  *)
(* stored; nor does a route win that answered none.  optimize apply writes *)
(* the winner into the configuration without looking at the data again.    *)
(***************************************************************************)
WinnerIsNotBeaten ==
    LET w == optimization.winner
        timed(r) == {t \in DOMAIN bench.plan : bench.plan[t].route = r /\ ~bench.plan[t].is_warmup}
        beats(r) == \A t \in timed(r), u \in timed(w) :
            Answered(samples[t]) /\ (Answered(samples[u]) => samples[t].latency < samples[u].latency)
    IN  CASE optimization.objective = "cost" ->
               LET b == optimization.basis
                   price(r) == b.tokens[1] * b.costs[r][1] + b.tokens[2] * b.costs[r][2]
               IN  /\ b.costs[w] # NoCost
                   /\ \A r \in DOMAIN b.costs \ {w} : b.costs[r] # NoCost =>
                        price(w) <= price(r) /\ (r \in optimization.tied_with <=> price(w) = price(r))
          [] optimization.objective = "latency" /\ run.status # "none" ->
               /\ \E t \in timed(w) : Answered(samples[t])
               /\ \A r \in optimization.basis \ {w} : ~beats(r)
          [] OTHER -> TRUE

=============================================================================
